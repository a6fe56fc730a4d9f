SPECIFICATION FairSpec
CONSTANTS
  Walks = {1, 2}
  Columns <- PortAndStatus
  Tables <- SmallTables
  CapSets <- BothOrOne
  Agents = {"v2c", "v1", "stuck"}
  MaxRep = 2
  Retries = 1
  Budget = 1
  RowCap = 3
INVARIANTS
  TypeOK
  RowsAreTheTables
  FirstRowsOfEach
  RowsAreChargedOnce
PROPERTIES
  NothingInVain
  EveryWalkEnds
  ImplementsBudgetedWalks
