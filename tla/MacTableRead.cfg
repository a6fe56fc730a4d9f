SPECIFICATION Spec
CONSTANTS
  Vlans = {1, 2, 3, 4, 5}
  Hint = {1, 3}
  Contexts = "always"
  Quick = FALSE
  Budget = 1
  RowCap = 2
  MaxVlans = 4
  Concurrency = 2
  AbortAfter = 2
  MaxRows = 1
INVARIANTS
  TypeOK
  VlansAccounted
  AbortBounded
  CompleteMeansEveryWalkEnded
