SPECIFICATION Spec
CONSTANTS
  Vlans = {1, 2}
  Hint = {1}
  Contexts = "always"
  Quick = FALSE
  Budget = 1
  RowCap = 3
  MaxVlans = 2
  Concurrency = 2
  AbortAfter = 2
  MaxRows = 2
INVARIANT
  CompleteMeansAllRead
