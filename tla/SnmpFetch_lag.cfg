SPECIFICATION Spec
CONSTANTS
  Devices <- All
  MaxFaults = 1
INVARIANT
  BlankMeansNotMember
