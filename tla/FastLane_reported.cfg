SPECIFICATION Spec
CONSTANTS
  Checks = {c1}
  c1 = c1
  Statuses = {"up", "down"}
  Advertised = {1}
  DefaultInterval = 2
  MinInterval = 1
  RefreshPeriods = {2}
  FlushPeriods = {2}
  BufferCap = 1
  MaxProbes = 3
  MaxEntries = 1
  MaxBoots = 1
INVARIANT
  DifferenceReportedAtOnce
