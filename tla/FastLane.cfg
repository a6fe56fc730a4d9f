SPECIFICATION FairSpec
CONSTANTS
  Checks = {c1}
  c1 = c1
  Statuses = {"up", "down"}
  Advertised = {0, 1}
  DefaultInterval = 2
  MinInterval = 1
  RefreshPeriods = {2}
  FlushPeriods = {2}
  BufferCap = 1
  MaxProbes = 2
  MaxEntries = 2
  MaxBoots = 2
INVARIANTS
  TypeOK
  OneProbePerEntry
  ChangeIsUrgent
  NoOvertaking
  OneStraggler
PROPERTIES
  BoundedBacklog
  ImplementsChannel
  EventuallyReported
  KeepsProbing
