SPECIFICATION Spec
CONSTANTS
  Devices <- All
  MaxFaults = 2
INVARIANTS
  TypeOK
  InterfacesAreRight
  HostsAreWhereTheyAre
  OnlyHostsAreReported
  VlanIsRight
  LocalPortIsRight
  ArpIsWhatItSays
