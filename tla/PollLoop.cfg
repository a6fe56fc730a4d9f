SPECIFICATION FairSpec
CONSTANTS
  Frozen = TRUE
  PollDefault = 1
  Polls = {2}
  SnmpEvery = {3}
  SweepEvery = {2}
  HelloEvery = 3
  MaxBackoff = 2
  MaxVersion = 2
  MaxBoots = 1
INVARIANTS
  TypeOK
  AskedIsServed
  LaneOnlyIfOffered
  BinaryIsWhole
  RunsWhatIsInstalled
PROPERTIES
  KeepsPolling
  FastChecksGetALane
  EveryCycleComesRound
  ReachesGolden
