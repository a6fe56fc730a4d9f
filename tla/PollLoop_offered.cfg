SPECIFICATION Spec
CONSTANTS
  Frozen = TRUE
  PollDefault = 1
  Polls = {}
  SnmpEvery = {3}
  SweepEvery = {2}
  HelloEvery = 3
  MaxBackoff = 2
  MaxVersion = 2
  MaxBoots = 1
INVARIANT
  LaneRunsOnceOffered
