SPECIFICATION Spec
CONSTANTS
  Checks = {c1, c2, c3}
  Targets = {t1, t2}
  c1 = c1
  c2 = c2
  c3 = c3
  t1 = t1
  t2 = t2
  WorkLists <- ThreeCertificates
  DnsModes = {"off"}
  Threads = 1
  Gate = 1
  Timeout = 1
  Grace = 1
  LookupTimeout = 1
  AgentTrouble = {}
  MaxRounds = 2
  MaxMishaps = 0
INVARIANT
  OnlyTargetsAreDown
