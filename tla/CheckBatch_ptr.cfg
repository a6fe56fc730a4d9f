SPECIFICATION Spec
CONSTANTS
  Checks = {c1, c2}
  Targets = {t1, t2}
  c1 = c1
  c2 = c2
  c3 = c3
  t1 = t1
  t2 = t2
  WorkLists <- CertificatesOnly
  DnsModes = {"off", "system", "explicit", "missing"}
  Threads = 1
  Gate = 1
  Timeout = 1
  Grace = 1
  LookupTimeout = 1
  AgentTrouble = {"blocked", "oserror", "error"}
  MaxRounds = 2
  MaxMishaps = 0
INVARIANT
  EmptyMeansNameless
