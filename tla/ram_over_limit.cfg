CONSTANTS
  Requests = {r1, r2}
  MaxConcurrency = 1
  TimeoutOn = TRUE
  MaxMB = 2
  DefaultMB = 1
  MBs <- MBsDef
  PodMB = 3
SPECIFICATION PodSpec
SYMMETRY Symmetry
\* Requests are sent once each: a pod that has served them all stops.
CHECK_DEADLOCK FALSE
INVARIANTS
  NeverOOM
