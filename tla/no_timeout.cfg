CONSTANTS
  Requests = {r1, r2}
  MaxConcurrency = 1
  TimeoutOn = FALSE
  MaxMB = 1
  DefaultMB = 2
  MBs <- MBsDef
  PodMB = 3
SPECIFICATION FairPodSpec
\* Requests are sent once each: a pod that has served them all stops.
CHECK_DEADLOCK FALSE
INVARIANTS
  RunningWithinLimit
  HoldingWithinLimit
  HonestSummary
PROPERTIES
  ImplementsLimiter
  ImplementsFootprint
  CanceledFrees
  CanceledUnwinds
