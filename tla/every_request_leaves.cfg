CONSTANTS
  Requests = {r1, r2}
  MaxConcurrency = 1
  TimeoutOn = TRUE
SPECIFICATION FairSpec
\* Requests are sent once each: a pod that has served them all stops.
CHECK_DEADLOCK FALSE
INVARIANTS
  NobodyWaitsInVain
PROPERTIES
  EveryRequestLeaves
  NoGoroutineLeak
  ImplementsCall
