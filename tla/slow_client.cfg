CONSTANTS
  Requests = {r1, r2}
  MaxConcurrency = 1
  TimeoutOn = TRUE
SPECIFICATION SlowClientSpec
\* Requests are sent once each: a pod that has served them all stops.
CHECK_DEADLOCK FALSE
PROPERTIES
  EveryRequestLeaves
