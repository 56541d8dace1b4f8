CONSTANTS
  Requests = {r1, r2}
  MaxConcurrency = 1
  TimeoutOn = TRUE
SPECIFICATION Spec
SYMMETRY Symmetry
CONSTRAINT Bound
\* The process exits.
CHECK_DEADLOCK FALSE
INVARIANTS
  CleanExit
PROPERTIES
  ImplementsGracefulStop
