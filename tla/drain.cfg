CONSTANTS
  Requests = {r1, r2, r3}
SPECIFICATION FairSpec
\* The process exits.
CHECK_DEADLOCK FALSE
INVARIANTS
  DrainedWhenDone
PROPERTIES
  SignalEndsProcess
  FailureEndsProcess
  ImplementsGracefulStop
