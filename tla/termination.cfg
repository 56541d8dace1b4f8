CONSTANTS
  Second = 2
  Files <- MCFiles
  MaxOpen = 2
  Lag = 9
SPECIFICATION Spec
\* The pod ends.
CHECK_DEADLOCK FALSE
INVARIANTS
  TypeOK
  NeverKilledByDerivation
  EdgeOutlastsRuntime
  StartsOnItsPort
