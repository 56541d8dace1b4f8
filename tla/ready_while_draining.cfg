CONSTANTS
  Requests = {r1, r2}
SPECIFICATION Spec
SYMMETRY Symmetry
\* The process exits.
CHECK_DEADLOCK FALSE
INVARIANTS
  DrainingIsNotReady
