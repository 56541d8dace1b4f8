CONSTANTS
  Clients = {c1, c2}
  prod = prod
  staging = staging
  Namespaces <- NamespacesDef
  Contents <- ContentsDef
  Commands <- CommandsDef
SPECIFICATION Spec
SYMMETRY Symmetry
INVARIANTS
  FailureHasACause
  NothingUnasked
PROPERTIES
  SuccessMeansApplied
  OnlyValidCreate
