CONSTANTS
  MaxCPU = 3
  MaxSleep = 3
  MaxHold = 4
  MaxRamp = 4
  MaxMB = 3
  MaxWorkers = 2
  DefaultHold = 5
  Tail = 3
  InvokeTimeout = 6
  Inputs <- InputsDef
SPECIFICATION FairSpec
\* The request ends.
CHECK_DEADLOCK FALSE
INVARIANTS
  TypeOK
  FitsTimeout
  HonestSummary
  ReportsWhatRan
  MemorySpansWork
PROPERTIES
  ImplementsFootprint
  CanceledReturns
  CanceledUnwinds
