CONSTANTS
  Requests = {r1, r2, r3}
  MaxConcurrency = 2
  TimeoutOn = TRUE
SPECIFICATION ScrapeSpec
SYMMETRY Symmetry
CONSTRAINT Bound
INVARIANTS
  TypeOK
  SlotsConserved
  GaugeConserved
  CountedOnce
  AnswerIsResult
  AbandonedIsCancelled
  ScrapesAddUp
