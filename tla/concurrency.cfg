SPECIFICATION FairSpec
CONSTANTS
  Threads = {t1, t2, t3, t4}
  MaxConcurrency = 2
  CallersFail = TRUE
INVARIANTS CapHolds PermitsConserved CountExact
PROPERTY KeepsServing
