SPECIFICATION FairSpec
CONSTANTS
  Tasks = {t1, t2, t3}
  NumKeys = 4
  Retries = 2
  Costs = {0, 2}
  MaxCost = 2
  FailureThreshold = 2
  OpenSeconds = 1
  ExhaustedSeconds = 2
  MaxCredits = 2
INVARIANT MarksBounded
PROPERTIES AdmissionKept RequestsReturn
