SPECIFICATION FairSpec
CONSTANTS
  Threads = {t1}
  NumKeys = 2
  Retries = 3
  Costs = {0, 2}
  MaxCost = 2
  FailureThreshold = 2
  OpenSeconds = 1
  ExhaustedSeconds = 3
  MaxCredits = 3
  MonthsPass = TRUE
INVARIANT LongTripJustified
