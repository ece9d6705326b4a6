SPECIFICATION FairSpec
CONSTANTS
  Callers = {c1, c2}
  Nobody = nobody
  Second = 12
  Rps = 1
  MaxSince = 12
  MinRate = 2
  MaxRate = 4
  DecreaseDivisor = 2
  IncreaseStep = 1
  SuccessThreshold = 2
  MaxRetryAfter = 1
  Cancellable = TRUE
  MaxElapsed = 12
INVARIANT FloorHolds
PROPERTIES SlotKept PaceKept RateRecovers
