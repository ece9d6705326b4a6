SPECIFICATION FairSpec
CONSTANTS
  Threads = {t1, t2}
  NumKeys = 3
  Retries = 2
  Costs = {0, 2}
  MaxCost = 2
  FailureThreshold = 2
  OpenSeconds = 1
  ExhaustedSeconds = 2
  MaxCredits = 2
  MonthsPass = TRUE
INVARIANTS StreakAnswered OpenAdmitsNobody RotationRecovers OvershootBounded
  SerialTripJustified OpenMeansQuiet RestsOnLiveKey
PROPERTIES AdmissionKept RequestsReturn
