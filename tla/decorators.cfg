SPECIFICATION DecoratedSpec
CONSTANTS
  Tasks = {t1, t2, t3}
  Credits = 2
  FailureThreshold = 2
  OpenSeconds = 1
  MaxCredits = 3
INVARIANTS DecoratedTypeOK OpenShown
PROPERTIES AdmissionKept GaugeRecovers DeadServiceTrips
