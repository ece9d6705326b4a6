SPECIFICATION Spec
CONSTANTS
  Callers = {c1, c2}
  Nobody = nobody
  Costs = {0, 1, 2}
  Cancellable = TRUE
  Months = 2
  MaxUsed = 3
  MaxOrphans = 2
INVARIANTS TypeOK ChargesSurvive
PROPERTY FileAdvances
