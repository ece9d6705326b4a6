SPECIFICATION Spec
CONSTANTS
  Callers = {c1, c2}
  m1 = m1
  m2 = m2
  Methods = {m1, m2}
  Weights <- MCWeights
  DefaultWeight = 1
  Multipliers = {1, 2}
  WindowSeconds = 2
  MaxTime = 3
  MaxUsed = 4
INVARIANTS TypeOK ChargesSurvive
PROPERTY LoneWriteRepairs
