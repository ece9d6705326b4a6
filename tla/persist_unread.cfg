SPECIFICATION Spec
CONSTANTS
  Callers = {c1}
  Nobody = nobody
  Costs = {0, 1, 2}
  Cancellable = FALSE
  Months = 1
  MaxUsed = 3
  MaxOrphans = 0
PROPERTY SpentStaysSaved
