SPECIFICATION TokenFairSpec
CONSTANTS
  Callers = {c1, c2}
  Nobody = nobody
  Capacity = 4
  Rate = 2
  Cancellable = TRUE
  MaxAge = 2
  MaxElapsed = 3
INVARIANT BurstBounded
PROPERTIES RefillIdeal HolderReleases
