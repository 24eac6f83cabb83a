SPECIFICATION FairSpec
CONSTANTS
  c1 = c1  c2 = c2
  Calls = {c1, c2}
  Prefetches <- FourPrefetches
  TOKEN_POOL_SIZE = 3
  Credits = 3
  MaxRuns = 2
  MaxFaults = 1
INVARIANTS TokensHaveOnePlace
PROPERTY PoolRefills
