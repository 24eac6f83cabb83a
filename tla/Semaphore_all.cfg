SPECIFICATION FairSpec
CONSTANTS
  c1 = c1  c2 = c2  c3 = c3  h1 = h1
  Calls = {c1, c2, c3}
  Handles = {h1}
  HandleOf <- HandleOfMC
  Nil = Nil
INVARIANTS MutualExclusion NobodyIsStuck
PROPERTY KeepsLine WaitersGetOn
