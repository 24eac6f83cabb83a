SPECIFICATION ModFairSpec
CONSTANTS
  m1 = m1  m2 = m2  hate = hate  violence = violence
  t1 = t1  t2 = t2  img = img  None = None
  Moderations = {m1, m2}
  Chunks = {t1, t2, img}
  Requests <- SomeRequests
  Categories = {hate, violence}
  Analyses <- SomeAnalyses
  MaxSeverity = 2
  MaxFaults = 1
INVARIANTS VerdictCoversRequest
PROPERTY EveryModerationEnds
