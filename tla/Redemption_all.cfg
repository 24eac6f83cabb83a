SPECIFICATION FairSpec
CONSTANTS
  r1 = r1
  r2 = r2
  r3 = r3
  t1 = t1
  t2 = t2
  s1 = s1
  s2 = s2
  m1 = m1
  m2 = m2
  hello = hello
  rude = rude
  Nil = Nil
  Requests = {r1, r2, r3}
  Tokens = {t1, t2}
  Bodies <- MixedBodies
  Verified <- MCVerified
  Offensive = {rude}
  MaxFaults = 2
INVARIANTS
  SingleUse
  AnswersAgree
  RetriesSucceed
PROPERTIES
  SpentForGood
  KeepsPromise
  EveryRequestEnds
