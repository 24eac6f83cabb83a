SPECIFICATION SessionsSpec
CONSTANTS
  old1 = old1  old2 = old2
  s1 = s1  s2 = s2  s3 = s3
  o1 = o1  o2 = o2
  SignIns = {s1, s2, s3}
  SignOuts = {o1, o2}
  OldSessions = {old1, old2}
  MaxFaults = 1
SYMMETRY Sym
INVARIANTS ClearedForGood CookiesWork SomeoneSucceeds
