SPECIFICATION Spec
CONSTANTS
  t1 = t1
  t2 = t2
  k1 = k1
  k2 = k2
  Nil = Nil
  Failure = Failure
  Turns = {t1, t2}
  Tokens = {k1, k2}
  MaxRetries = 1
  Credits = 1
INVARIANTS
  RepliesAreOwn
  TurnsBuyOnce
PROPERTY
  TurnsEnd
