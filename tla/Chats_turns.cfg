SPECIFICATION Spec
CONSTANTS
  t1 = t1
  t2 = t2
  t3 = t3
  Turns = {t1, t2, t3}
  MaxChats = 2
  MaxChanges = 1
  MaxLoads = 2
SYMMETRY TurnSymmetry
INVARIANTS
  ReplyGoesHome
  NothingIsLost
  ChangesStay
  AskedOnce
