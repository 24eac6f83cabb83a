SPECIFICATION Spec
CONSTANTS
  s1 = s1
  s2 = s2
  p1 = p1
  p2 = p2
  Nil = Nil
  AuthFlows = {s1, s2}
  k1 = k1
  k2 = k2
  Purchases = {p1, p2}
  Packages = {k1, k2}
  MaxSignOuts = 1
SYMMETRY FlowSymmetry
INVARIANTS
  PortHasPopup
  AuthWindowIsThere
  PageKnowsUser

