SPECIFICATION Spec
CONSTANTS
  u1 = u1  flash = flash  pro = pro  i1 = i1  i2 = i2
  d1 = d1  d2 = d2  d3 = d3  s1 = s1  Nil = Nil
  Users = {u1}
  Models = {flash, pro}
  Issues = {i1, i2}
  Deliveries = {d1, d2, d3}
  SignIns = {s1}
  UserOf <- OneUser
  ModelOf <- Flash
  IDOf <- SharedID
  Malformed = {}
  TxnOf <- ItsOwn
  Mismatched = {d1}
  ItemsOf <- SomeItems
  FreeCredits <- OneFree
  MaxFaults = 1
INVARIANTS TypeOK ConservedUnlessRaced IssuesSerialized SignaturesArePaid AckedMeansApplied
