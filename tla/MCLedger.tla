------------------------------- MODULE MCLedger -------------------------------
(* Small instances of Ledger for TLC: one account, which is enough because *)
(* accounts share nothing but the semaphore manager's map and the response *)
(* cache.                                                                  *)
EXTENDS Ledger, TLC

CONSTANTS u1, flash, pro, i1, i2, d1, d2, d3, s1

OneUser == [h \in Handlers |-> u1]
Flash == [i \in Issues |-> flash]

(* i1 and i2 are a request and its repetition under one RequestID.         *)
SharedID == [i \in Issues |-> IF i = i2 THEN i1 ELSE i]

Grant(n) == [m \in Models |-> IF m = flash THEN n ELSE Nil]
OneFree == Grant(1)

(* Each delivery is of a transaction of its own: of one item, with a wrong *)
(* signature in Ledger_all; of two; and of none.                           *)
ItsOwn == [d \in Deliveries |-> d]
SomeItems ==
  [d \in Deliveries |->
    CASE d = d1 -> <<[model |-> flash, tokens |-> 1]>>
      [] d = d2 -> <<[model |-> pro, tokens |-> 2], [model |-> flash, tokens |-> 1]>>
      [] d = d3 -> <<>>]
===============================================================================
