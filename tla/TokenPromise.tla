----------------------------- MODULE TokenPromise -----------------------------
(***************************************************************************)
(* What redeeming a token promises, without semaphores, documents or       *)
(* calls that fail half way: the answer of at most one request per token   *)
(* is committed; a request that was killed may leave a stray answer; and   *)
(* whoever is answered is given one of these, produced for a request with  *)
(* the same hash.  Redemption implements it (Redemption!Promise).          *)
(***************************************************************************)
CONSTANTS Requests, Hashes, Nil, TokenOf(_)

VARIABLES
  ask,        \* the hash of each request made, or Nil
  committed,  \* requests whose answer is committed
  stray,      \* killed requests whose answer turned up all the same
  source      \* whose answer each answered request was given, or Nil

promiseVars == <<ask, committed, stray, source>>

Init ==
  /\ ask = [r \in Requests |-> Nil]
  /\ committed = {}
  /\ stray = {}
  /\ source = [r \in Requests |-> Nil]

Ask(r) ==
  /\ ask[r] = Nil
  /\ \E h \in Hashes : ask' = [ask EXCEPT ![r] = h]
  /\ UNCHANGED <<committed, stray, source>>

Commit(r) ==
  /\ ask[r] # Nil /\ source[r] = Nil
  /\ \A q \in committed : TokenOf(ask[q]) # TokenOf(ask[r])
  /\ committed' = committed \cup {r}
  /\ UNCHANGED <<ask, stray, source>>

Stray(r) ==
  /\ ask[r] # Nil /\ source[r] = Nil /\ r \notin committed
  /\ stray' = stray \cup {r}
  /\ UNCHANGED <<ask, committed, source>>

Deliver(r) ==
  /\ ask[r] # Nil /\ source[r] = Nil /\ r \notin stray
  /\ \E q \in committed \cup stray :
       ask[q] = ask[r] /\ source' = [source EXCEPT ![r] = q]
  /\ UNCHANGED <<ask, committed, stray>>

Next == \E r \in Requests : Ask(r) \/ Commit(r) \/ Stray(r) \/ Deliver(r)

Spec == Init /\ [][Next]_promiseVars
===============================================================================
