-------------------------------- MODULE Ledger --------------------------------
(***************************************************************************)
(* The credit accounts: the SubscriptionInfo of user documents and the     *)
(* three handlers that read, modify and write them back whole.             *)
(*   - getSignedBlindedToken (src/svc/auth_token.go) spends a credit for   *)
(*     a signature, under a semaphore per user;                            *)
(*   - PaddleWebHookHandler (src/svc/paddle.go) adds purchased credits,    *)
(*     one read and write per item of the transaction, under no semaphore; *)
(*   - signInUser (src/svc/signin.go) creates the account or refreshes its *)
(*     profile, under no semaphore.                                        *)
(* A step is one database call with the local code around it.  Upsert is   *)
(* unconditional, so a write can undo one its handler has not seen.        *)
(***************************************************************************)
EXTENDS Naturals, Sequences, FiniteSets

CONSTANTS
  Users, Models,
  Issues, Deliveries, SignIns,  \* invocations of the three handlers
  UserOf,      \* the account each invocation is for
  ModelOf,     \* the model each issue asks a signature for
  IDOf,        \* the RequestID of each issue
  Malformed,   \* issues whose blinded token SignBlindedToken rejects
  TxnOf,       \* the transaction each delivery notifies
  Mismatched,  \* deliveries whose signature is not Paddle's
  ItemsOf,     \* its items: [model, tokens], or Nil when the price has no package
  FreeCredits, \* what a first sign-in grants
  MaxFaults,   \* bound: how many invocations the environment may kill
  Nil

Handlers == Issues \cup Deliveries \cup SignIns
IDs == {IDOf[i] : i \in Issues}
Credits == [Models -> Nat \cup {Nil}]  \* a map[string]int; Nil: key not there
Items == [model : Models, tokens : Nat]
Logs == [txn : {TxnOf[d] : d \in Deliveries}, granted : Credits]
Accounts == [active : Credits, used : Credits, logs : Seq(Logs)]

ASSUME FiniteAssumption == IsFiniteSet(Issues) /\ IsFiniteSet(Handlers)
ASSUME KindsAssumption ==
  /\ Issues \cap Deliveries = {} /\ Issues \cap SignIns = {}
  /\ Deliveries \cap SignIns = {}
ASSUME InputsAssumption ==
  /\ UserOf \in [Handlers -> Users]
  /\ ModelOf \in [Issues -> Models]
  /\ DOMAIN IDOf = Issues
  /\ Malformed \subseteq Issues
  /\ DOMAIN TxnOf = Deliveries /\ Mismatched \subseteq Deliveries
  /\ ItemsOf \in [Deliveries -> Seq(Items \cup {Nil})]
  /\ FreeCredits \in Credits
  /\ MaxFaults \in Nat
ASSUME NilAssumption == Nil \notin Handlers \cup Items \cup Accounts \cup Nat

VARIABLES
  pc,          \* where each invocation is
  draft,       \* its local user struct
  item,        \* the item a delivery is at
  userDoc,     \* the user documents
  lock,        \* the holder of semaphore "getSignedBlindedToken" + user
  inMemCache,  \* inMemCache[id]: the issue whose response is cached, or Nil
  answer,      \* the issue whose signature an issue returned
  marked,      \* issues whose blinded token has its AuthToken document
  charged,     \* history: issues whose charge the database applied
  granted,     \* history: credits the database was ever told to add
  purchases,   \* history: the payment logs it was ever told to append
  missed,      \* history: writers of the account since an invocation's fetch
  overwrote,   \* history: <<h, g>> where h's write undid the unseen one of g
  late,        \* invocations whose Upsert was given up on but is on its way
  stray,       \* history: invocations whose Upsert ever was
  killed       \* history: invocations the environment killed

docs == <<userDoc, charged, granted, purchases, missed, overwrote>>
server == <<lock, inMemCache, answer, marked>>
vars == <<pc, draft, item, userDoc, lock, inMemCache, answer, marked, charged,
          granted, purchases, missed, overwrote, late, stray, killed>>

Working == {"calling", "waiting", "fetching", "saving", "marking"}
Ended == {"done", "failed"}
Pending(h) == pc[h] \in Working
User(h) == UserOf[h]

-------------------------------------------------------------------------------
(* JSON maps, and what Unmarshal does to a struct that already has data.   *)

None == [m \in Models |-> Nil]  \* a nil map; marshalled as null
Val(c, m) == IF c[m] = Nil THEN 0 ELSE c[m]
Put(c, m, n) == [c EXCEPT ![m] = n]

(* null resets a map; an object only overwrites the keys it has.           *)
MergeMap(old, new) ==
  IF new = None THEN None
  ELSE [m \in Models |-> IF new[m] # Nil THEN new[m] ELSE old[m]]

(* A slice gets the array's length; its elements are decoded in place.     *)
MergeLogs(old, new) ==
  [i \in 1..Len(new) |->
     IF i \in 1..Len(old)
       THEN [new[i] EXCEPT !.granted = MergeMap(old[i].granted, new[i].granted)]
       ELSE new[i]]

MergeAccount(old, new) ==
  [active |-> MergeMap(old.active, new.active),
   used |-> MergeMap(old.used, new.used),
   logs |-> MergeLogs(old.logs, new.logs)]

LogOf(d, it) == [txn |-> TxnOf[d], granted |-> Put(None, it.model, it.tokens)]

(* Seeded faults: the last credit is spent twice; a purchase replaces the  *)
(* balance; anyone may enter an account's critical section; a delivery is  *)
(* over one item early.                                                    *)
HasCreditOrNone(a, m) == Val(a.active, m) >= 0
CreditInstead(a, d, it) == [active |-> Put(a.active, it.model, it.tokens),
                            used |-> a.used,
                            logs |-> Append(a.logs, LogOf(d, it))]
FreeForAll(u) == u \in Users
LastButOne(d) == item[d] + 1 >= Len(ItemsOf[d])

HasCredit(a, m) == Val(a.active, m) > 0
NewAccount == [active |-> FreeCredits, used |-> None, logs |-> <<>>]
Charge(a, m) == [active |-> Put(a.active, m, Val(a.active, m) - 1),
                 used |-> Put(a.used, m, Val(a.used, m) + 1),
                 logs |-> a.logs]
Credit(a, d, it) == [active |-> Put(a.active, it.model, Val(a.active, it.model) + it.tokens),
                     used |-> a.used,
                     logs |-> Append(a.logs, LogOf(d, it))]

-------------------------------------------------------------------------------

Init ==
  /\ pc = [h \in Handlers |-> "idle"]
  /\ draft = [h \in Handlers |-> Nil]
  /\ item = [d \in Deliveries |-> 1]
  /\ userDoc = [u \in Users |-> Nil]
  /\ lock = [u \in Users |-> Nil]
  /\ inMemCache = [id \in IDs |-> Nil]
  /\ answer = [i \in Issues |-> Nil]
  /\ marked = {}
  /\ charged = {}
  /\ granted = [u \in Users |-> [m \in Models |-> 0]]
  /\ purchases = [u \in Users |-> <<>>]
  /\ missed = [h \in Handlers |-> {}]
  /\ overwrote = {}
  /\ late = {}
  /\ stray = {}
  /\ killed = {}

Free(u) == lock[u] = Nil
LastItem(d) == item[d] = Len(ItemsOf[d])
Goto(h, l) == pc' = [pc EXCEPT ![h] = l]
ReleasedBy(H) == [u \in Users |-> IF lock[u] \in H THEN Nil ELSE lock[u]]
Return(h, l) == Goto(h, l) /\ lock' = ReleasedBy({h})
Read(h, a) == draft' = [draft EXCEPT ![h] = a] /\ missed' = [missed EXCEPT ![h] = {}]

(* What the database and the histories make of the Upsert of h's draft.    *)
Effect(h) ==
  LET u == User(h) IN
  \/ /\ h \in Issues
     /\ charged' = charged \cup {h}
     /\ UNCHANGED <<granted, purchases>>
  \/ /\ h \in Deliveries
     /\ LET it == ItemsOf[h][item[h]] IN
          /\ granted' = [granted EXCEPT ![u][it.model] = @ + it.tokens]
          /\ purchases' = [purchases EXCEPT ![u] = Append(@, LogOf(h, it))]
     /\ UNCHANGED charged
  \/ /\ h \in SignIns
     /\ granted' = IF userDoc[u] # Nil THEN granted
                   ELSE [granted EXCEPT ![u] = [m \in Models |-> @[m] + Val(FreeCredits, m)]]
     /\ UNCHANGED <<charged, purchases>>

Apply(h) ==
  /\ userDoc' = [userDoc EXCEPT ![User(h)] = draft[h]]
  /\ overwrote' = overwrote \cup {<<h, g>> : g \in missed[h]}
  /\ missed' = [g \in Handlers |->
                  IF g # h /\ User(g) = User(h) /\ (Pending(g) \/ g \in late)
                    THEN missed[g] \cup {h} ELSE missed[g]]
  /\ Effect(h)

(* AuthMiddleware reads the account into the struct the handler will use.  *)
Enter(i) ==
  /\ pc[i] = "idle"
  /\ userDoc[User(i)] # Nil
  /\ Read(i, userDoc[User(i)])
  /\ Goto(i, "calling")
  /\ UNCHANGED <<item, userDoc, charged, granted, purchases, overwrote, late, stray, killed>>
  /\ UNCHANGED server

CheckCache(i) ==
  /\ pc[i] = "calling"
  /\ LET g == inMemCache[IDOf[i]] IN
       \/ /\ g # Nil
          /\ answer' = [answer EXCEPT ![i] = g]
          /\ Goto(i, "done")
       \/ /\ g = Nil
          /\ Goto(i, "waiting")
          /\ UNCHANGED answer
  /\ UNCHANGED <<draft, item, lock, inMemCache, marked, late, stray, killed>>
  /\ UNCHANGED docs

Acquire(i) ==
  /\ pc[i] = "waiting"
  /\ Free(User(i))
  /\ lock' = [lock EXCEPT ![User(i)] = i]
  /\ Goto(i, "fetching")
  /\ UNCHANGED <<draft, item, inMemCache, answer, marked, late, stray, killed>>
  /\ UNCHANGED docs

FetchAccount(i) ==
  /\ pc[i] = "fetching" /\ i \in Issues
  /\ LET a == MergeAccount(draft[i], userDoc[User(i)])
         m == ModelOf[i]
     IN \/ /\ HasCredit(a, m) /\ i \notin Malformed
           /\ Read(i, Charge(a, m))
           /\ Goto(i, "saving")
           /\ UNCHANGED lock
        \/ /\ ~HasCredit(a, m) \/ i \in Malformed
           /\ Return(i, "failed")
           /\ UNCHANGED <<draft, missed>>
  /\ UNCHANGED <<item, userDoc, inMemCache, answer, marked, charged, granted,
                 purchases, overwrote, late, stray, killed>>

SaveCharge(i) ==
  /\ pc[i] = "saving" /\ i \in Issues
  /\ Apply(i)
  /\ Goto(i, "marking")
  /\ UNCHANGED <<draft, item, late, stray, killed>>
  /\ UNCHANGED server

(* Seeded fault: the blinded token gets no document.                       *)
MarkNothing(i) ==
  /\ pc[i] = "marking"
  /\ inMemCache' = [inMemCache EXCEPT ![IDOf[i]] = IF @ = Nil THEN i ELSE @]
  /\ answer' = [answer EXCEPT ![i] = i]
  /\ Return(i, "done")
  /\ UNCHANGED <<draft, item, marked, late, stray, killed>>
  /\ UNCHANGED docs

(* The Upsert of the blinded token's document, then cache.Add (which keeps *)
(* an entry that is there) and the response.                               *)
Mark(i) ==
  /\ pc[i] = "marking"
  /\ marked' = marked \cup {i}
  /\ inMemCache' = [inMemCache EXCEPT ![IDOf[i]] = IF @ = Nil THEN i ELSE @]
  /\ answer' = [answer EXCEPT ![i] = i]
  /\ Return(i, "done")
  /\ UNCHANGED <<draft, item, late, stray, killed>>
  /\ UNCHANGED docs

(* An item: no package (a nil dereference, answered 500), no account (500) *)
(* or an account to credit.  A delivery without items is acknowledged.  One*)
(* whose signature mismatches is answered 401 first, and goes on all the   *)
(* same: of two answers the first counts.                                  *)
DeliverFetch(d) ==
  LET u == User(d)
      it == ItemsOf[d][item[d]]
  IN
  /\ pc[d] \in {"idle", "fetching"}
  /\ \/ /\ item[d] > Len(ItemsOf[d])
        /\ Goto(d, "done")
        /\ UNCHANGED <<draft, missed>>
     \/ /\ item[d] <= Len(ItemsOf[d])
        /\ it = Nil \/ userDoc[u] = Nil
        /\ Goto(d, "failed")
        /\ UNCHANGED <<draft, missed>>
     \/ /\ item[d] <= Len(ItemsOf[d])
        /\ it # Nil /\ userDoc[u] # Nil
        /\ Read(d, Credit(userDoc[u], d, it))
        /\ Goto(d, "saving")
  /\ UNCHANGED <<item, userDoc, charged, granted, purchases, overwrote, late, stray, killed>>
  /\ UNCHANGED server

DeliverSave(d) ==
  /\ pc[d] = "saving"
  /\ Apply(d)
  /\ item' = [item EXCEPT ![d] = @ + 1]
  /\ Goto(d, IF LastItem(d) THEN "done" ELSE "fetching")
  /\ UNCHANGED <<draft, late, stray, killed>>
  /\ UNCHANGED server

SignInFetch(s) ==
  /\ pc[s] = "idle"
  /\ Read(s, IF userDoc[User(s)] = Nil THEN NewAccount ELSE userDoc[User(s)])
  /\ Goto(s, "saving")
  /\ UNCHANGED <<item, userDoc, charged, granted, purchases, overwrote, late, stray, killed>>
  /\ UNCHANGED server

SignInSave(s) ==
  /\ pc[s] = "saving"
  /\ Apply(s)
  /\ Goto(s, "done")
  /\ UNCHANGED <<draft, item, late, stray, killed>>
  /\ UNCHANGED server

(* A call fails or the client leaves; the Upsert under way may be dropped  *)
(* or still be on its way.                                                 *)
Abort(h) ==
  /\ Pending(h)
  /\ Cardinality(killed) < MaxFaults
  /\ killed' = killed \cup {h}
  /\ Return(h, "failed")
  /\ \/ UNCHANGED <<late, stray>>
     \/ /\ pc[h] = "saving"
        /\ late' = late \cup {h} /\ stray' = stray \cup {h}
  /\ UNCHANGED <<draft, item, inMemCache, answer, marked>>
  /\ UNCHANGED docs

(* The Upsert was applied and only its response lost.                      *)
SaveUnreported(h) ==
  /\ pc[h] = "saving"
  /\ Cardinality(killed) < MaxFaults
  /\ killed' = killed \cup {h}
  /\ Apply(h)
  /\ Return(h, "failed")
  /\ UNCHANGED <<draft, item, inMemCache, answer, marked, late, stray>>

LandLate(h) ==
  /\ h \in late
  /\ Apply(h)
  /\ late' = late \ {h}
  /\ UNCHANGED <<pc, draft, item, stray, killed>>
  /\ UNCHANGED server

(* Five minutes after it was filled.                                       *)
Evict(id) ==
  /\ inMemCache[id] # Nil
  /\ inMemCache' = [inMemCache EXCEPT ![id] = Nil]
  /\ UNCHANGED <<pc, draft, item, lock, answer, marked, late, stray, killed>>
  /\ UNCHANGED docs

Restart ==
  LET lost == {h \in Handlers : Pending(h)} IN
  /\ lost # {}
  /\ Cardinality(killed \cup lost) <= MaxFaults
  /\ killed' = killed \cup lost
  /\ pc' = [h \in Handlers |-> IF h \in lost THEN "failed" ELSE pc[h]]
  /\ lock' = [u \in Users |-> Nil]
  /\ inMemCache' = [id \in IDs |-> Nil]
  /\ \E L \in SUBSET {h \in lost : pc[h] = "saving"} :
       late' = late \cup L /\ stray' = stray \cup L
  /\ UNCHANGED <<draft, item, answer, marked>>
  /\ UNCHANGED docs

Issue(i) ==
  Enter(i) \/ CheckCache(i) \/ Acquire(i) \/ FetchAccount(i) \/ SaveCharge(i) \/ Mark(i)
Deliver(d) == DeliverFetch(d) \/ DeliverSave(d)
SignIn(s) == SignInFetch(s) \/ SignInSave(s)
Done == (\A h \in Handlers : ~Pending(h)) /\ UNCHANGED vars

Next ==
  \/ \E i \in Issues : Issue(i)
  \/ \E d \in Deliveries : Deliver(d)
  \/ \E s \in SignIns : SignIn(s)
  \/ \E h \in Handlers : Abort(h) \/ SaveUnreported(h) \/ LandLate(h)
  \/ \E id \in IDs : Evict(id)
  \/ Restart
  \/ Done

Spec == Init /\ [][Next]_vars
-------------------------------------------------------------------------------

Raced(u) == \E p \in overwrote : User(p[1]) = u
ChargesOf(u, m) == {i \in charged : User(i) = u /\ ModelOf[i] = m}

(* Every variable has the shape the code gives it; in particular no        *)
(* account's count of active or used tokens is ever negative.              *)
TypeOK ==
  /\ pc \in [Handlers -> Working \cup Ended \cup {"idle"}]
  /\ draft \in [Handlers -> Accounts \cup {Nil}]
  /\ userDoc \in [Users -> Accounts \cup {Nil}]
  /\ item \in [Deliveries -> Nat \ {0}]
  /\ lock \in [Users -> Issues \cup {Nil}]
  /\ inMemCache \in [IDs -> Issues \cup {Nil}]
  /\ answer \in [Issues -> Issues \cup {Nil}]
  /\ marked \subseteq Issues /\ charged \subseteq Issues
  /\ granted \in [Users -> [Models -> Nat]]
  /\ purchases \in [Users -> Seq(Logs)]
  /\ missed \in [Handlers -> SUBSET Handlers]
  /\ overwrote \subseteq Handlers \X Handlers
  /\ late \subseteq stray /\ stray \subseteq killed /\ killed \subseteq Handlers

(* Credits are conserved: as long as no Upsert on an account has undone    *)
(* one its handler had not seen, what the account has left and has used is *)
(* what it was granted, each charge was counted once and each purchase     *)
(* logged once, in order, through failures, restarts, late writes and the  *)
(* merging of fetched documents into structs that already hold data.       *)
ConservedUnlessRaced ==
  \A u \in Users : (userDoc[u] # Nil /\ ~Raced(u)) =>
    /\ \A m \in Models :
         /\ Val(userDoc[u].used, m) = Cardinality(ChargesOf(u, m))
         /\ Val(userDoc[u].active, m) + Val(userDoc[u].used, m) = granted[u][m]
    /\ userDoc[u].logs = purchases[u]

(* The semaphore keeps issues from undoing each other: of two issues of    *)
(* which one overwrote the other's charge unseen, one was given up on by   *)
(* its handler while its Upsert was under way.                             *)
IssuesSerialized ==
  \A p \in overwrote :
    (p[1] \in Issues /\ p[2] \in Issues) => (p[1] \in stray \/ p[2] \in stray)

(* Whoever holds a signature, from the handler or from the response cache, *)
(* holds one that was charged for and whose blinded token can no longer be *)
(* redeemed itself; and an issue that was refused rather than killed was   *)
(* not charged.                                                            *)
SignaturesArePaid ==
  \A i \in Issues :
    /\ answer[i] # Nil => answer[i] \in charged /\ answer[i] \in marked
    /\ (pc[i] = "failed" /\ i \notin killed) => i \notin charged

Acknowledged(d) == pc[d] = "done" /\ d \notin Mismatched

(* Paddle is told "ok" only after every item's credits were written, so a  *)
(* delivery cut short by a failure is delivered again.                     *)
AckedMeansApplied ==
  \A d \in Deliveries : Acknowledged(d) =>
    \A k \in 1..Len(ItemsOf[d]) :
      /\ ItemsOf[d][k] # Nil
      /\ \E j \in 1..Len(purchases[User(d)]) :
           purchases[User(d)][j] = LogOf(d, ItemsOf[d][k])

(* models/user.go:56 keeps the payment logs "for sake of recalculation in  *)
(* case some screw up happens": every acknowledged payment is in them.     *)
AckedPaymentsAreLogged ==
  \A d \in Deliveries : Acknowledged(d) =>
    \A k \in 1..Len(ItemsOf[d]) :
      \E j \in 1..Len(userDoc[User(d)].logs) :
        userDoc[User(d)].logs[j] = LogOf(d, ItemsOf[d][k])
===============================================================================
