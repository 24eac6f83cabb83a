----------------------------- MODULE LedgerProofs -----------------------------
(***************************************************************************)
(* Proofs about Ledger, for every set of accounts, models, invocations and *)
(* transactions and any number of faults.  The heart of IInv is DraftInv:  *)
(* on an account no unseen write has been undone on, a handler about to    *)
(* write, or whose write is still under way, and that has missed no write, *)
(* holds exactly the account as it is plus its own effect.  StaleInv       *)
(* carries this through Unmarshal's merging of the fetched document into   *)
(* the struct AuthMiddleware had filled earlier.                           *)
(***************************************************************************)
EXTENDS Ledger, FiniteSetTheorems, SequenceTheorems, TLAPS

Critical(i) == pc[i] \in {"fetching", "saving", "marking"}
Writing(h) == pc[h] = "saving" \/ h \in late

LateInv == \A h \in late : pc[h] = "failed" /\ draft[h] # Nil

(* Who has read an account has read one that exists and will go on to.     *)
ExistsInv ==
  /\ \A i \in Issues : (Pending(i) \/ i \in late) => draft[i] # Nil /\ userDoc[User(i)] # Nil
  /\ \A d \in Deliveries : Writing(d) => /\ draft[d] # Nil /\ userDoc[User(d)] # Nil
                                         /\ item[d] \in 1..Len(ItemsOf[d])
                                         /\ ItemsOf[d][item[d]] # Nil
  /\ \A s \in SignIns : Writing(s) => draft[s] # Nil
  /\ \A u \in Users : userDoc[u] = Nil =>
       /\ granted[u] = [m \in Models |-> 0] /\ purchases[u] = <<>>
       /\ \A m \in Models : ChargesOf(u, m) = {}

ChargeInv ==
  /\ \A i \in Issues : (pc[i] \in {"idle", "calling", "waiting", "fetching", "saving"} \/ i \in late)
                          => i \notin charged
  /\ \A i \in Issues : pc[i] = "marking" => i \in charged
  /\ \A id \in IDs : inMemCache[id] # Nil => inMemCache[id] \in charged \cap marked

KindInv ==
  /\ \A d \in Deliveries : pc[d] \in {"idle", "fetching", "saving"} \cup Ended
  /\ \A s \in SignIns : pc[s] \in {"idle", "saving"} \cup Ended

LockInv == \A i \in Issues : Critical(i) => lock[User(i)] = i

SerialInv ==
  \A i \in Issues : pc[i] = "saving" => missed[i] \cap Issues \subseteq stray

DraftInv ==
  \A h \in Handlers : (Writing(h) /\ missed[h] = {} /\ ~Raced(User(h))) =>
    LET a == userDoc[User(h)] IN
    /\ h \in Issues => HasCredit(a, ModelOf[h]) /\ draft[h] = Charge(a, ModelOf[h])
    /\ h \in Deliveries => draft[h] = Credit(a, h, ItemsOf[h][item[h]])
    /\ h \in SignIns => draft[h] = IF a = Nil THEN NewAccount ELSE a

(* Every key the older map has, the newer one has. *)
KeysStay(old, new) == \A m \in Models : old[m] # Nil => new[m] # Nil
Grew(old, new) ==
  /\ KeysStay(old.active, new.active) /\ KeysStay(old.used, new.used)
  /\ Len(old.logs) <= Len(new.logs)
  /\ \A k \in 1..Len(old.logs) : KeysStay(old.logs[k].granted, new.logs[k].granted)

StaleInv ==
  \A i \in Issues : (pc[i] \in {"calling", "waiting", "fetching"} /\ ~Raced(User(i))) =>
    Grew(draft[i], userDoc[User(i)])

AckInv ==
  \A d \in Deliveries :
    /\ pc[d] = "done" => item[d] > Len(ItemsOf[d])
    /\ \A k \in 1..Len(ItemsOf[d]) : k < item[d] =>
         /\ ItemsOf[d][k] # Nil
         /\ \E j \in 1..Len(purchases[User(d)]) :
              purchases[User(d)][j] = LogOf(d, ItemsOf[d][k])

IInv ==
  /\ TypeOK
  /\ LateInv
  /\ ExistsInv
  /\ ChargeInv
  /\ KindInv
  /\ LockInv
  /\ SerialInv
  /\ IssuesSerialized
  /\ SignaturesArePaid
  /\ DraftInv
  /\ StaleInv
  /\ ConservedUnlessRaced
  /\ AckInv

-------------------------------------------------------------------------------
(* The data: what charging, crediting and merging do to an account.        *)

LEMMA CreditsFacts ==
  /\ None \in Credits
  /\ \A c \in Credits, m \in Models :
       /\ Val(c, m) \in Nat
       /\ \A n \in Nat : Put(c, m, n) \in Credits /\ Val(Put(c, m, n), m) = n
       /\ \A n \in Nat, k \in Models \ {m} : Val(Put(c, m, n), k) = Val(c, k)
       /\ \A n \in Nat : KeysStay(c, Put(c, m, n))
  BY NilAssumption DEF Credits, None, Val, Put, KeysStay

LEMMA ChargeFacts ==
  ASSUME NEW a \in Accounts, NEW m \in Models, HasCredit(a, m)
  PROVE  LET b == Charge(a, m) IN
         /\ b \in Accounts
         /\ Val(b.active, m) = Val(a.active, m) - 1 /\ Val(b.used, m) = Val(a.used, m) + 1
         /\ \A k \in Models \ {m} : Val(b.active, k) = Val(a.active, k) /\ Val(b.used, k) = Val(a.used, k)
         /\ b.logs = a.logs
         /\ KeysStay(a.active, b.active) /\ KeysStay(a.used, b.used)
  <1>1. a.active \in Credits /\ a.used \in Credits
    BY DEF Accounts
  <1>2. Val(a.active, m) \in Nat /\ Val(a.active, m) - 1 \in Nat /\ Val(a.used, m) + 1 \in Nat
    BY <1>1, CreditsFacts DEF HasCredit
  <1>3. Charge(a, m) = [active |-> Put(a.active, m, Val(a.active, m) - 1),
                        used |-> Put(a.used, m, Val(a.used, m) + 1), logs |-> a.logs]
    BY DEF Charge
  <1>4. a.logs \in Seq(Logs)
    BY DEF Accounts
  <1>5. Charge(a, m) \in Accounts
    BY <1>1, <1>2, <1>3, <1>4, CreditsFacts DEF Accounts
  <1> QED BY <1>1, <1>2, <1>3, <1>5, CreditsFacts

LEMMA CreditFacts ==
  ASSUME NEW a \in Accounts, NEW d \in Deliveries, NEW it \in Items
  PROVE  LET b == Credit(a, d, it) IN
         /\ b \in Accounts
         /\ Val(b.active, it.model) = Val(a.active, it.model) + it.tokens
         /\ \A k \in Models \ {it.model} : Val(b.active, k) = Val(a.active, k)
         /\ b.used = a.used
         /\ b.logs = Append(a.logs, LogOf(d, it))
         /\ LogOf(d, it) \in Logs
         /\ KeysStay(a.active, b.active)
  <1>1. a.active \in Credits /\ a.used \in Credits /\ a.logs \in Seq(Logs)
    BY DEF Accounts
  <1>2. it.model \in Models /\ it.tokens \in Nat
    BY DEF Items
  <1>3. LogOf(d, it) \in Logs
    BY <1>2, CreditsFacts DEF LogOf, Logs
  <1>4. Credit(a, d, it) = [active |-> Put(a.active, it.model, Val(a.active, it.model) + it.tokens),
                            used |-> a.used, logs |-> Append(a.logs, LogOf(d, it))]
    BY DEF Credit
  <1>5. Val(a.active, it.model) + it.tokens \in Nat
    BY <1>1, <1>2, CreditsFacts
  <1>6. Credit(a, d, it) \in Accounts
    BY <1>1, <1>2, <1>3, <1>4, <1>5, CreditsFacts DEF Accounts
  <1> QED BY <1>1, <1>2, <1>3, <1>4, <1>5, <1>6, CreditsFacts

LEMMA MergeMapFacts ==
  ASSUME NEW old \in Credits, NEW new \in Credits
  PROVE  /\ MergeMap(old, new) \in Credits
         /\ KeysStay(old, new) => MergeMap(old, new) = new
  BY NilAssumption DEF MergeMap, Credits, KeysStay, None

LEMMA MergeFacts ==
  ASSUME NEW old \in Accounts, NEW new \in Accounts
  PROVE  /\ MergeAccount(old, new) \in Accounts
         /\ Grew(old, new) => MergeAccount(old, new) = new
  <1>1. /\ old.active \in Credits /\ old.used \in Credits /\ old.logs \in Seq(Logs)
        /\ new.active \in Credits /\ new.used \in Credits /\ new.logs \in Seq(Logs)
        /\ new = [active |-> new.active, used |-> new.used, logs |-> new.logs]
    BY DEF Accounts
  <1> DEFINE log(k) == IF k \in 1..Len(old.logs)
                         THEN [new.logs[k] EXCEPT !.granted = MergeMap(old.logs[k].granted, new.logs[k].granted)]
                         ELSE new.logs[k]
  <1>2. \A k \in 1..Len(new.logs) :
          /\ log(k) \in Logs
          /\ Grew(old, new) => log(k) = new.logs[k]
    <2> SUFFICES ASSUME NEW k \in 1..Len(new.logs)
                 PROVE  /\ log(k) \in Logs
                        /\ Grew(old, new) => log(k) = new.logs[k]
      OBVIOUS
    <2>1. new.logs[k] \in Logs
      BY <1>1
    <2>2. CASE k \in 1..Len(old.logs)
      <3>1. old.logs[k].granted \in Credits /\ new.logs[k].granted \in Credits
        <4>1. old.logs[k] \in Logs
          BY <1>1, <2>2
        <4> QED BY <2>1, <4>1 DEF Logs
      <3> QED BY <2>1, <2>2, <3>1, MergeMapFacts DEF Logs, Grew
    <2>3. CASE k \notin 1..Len(old.logs)
      BY <2>1, <2>3
    <2> QED BY <2>2, <2>3
  <1>3. MergeLogs(old.logs, new.logs) = [k \in 1..Len(new.logs) |-> log(k)]
    BY DEF MergeLogs
  <1>4. MergeLogs(old.logs, new.logs) \in Seq(Logs)
    BY <1>1, <1>2, <1>3
  <1>5. Grew(old, new) => MergeLogs(old.logs, new.logs) = new.logs
    BY <1>1, <1>2, <1>3
  <1>6. MergeAccount(old, new) \in Accounts
    BY <1>1, <1>4, MergeMapFacts DEF MergeAccount, Accounts
  <1>7. Grew(old, new) => MergeAccount(old, new) = new
    BY <1>1, <1>5, MergeMapFacts DEF MergeAccount, Grew
  <1> QED BY <1>6, <1>7

LEMMA GrewFacts ==
  ASSUME NEW old \in Accounts, NEW a \in Accounts
  PROVE  /\ Grew(a, a)
         /\ \A m \in Models : Grew(old, a) /\ HasCredit(a, m) => Grew(old, Charge(a, m))
         /\ \A d \in Deliveries, it \in Items : Grew(old, a) => Grew(old, Credit(a, d, it))
  <1>1. Grew(a, a)
    BY DEF Grew, KeysStay, Accounts
  <1>2. ASSUME NEW m \in Models, Grew(old, a), HasCredit(a, m) PROVE Grew(old, Charge(a, m))
    BY <1>2, ChargeFacts DEF Grew, KeysStay
  <1>3. ASSUME NEW d \in Deliveries, NEW it \in Items, Grew(old, a) PROVE Grew(old, Credit(a, d, it))
    <2>1. a.logs \in Seq(Logs) /\ old.logs \in Seq(Logs)
      BY DEF Accounts
    <2>2. Len(Append(a.logs, LogOf(d, it))) = Len(a.logs) + 1
      BY <2>1, CreditFacts
    <2>3. \A k \in 1..Len(a.logs) : Append(a.logs, LogOf(d, it))[k] = a.logs[k]
      BY <2>1, CreditFacts
    <2>4. \A k \in 1..Len(old.logs) : k \in 1..Len(a.logs)
      BY <1>3, <2>1 DEF Grew
    <2>5. KeysStay(old.active, Credit(a, d, it).active) /\ KeysStay(old.used, Credit(a, d, it).used)
      BY <1>3, CreditFacts DEF Grew, KeysStay
    <2>6. Len(old.logs) <= Len(Credit(a, d, it).logs)
      BY <1>3, <2>1, <2>2, CreditFacts DEF Grew
    <2>7. \A k \in 1..Len(old.logs) : KeysStay(old.logs[k].granted, Credit(a, d, it).logs[k].granted)
      BY <1>3, <2>3, <2>4, CreditFacts DEF Grew
    <2> QED BY <2>5, <2>6, <2>7 DEF Grew
  <1> QED BY <1>1, <1>2, <1>3

-------------------------------------------------------------------------------
(* The Upsert.                                                             *)

(* What is written is an account, and what it adds is well typed.          *)
LEMMA ApplyFacts ==
  ASSUME IInv, NEW h \in Handlers, Writing(h), Apply(h)
  PROVE  /\ User(h) \in Users /\ draft[h] \in Accounts /\ draft[h] # Nil
         /\ userDoc' \in [Users -> Accounts \cup {Nil}]
         /\ userDoc'[User(h)] = draft[h]
         /\ \A v \in Users \ {User(h)} : userDoc'[v] = userDoc[v]
         /\ \A v \in Users : userDoc[v] # Nil => userDoc'[v] # Nil
         /\ missed' \in [Handlers -> SUBSET Handlers]
         /\ overwrote \subseteq overwrote' /\ overwrote' \subseteq Handlers \X Handlers
         /\ h \in Deliveries => ItemsOf[h][item[h]] \in Items
  <1>1. User(h) \in Users
    BY InputsAssumption DEF User
  <1>2. draft[h] \in Accounts /\ draft[h] # Nil
    <2>1. draft[h] # Nil
      BY DEF IInv, ExistsInv, Writing, Handlers, Pending, Working
    <2> QED BY <2>1 DEF IInv, TypeOK
  <1>3. h \in Deliveries => ItemsOf[h][item[h]] \in Items
    <2> SUFFICES ASSUME h \in Deliveries PROVE ItemsOf[h][item[h]] \in Items
      OBVIOUS
    <2>1. ItemsOf[h] \in Seq(Items \cup {Nil}) /\ item[h] \in 1..Len(ItemsOf[h])
      BY InputsAssumption DEF IInv, ExistsInv
    <2>2. ItemsOf[h][item[h]] \in Items \cup {Nil}
      BY <2>1
    <2> QED BY <2>2 DEF IInv, ExistsInv
  <1>4. userDoc' = [userDoc EXCEPT ![User(h)] = draft[h]]
    BY DEF Apply
  <1>5. /\ userDoc' \in [Users -> Accounts \cup {Nil}] /\ userDoc'[User(h)] = draft[h]
        /\ \A v \in Users \ {User(h)} : userDoc'[v] = userDoc[v]
    BY <1>1, <1>2, <1>4 DEF IInv, TypeOK
  <1>6. missed' \in [Handlers -> SUBSET Handlers]
    BY DEF Apply, IInv, TypeOK
  <1>7. overwrote \subseteq overwrote' /\ overwrote' \subseteq Handlers \X Handlers
    BY DEF Apply, IInv, TypeOK
  <1> QED BY <1>1, <1>2, <1>3, <1>5, <1>6, <1>7

(* If the account is still not raced on, the write had missed nothing, and *)
(* what it writes is the account plus its handler's own effect.            *)
LEMMA ApplyIntact ==
  ASSUME IInv, NEW h \in Handlers, Writing(h), Apply(h), ~Raced(User(h))'
  PROVE  LET a == userDoc[User(h)] IN
         /\ ~Raced(User(h))
         /\ h \in Issues => /\ a \in Accounts /\ a # Nil /\ HasCredit(a, ModelOf[h])
                            /\ draft[h] = Charge(a, ModelOf[h])
         /\ h \in Deliveries => a \in Accounts /\ a # Nil /\ draft[h] = Credit(a, h, ItemsOf[h][item[h]])
         /\ h \in SignIns => draft[h] = IF a = Nil THEN NewAccount ELSE a
  <1>1. ~Raced(User(h))
    BY ApplyFacts DEF Raced, User
  <1>2. missed[h] = {}
    <2> SUFFICES ASSUME NEW g \in missed[h] PROVE FALSE
      OBVIOUS
    <2>1. <<h, g>> \in overwrote'
      BY DEF Apply
    <2> QED BY <2>1 DEF Raced, User
  <1>3. userDoc[User(h)] \in Accounts \cup {Nil}
    BY InputsAssumption DEF IInv, TypeOK, User
  <1> QED BY <1>1, <1>2, <1>3 DEF IInv, DraftInv, ExistsInv, Writing, Pending, Working

LEMMA ApplyGrants ==
  ASSUME IInv, NEW h \in Handlers, Writing(h), Apply(h)
  PROVE  /\ granted' \in [Users -> [Models -> Nat]] /\ purchases' \in [Users -> Seq(Logs)]
         /\ charged' \subseteq Issues /\ charged \subseteq charged'
         /\ \A g \in charged' \ charged : g = h
         /\ \A v \in Users \ {User(h)} : granted'[v] = granted[v] /\ purchases'[v] = purchases[v]
  <1>1. User(h) \in Users
    BY ApplyFacts
  <1>2. CASE h \in Issues
    BY <1>2, KindsAssumption DEF Apply, Effect, IInv, TypeOK
  <1>3. CASE h \in Deliveries
    <2> DEFINE it == ItemsOf[h][item[h]]
    <2>1. it \in Items /\ it.model \in Models /\ it.tokens \in Nat
      BY <1>3, ApplyFacts DEF Items
    <2>2. LogOf(h, it) \in Logs
      BY <1>3, <2>1, CreditsFacts DEF LogOf, Logs
    <2>3. /\ granted' = [granted EXCEPT ![User(h)][it.model] = @ + it.tokens]
          /\ purchases' = [purchases EXCEPT ![User(h)] = Append(@, LogOf(h, it))]
          /\ charged' = charged
      BY <1>3, KindsAssumption DEF Apply, Effect
    <2>4. granted' \in [Users -> [Models -> Nat]]
      BY <1>1, <2>1, <2>3 DEF IInv, TypeOK
    <2>5. purchases' \in [Users -> Seq(Logs)]
      BY <1>1, <2>2, <2>3 DEF IInv, TypeOK
    <2> QED BY <1>1, <2>3, <2>4, <2>5 DEF IInv, TypeOK
  <1>4. CASE h \in SignIns
    <2>1. /\ granted' = IF userDoc[User(h)] # Nil THEN granted
                        ELSE [granted EXCEPT ![User(h)] = [m \in Models |-> @[m] + Val(FreeCredits, m)]]
          /\ UNCHANGED <<charged, purchases>>
      BY <1>4, KindsAssumption DEF Apply, Effect
    <2>2. [m \in Models |-> granted[User(h)][m] + Val(FreeCredits, m)] \in [Models -> Nat]
      BY <1>1, InputsAssumption, CreditsFacts DEF IInv, TypeOK
    <2> QED BY <1>1, <2>1, <2>2 DEF IInv, TypeOK
  <1> QED BY <1>2, <1>3, <1>4 DEF Handlers
LEMMA ChargesFinite ==
  ASSUME charged \subseteq Issues, NEW u, NEW m
  PROVE  IsFiniteSet(ChargesOf(u, m)) /\ Cardinality(ChargesOf(u, m)) \in Nat
  <1>1. ChargesOf(u, m) \subseteq Issues
    BY DEF ChargesOf
  <1> QED BY <1>1, FiniteAssumption, FS_Subset, FS_CardinalityType

(* Every write keeps the books straight on accounts not raced on.          *)
LEMMA ApplyConserves ==
  ASSUME IInv, NEW h \in Handlers, Writing(h), Apply(h)
  PROVE  ConservedUnlessRaced'
  <1> SUFFICES ASSUME NEW v \in Users, userDoc'[v] # Nil, ~Raced(v)'
               PROVE  /\ \A m \in Models :
                           /\ Val(userDoc'[v].used, m) = Cardinality(ChargesOf(v, m)')
                           /\ Val(userDoc'[v].active, m) + Val(userDoc'[v].used, m) = granted'[v][m]
                      /\ userDoc'[v].logs = purchases'[v]
    BY DEF ConservedUnlessRaced
  <1> DEFINE u == User(h)
             a == userDoc[u]
             Books(w) == /\ \A m \in Models :
                              /\ Val(userDoc[w].used, m) = Cardinality(ChargesOf(w, m))
                              /\ Val(userDoc[w].active, m) + Val(userDoc[w].used, m) = granted[w][m]
                         /\ userDoc[w].logs = purchases[w]
  <1>1. ~Raced(v)
    BY ApplyFacts DEF Raced, User
  <1>2. userDoc[v] # Nil => Books(v)
    BY <1>1 DEF IInv, ConservedUnlessRaced
  <1>3. CASE v # u
    <2>1. /\ userDoc'[v] = userDoc[v] /\ granted'[v] = granted[v] /\ purchases'[v] = purchases[v]
          /\ \A m \in Models : ChargesOf(v, m)' = ChargesOf(v, m)
      BY <1>3, ApplyFacts, ApplyGrants DEF ChargesOf, User
    <2> QED BY <1>2, <2>1
  <1>4. CASE v = u /\ h \in Issues
    <2> DEFINE n == ModelOf[h]
    <2>1. a \in Accounts /\ a # Nil /\ HasCredit(a, n) /\ userDoc'[u] = Charge(a, n) /\ n \in Models
      BY <1>4, ApplyFacts, ApplyIntact, InputsAssumption
    <2>2. charged' = charged \cup {h} /\ granted' = granted /\ purchases' = purchases
      BY <1>4, KindsAssumption DEF Apply, Effect
    <2>3. h \notin charged
      BY <1>4 DEF IInv, ChargeInv, Writing
    <2>4. ChargesOf(u, n)' = ChargesOf(u, n) \cup {h} /\ h \notin ChargesOf(u, n)
      BY <1>4, <2>2, <2>3 DEF ChargesOf
    <2>5. Cardinality(ChargesOf(u, n)') = Cardinality(ChargesOf(u, n)) + 1
      BY <2>4, ChargesFinite, FS_AddElement DEF IInv, TypeOK
    <2>6. \A m \in Models \ {n} : ChargesOf(u, m)' = ChargesOf(u, m)
      BY <1>4, <2>2 DEF ChargesOf
    <2>7. \A m \in Models : Val(a.active, m) \in Nat /\ Val(a.used, m) \in Nat
      BY <2>1, CreditsFacts DEF Accounts
    <2>8. Books(u)
      BY <1>2, <1>4, <2>1
    <2> QED BY <1>4, <2>1, <2>2, <2>5, <2>6, <2>7, <2>8, ChargeFacts
  <1>5. CASE v = u /\ h \in Deliveries
    <2> DEFINE it == ItemsOf[h][item[h]]
    <2>1. a \in Accounts /\ a # Nil /\ userDoc'[u] = Credit(a, h, it) /\ it \in Items
      BY <1>5, ApplyFacts, ApplyIntact
    <2>2. /\ charged' = charged
          /\ granted' = [granted EXCEPT ![u][it.model] = @ + it.tokens]
          /\ purchases' = [purchases EXCEPT ![u] = Append(@, LogOf(h, it))]
      BY <1>5, KindsAssumption DEF Apply, Effect, User
    <2>3. it.model \in Models /\ it.tokens \in Nat
      BY <2>1 DEF Items
    <2>4. \A m \in Models : granted'[u][m] = granted[u][m] + (IF m = it.model THEN it.tokens ELSE 0)
      BY <1>5, <2>2, <2>3 DEF IInv, TypeOK
    <2>5. purchases'[u] = Append(purchases[u], LogOf(h, it))
      BY <1>5, <2>2 DEF IInv, TypeOK
    <2>6. \A m \in Models : ChargesOf(u, m)' = ChargesOf(u, m)
      BY <2>2 DEF ChargesOf
    <2>7. \A m \in Models : Val(a.active, m) \in Nat /\ Val(a.used, m) \in Nat
      BY <2>1, CreditsFacts DEF Accounts
    <2>8. Books(u)
      BY <1>2, <1>5, <2>1
    <2>9. /\ userDoc'[u].logs = purchases'[u] /\ userDoc'[u].used = a.used
          /\ Val(userDoc'[u].active, it.model) = Val(a.active, it.model) + it.tokens
          /\ \A m \in Models \ {it.model} : Val(userDoc'[u].active, m) = Val(a.active, m)
      BY <1>5, <2>1, <2>5, <2>8, CreditFacts
    <2>10. \A m \in Models : granted[u][m] \in Nat
      BY <1>5 DEF IInv, TypeOK
    <2>11. ASSUME NEW m \in Models
           PROVE  Val(userDoc'[u].active, m) + Val(userDoc'[u].used, m) = granted'[u][m]
      BY <2>3, <2>4, <2>7, <2>8, <2>9, <2>10
    <2> QED BY <1>5, <2>6, <2>8, <2>9, <2>11
  <1>6. CASE v = u /\ h \in SignIns
    <2>1. charged' = charged /\ purchases' = purchases
      BY <1>6, KindsAssumption DEF Apply, Effect
    <2>2. \A m \in Models : ChargesOf(u, m)' = ChargesOf(u, m)
      BY <2>1 DEF ChargesOf
    <2>3. CASE a # Nil
      <3>1. userDoc'[u] = a /\ granted' = granted
        BY <1>6, <2>3, ApplyFacts, ApplyIntact, KindsAssumption DEF Apply, Effect
      <3> QED BY <1>2, <1>6, <2>1, <2>2, <2>3, <3>1
    <2>4. CASE a = Nil
      <3>1. userDoc'[u] = NewAccount
        BY <1>6, <2>4, ApplyFacts, ApplyIntact
      <3>2. granted' = [granted EXCEPT ![u] = [m \in Models |-> @[m] + Val(FreeCredits, m)]]
        BY <1>6, <2>4, KindsAssumption DEF Apply, Effect
      <3>3. /\ granted[u] = [m \in Models |-> 0] /\ purchases[u] = <<>>
            /\ \A m \in Models : ChargesOf(u, m) = {}
        BY <1>6, <2>4 DEF IInv, ExistsInv
      <3>4. \A m \in Models : granted'[u][m] = Val(FreeCredits, m) /\ Val(FreeCredits, m) \in Nat
        BY <1>6, <3>2, <3>3, InputsAssumption, CreditsFacts DEF IInv, TypeOK
      <3>5. \A m \in Models : Val(None, m) = 0
        BY DEF Val, None
      <3>6. /\ userDoc'[u].active = FreeCredits /\ userDoc'[u].used = None
            /\ userDoc'[u].logs = purchases'[u]
        BY <1>6, <2>1, <3>1, <3>3 DEF NewAccount
      <3>7. \A m \in Models : Cardinality(ChargesOf(u, m)') = 0
        BY <2>2, <3>3, FS_EmptySet
      <3> QED BY <1>6, <3>4, <3>5, <3>6, <3>7
    <2> QED BY <2>3, <2>4
  <1> QED BY <1>3, <1>4, <1>5, <1>6 DEF Handlers
Has(logs, log) == \E j \in 1..Len(logs) : logs[j] = log

LEMMA PurchasesGrow ==
  ASSUME IInv, NEW h \in Handlers, Writing(h), Apply(h)
  PROVE  /\ \A v \in Users : \A log : Has(purchases[v], log) => Has(purchases'[v], log)
         /\ h \in Deliveries => Has(purchases'[User(h)], LogOf(h, ItemsOf[h][item[h]]))
  <1>1. CASE h \notin Deliveries
    BY <1>1, KindsAssumption DEF Apply, Effect, Has
  <1>2. CASE h \in Deliveries
    <2> DEFINE u == User(h)
               log == LogOf(h, ItemsOf[h][item[h]])
               old == purchases[u]
    <2>1. u \in Users /\ log \in Logs
      BY <1>2, ApplyFacts, CreditsFacts DEF LogOf, Logs, Items
    <2>2. purchases' = [purchases EXCEPT ![u] = Append(@, log)]
      BY <1>2, KindsAssumption DEF Apply, Effect
    <2>3. old \in Seq(Logs) /\ purchases'[u] = Append(old, log)
      BY <2>1, <2>2 DEF IInv, TypeOK
    <2>4. /\ Len(purchases'[u]) = Len(old) + 1 /\ Len(old) \in Nat
          /\ \A j \in 1..Len(old) : purchases'[u][j] = old[j]
          /\ purchases'[u][Len(old) + 1] = log
      BY <2>1, <2>3
    <2>5. Has(purchases'[u], log)
      BY <2>4 DEF Has
    <2>6. ASSUME NEW v \in Users, NEW l, Has(purchases[v], l) PROVE Has(purchases'[v], l)
      <3>1. CASE v = u
        <4>1. PICK j \in 1..Len(old) : old[j] = l
          BY <2>6, <3>1 DEF Has
        <4>2. j \in 1..Len(purchases'[u]) /\ purchases'[u][j] = l
          BY <2>4, <4>1
        <4> QED BY <3>1, <4>2 DEF Has
      <3>2. CASE v # u
        BY <2>2, <2>6, <3>2 DEF Has, IInv, TypeOK
      <3> QED BY <3>1, <3>2
    <2> QED BY <2>5, <2>6 DEF User
  <1> QED BY <1>1, <1>2

(* What the five actions that write have in common.                        *)
WriteStep(h) ==
  /\ Writing(h) /\ Apply(h) /\ ~Writing(h)'
  /\ draft' = draft /\ stray' = stray
  /\ \A g \in Handlers \ {h} : pc'[g] = pc[g] /\ (g \in late' <=> g \in late)
  /\ h \in Issues => pc'[h] \in {"marking", "failed"}
  /\ \A d \in Deliveries \ {h} : item'[d] = item[d]

LEMMA WriteStepInv ==
  ASSUME IInv, NEW h \in Handlers, WriteStep(h)
  PROVE  ExistsInv' /\ DraftInv' /\ StaleInv' /\ SerialInv' /\ IssuesSerialized'
  <1> USE DEF WriteStep
  <1>1. \A v \in Users : Raced(v) => Raced(v)'
    BY ApplyFacts DEF Raced, User
  <1>2. \A g \in Handlers : User(g) \in Users
    BY InputsAssumption DEF User
  <1>3. \A g \in Handlers \ {h} :
          /\ (Pending(g) \/ g \in late) /\ User(g) = User(h) => h \in missed'[g] /\ missed'[g] = missed[g] \cup {h}
          /\ User(g) # User(h) => missed'[g] = missed[g]
    BY DEF Apply
  <1>4. ExistsInv'
    <2>1. ASSUME NEW i \in Issues, (Pending(i) \/ i \in late)'
          PROVE  draft'[i] # Nil /\ userDoc'[User(i)] # Nil
      <3>1. Pending(i) \/ i \in late
        BY <2>1 DEF Handlers, Pending, Writing, Working
      <3>2. draft[i] # Nil /\ userDoc[User(i)] # Nil
        BY <3>1 DEF IInv, ExistsInv
      <3> QED BY <1>2, <3>2, ApplyFacts DEF Handlers
    <2>2. \A d \in Deliveries : Writing(d)' =>
             /\ draft'[d] # Nil /\ userDoc'[User(d)] # Nil
             /\ item'[d] \in 1..Len(ItemsOf[d]) /\ ItemsOf[d][item'[d]] # Nil
      BY <1>2, ApplyFacts DEF IInv, ExistsInv, Writing, Handlers
    <2>3. \A s \in SignIns : Writing(s)' => draft'[s] # Nil
      BY DEF IInv, ExistsInv, Writing, Handlers
    <2>4. ASSUME NEW v \in Users, userDoc'[v] = Nil
          PROVE  /\ granted'[v] = [m \in Models |-> 0] /\ purchases'[v] = <<>>
                 /\ \A m \in Models : ChargesOf(v, m)' = {}
      <3>1. v # User(h) /\ userDoc[v] = Nil
        BY <2>4, ApplyFacts
      <3>2. \A m \in Models : ChargesOf(v, m)' = ChargesOf(v, m)
        BY <3>1, ApplyGrants DEF ChargesOf, User
      <3>3. granted'[v] = granted[v] /\ purchases'[v] = purchases[v]
        BY <3>1, ApplyGrants
      <3>4. /\ granted[v] = [m \in Models |-> 0] /\ purchases[v] = <<>>
            /\ \A m \in Models : ChargesOf(v, m) = {}
        BY <3>1 DEF IInv, ExistsInv
      <3> QED BY <3>2, <3>3, <3>4
    <2> QED BY <2>1, <2>2, <2>3, <2>4 DEF ExistsInv, User
  <1>5. DraftInv'
    <2> SUFFICES ASSUME NEW g \in Handlers, Writing(g)', missed'[g] = {}, ~Raced(User(g))'
                 PROVE  LET a == userDoc'[User(g)] IN
                        /\ g \in Issues => HasCredit(a, ModelOf[g]) /\ draft'[g] = Charge(a, ModelOf[g])
                        /\ g \in Deliveries => draft'[g] = Credit(a, g, ItemsOf[g][item'[g]])
                        /\ g \in SignIns => draft'[g] = IF a = Nil THEN NewAccount ELSE a
      BY DEF DraftInv, User
    <2>1. g # h /\ Writing(g)
      BY DEF Writing
    <2>2. User(g) # User(h)
      BY <1>3, <2>1 DEF Writing, Pending, Working
    <2>3. missed[g] = {} /\ ~Raced(User(g)) /\ userDoc'[User(g)] = userDoc[User(g)]
      BY <1>1, <1>2, <1>3, <2>1, <2>2, ApplyFacts DEF User, Raced
    <2> QED BY <2>1, <2>3 DEF IInv, DraftInv
  <1>6. StaleInv'
    <2> SUFFICES ASSUME NEW i \in Issues, pc'[i] \in {"calling", "waiting", "fetching"}, ~Raced(User(i))'
                 PROVE  Grew(draft[i], userDoc'[User(i)])
      BY DEF StaleInv, User
    <2>1. i \in Handlers /\ i # h /\ pc[i] = pc'[i]
      BY DEF Handlers
    <2>2. ~Raced(User(i))
      BY <1>1, <1>2, <2>1 DEF User, Raced
    <2>3. Grew(draft[i], userDoc[User(i)])
      BY <2>1, <2>2 DEF IInv, StaleInv
    <2>4. draft[i] \in Accounts /\ userDoc[User(i)] # Nil
      BY <2>1 DEF IInv, ExistsInv, TypeOK, Pending, Working
    <2>5. CASE User(i) # User(h)
      BY <1>2, <2>1, <2>3, <2>5, ApplyFacts
    <2>6. CASE User(i) = User(h)
      <3> DEFINE a == userDoc[User(h)]
      <3>1. ~Raced(User(h))'
        BY <2>6 DEF User
      <3>2. a \in Accounts
        BY <1>2, <2>4, <2>6 DEF IInv, TypeOK
      <3>3. h \in Issues => ModelOf[h] \in Models
        BY InputsAssumption
      <3> QED BY <2>3, <2>4, <2>6, <3>1, <3>2, <3>3, ApplyFacts, ApplyIntact, GrewFacts DEF Handlers
    <2> QED BY <2>5, <2>6
  <1>7. h \in Issues /\ h \notin late => pc[h] = "saving"
    BY DEF Writing
  <1>8. late \subseteq stray
    BY DEF IInv, TypeOK
  <1>9. SerialInv'
    <2> SUFFICES ASSUME NEW i \in Issues, pc'[i] = "saving", NEW g \in missed'[i], g \in Issues
                 PROVE  g \in stray
      BY DEF SerialInv
    <2>1. i \in Handlers /\ i # h /\ pc[i] = "saving"
      BY DEF Handlers
    <2>2. CASE g \in missed[i]
      BY <2>1, <2>2 DEF IInv, SerialInv
    <2>3. CASE g \notin missed[i]
      <3>1. g = h /\ User(i) = User(h)
        BY <1>3, <2>1, <2>3 DEF Pending, Working
      <3>2. h \in late
        BY <1>7, <2>1, <3>1 DEF IInv, LockInv, Critical
      <3> QED BY <1>8, <3>1, <3>2
    <2> QED BY <2>2, <2>3
  <1>10. IssuesSerialized'
    <2> SUFFICES ASSUME NEW p \in overwrote', p[1] \in Issues, p[2] \in Issues
                 PROVE  p[1] \in stray \/ p[2] \in stray
      BY DEF IssuesSerialized
    <2>1. CASE p \in overwrote
      BY <2>1 DEF IInv, IssuesSerialized
    <2>2. CASE p \notin overwrote
      <3>1. PICK g \in missed[h] : p = <<h, g>>
        BY <2>2 DEF Apply
      <3> QED BY <1>7, <1>8, <3>1 DEF IInv, SerialInv
    <2> QED BY <2>1, <2>2
  <1> QED BY <1>4, <1>5, <1>6, <1>9, <1>10
(* Acknowledgements are not disturbed by a step that moves no delivery on. *)
LEMMA AckStable ==
  ASSUME IInv, item' = item,
         \A v \in Users : \A log : Has(purchases[v], log) => Has(purchases'[v], log),
         \A d \in Deliveries : pc'[d] = "done" => pc[d] = "done" \/ item[d] > Len(ItemsOf[d])
  PROVE  AckInv'
  <1> SUFFICES ASSUME NEW d \in Deliveries
               PROVE  /\ pc'[d] = "done" => item[d] > Len(ItemsOf[d])
                      /\ \A k \in 1..Len(ItemsOf[d]) : k < item[d] =>
                            /\ ItemsOf[d][k] # Nil
                            /\ Has(purchases'[User(d)], LogOf(d, ItemsOf[d][k]))
    BY DEF AckInv, Has, User, LogOf
  <1>1. User(d) \in Users
    BY InputsAssumption DEF User, Handlers
  <1>2. /\ pc[d] = "done" => item[d] > Len(ItemsOf[d])
        /\ \A k \in 1..Len(ItemsOf[d]) : k < item[d] =>
             ItemsOf[d][k] # Nil /\ Has(purchases[User(d)], LogOf(d, ItemsOf[d][k]))
    BY DEF IInv, AckInv, Has
  <1> QED BY <1>1, <1>2

-------------------------------------------------------------------------------
(* The actions that write.                                                 *)

LEMMA SaveChargeStep ==
  ASSUME IInv, NEW i \in Issues, SaveCharge(i) PROVE IInv'
  <1>1. /\ i \in Handlers /\ pc[i] = "saving" /\ pc' = [pc EXCEPT ![i] = "marking"] /\ Apply(i)
        /\ UNCHANGED <<draft, item, late, stray, killed, lock, inMemCache, answer, marked>>
        /\ charged' = charged \cup {i}
    BY KindsAssumption DEF SaveCharge, Goto, server, Handlers, Apply, Effect
  <1>2. i \notin late /\ Writing(i)
    BY <1>1 DEF IInv, LateInv, Writing
  <1>3. pc'[i] = "marking" /\ \A g \in Handlers \ {i} : pc'[g] = pc[g]
    BY <1>1 DEF IInv, TypeOK
  <1>4. ~Writing(i)'
    BY <1>1, <1>2, <1>3 DEF Writing
  <1>5. WriteStep(i)
    BY <1>1, <1>2, <1>3, <1>4 DEF WriteStep
  <1>6. TypeOK'
    BY <1>1, <1>2, ApplyFacts, ApplyGrants DEF IInv, TypeOK, Working, Ended
  <1>7. LateInv' /\ KindInv' /\ LockInv'
    BY <1>1, <1>2, <1>3, KindsAssumption DEF IInv, LateInv, KindInv, LockInv, Critical, User, Handlers
  <1>8. ChargeInv' /\ SignaturesArePaid'
    BY <1>1, <1>2, <1>3 DEF IInv, ChargeInv, SignaturesArePaid, Handlers
  <1>9. AckInv'
    BY <1>1, <1>2, <1>3, PurchasesGrow, AckStable, KindsAssumption DEF Handlers
  <1> QED BY <1>1, <1>2, <1>5, <1>6, <1>7, <1>8, <1>9, WriteStepInv, ApplyConserves DEF IInv

LEMMA DeliverSaveStep ==
  ASSUME IInv, NEW d \in Deliveries, DeliverSave(d) PROVE IInv'
  <1>1. /\ d \in Handlers /\ d \notin Issues /\ pc[d] = "saving" /\ Apply(d)
        /\ pc' = [pc EXCEPT ![d] = IF LastItem(d) THEN "done" ELSE "fetching"]
        /\ item' = [item EXCEPT ![d] = @ + 1]
        /\ UNCHANGED <<draft, late, stray, killed, lock, inMemCache, answer, marked>>
        /\ charged' = charged
    BY KindsAssumption DEF DeliverSave, Goto, server, Handlers, Apply, Effect
  <1>2. d \notin late /\ Writing(d)
    BY <1>1 DEF IInv, LateInv, Writing
  <1>3. pc'[d] = (IF LastItem(d) THEN "done" ELSE "fetching") /\ \A g \in Handlers \ {d} : pc'[g] = pc[g]
    BY <1>1 DEF IInv, TypeOK
  <1>4. item'[d] = item[d] + 1 /\ \A e \in Deliveries \ {d} : item'[e] = item[e]
    BY <1>1 DEF IInv, TypeOK
  <1>5. ~Writing(d)'
    BY <1>1, <1>2, <1>3 DEF Writing
  <1>6. WriteStep(d)
    BY <1>1, <1>2, <1>4, <1>5, <1>3 DEF WriteStep
  <1>7. TypeOK'
    BY <1>1, <1>2, <1>4, ApplyFacts, ApplyGrants DEF IInv, TypeOK, Working, Ended
  <1>8. LateInv' /\ KindInv' /\ LockInv'
    BY <1>1, <1>2, <1>3, KindsAssumption DEF IInv, LateInv, KindInv, LockInv, Critical, User, Handlers, Ended
  <1>9. ChargeInv' /\ SignaturesArePaid'
    BY <1>1, <1>2, <1>3 DEF IInv, ChargeInv, SignaturesArePaid, Handlers
  <1>10. AckInv'
    <2> SUFFICES ASSUME NEW e \in Deliveries
                 PROVE  /\ pc'[e] = "done" => item'[e] > Len(ItemsOf[e])
                        /\ \A k \in 1..Len(ItemsOf[e]) : k < item'[e] =>
                              /\ ItemsOf[e][k] # Nil
                              /\ Has(purchases'[User(e)], LogOf(e, ItemsOf[e][k]))
      BY DEF AckInv, Has, User, LogOf
    <2>1. User(e) \in Users /\ e \in Handlers
      BY InputsAssumption DEF User, Handlers
    <2>2. /\ pc[e] = "done" => item[e] > Len(ItemsOf[e])
          /\ \A k \in 1..Len(ItemsOf[e]) : k < item[e] =>
               ItemsOf[e][k] # Nil /\ Has(purchases'[User(e)], LogOf(e, ItemsOf[e][k]))
      <3>1. \A log : Has(purchases[User(e)], log) => Has(purchases'[User(e)], log)
        BY <1>1, <1>2, <2>1, PurchasesGrow
      <3>2. /\ pc[e] = "done" => item[e] > Len(ItemsOf[e])
            /\ \A k \in 1..Len(ItemsOf[e]) : k < item[e] =>
                 ItemsOf[e][k] # Nil /\ Has(purchases[User(e)], LogOf(e, ItemsOf[e][k]))
        BY DEF IInv, AckInv, Has
      <3> QED BY <3>1, <3>2
    <2>3. CASE e # d
      BY <1>3, <1>4, <2>1, <2>2, <2>3
    <2>4. CASE e = d
      <3>1. /\ ItemsOf[d][item[d]] # Nil
            /\ Has(purchases'[User(d)], LogOf(d, ItemsOf[d][item[d]]))
        BY <1>1, <1>2, PurchasesGrow DEF IInv, ExistsInv
      <3>2. item[d] \in Nat /\ item'[d] = item[d] + 1
        BY <1>4 DEF IInv, TypeOK
      <3>3. \A k \in 1..Len(ItemsOf[d]) : k < item'[d] => k < item[d] \/ k = item[d]
        BY <3>2
      <3>4. Len(ItemsOf[d]) \in Nat
        BY InputsAssumption
      <3>5. pc'[d] = "done" => item'[d] > Len(ItemsOf[d])
        BY <1>3, <3>2, <3>4 DEF LastItem
      <3> QED BY <2>2, <2>4, <3>1, <3>3, <3>5
    <2> QED BY <2>3, <2>4
  <1> QED BY <1>1, <1>2, <1>6, <1>7, <1>8, <1>9, <1>10, WriteStepInv, ApplyConserves DEF IInv

LEMMA SignInSaveStep ==
  ASSUME IInv, NEW s \in SignIns, SignInSave(s) PROVE IInv'
  <1>1. /\ s \in Handlers /\ s \notin Issues /\ s \notin Deliveries /\ pc[s] = "saving" /\ Apply(s)
        /\ pc' = [pc EXCEPT ![s] = "done"]
        /\ UNCHANGED <<draft, item, late, stray, killed, lock, inMemCache, answer, marked>>
        /\ charged' = charged
    BY KindsAssumption DEF SignInSave, Goto, server, Handlers, Apply, Effect
  <1>2. s \notin late /\ Writing(s)
    BY <1>1 DEF IInv, LateInv, Writing
  <1>3. pc'[s] = "done" /\ \A g \in Handlers \ {s} : pc'[g] = pc[g]
    BY <1>1 DEF IInv, TypeOK
  <1>4. ~Writing(s)'
    BY <1>1, <1>2, <1>3 DEF Writing
  <1>5. WriteStep(s)
    BY <1>1, <1>2, <1>3, <1>4 DEF WriteStep
  <1>6. TypeOK'
    BY <1>1, <1>2, ApplyFacts, ApplyGrants DEF IInv, TypeOK, Working, Ended
  <1>7. LateInv' /\ KindInv' /\ LockInv'
    BY <1>1, <1>2, <1>3, KindsAssumption DEF IInv, LateInv, KindInv, LockInv, Critical, User, Handlers, Ended
  <1>8. ChargeInv' /\ SignaturesArePaid'
    BY <1>1, <1>2, <1>3 DEF IInv, ChargeInv, SignaturesArePaid, Handlers
  <1>9. AckInv'
    BY <1>1, <1>2, <1>3, PurchasesGrow, AckStable, KindsAssumption DEF Handlers
  <1> QED BY <1>1, <1>2, <1>5, <1>6, <1>7, <1>8, <1>9, WriteStepInv, ApplyConserves DEF IInv
LEMMA SaveUnreportedStep ==
  ASSUME IInv, NEW h \in Handlers, SaveUnreported(h) PROVE IInv'
  <1>1. /\ pc[h] = "saving" /\ Apply(h) /\ pc' = [pc EXCEPT ![h] = "failed"]
        /\ killed' = killed \cup {h} /\ lock' = ReleasedBy({h})
        /\ UNCHANGED <<draft, item, inMemCache, answer, marked, late, stray>>
    BY DEF SaveUnreported, Return, Goto
  <1>2. h \notin late /\ Writing(h)
    BY <1>1 DEF IInv, LateInv, Writing
  <1>3. pc'[h] = "failed" /\ \A g \in Handlers \ {h} : pc'[g] = pc[g]
    BY <1>1 DEF IInv, TypeOK
  <1>4. ~Writing(h)'
    BY <1>1, <1>2, <1>3 DEF Writing
  <1>5. WriteStep(h)
    BY <1>1, <1>2, <1>3, <1>4 DEF WriteStep
  <1>6. TypeOK'
    BY <1>1, <1>2, ApplyFacts, ApplyGrants DEF IInv, TypeOK, Working, Ended, ReleasedBy
  <1>7. LateInv' /\ KindInv'
    BY <1>1, <1>2, <1>3, KindsAssumption DEF IInv, LateInv, KindInv, Handlers, Ended
  <1>8. LockInv'
    BY <1>1, <1>3, InputsAssumption DEF IInv, LockInv, Critical, User, Handlers, ReleasedBy
  <1>9. ChargeInv' /\ SignaturesArePaid'
    BY <1>1, <1>2, <1>3, ApplyGrants DEF IInv, ChargeInv, SignaturesArePaid, Handlers
  <1>10. AckInv'
    BY <1>1, <1>2, <1>3, PurchasesGrow, AckStable DEF Handlers
  <1> QED BY <1>1, <1>2, <1>5, <1>6, <1>7, <1>8, <1>9, <1>10, WriteStepInv, ApplyConserves DEF IInv

LEMMA LandLateStep ==
  ASSUME IInv, NEW h \in Handlers, LandLate(h) PROVE IInv'
  <1>1. /\ h \in late /\ pc[h] = "failed" /\ Apply(h) /\ late' = late \ {h}
        /\ UNCHANGED <<pc, draft, item, stray, killed, lock, inMemCache, answer, marked>>
    BY DEF LandLate, server, IInv, LateInv
  <1>2. Writing(h) /\ ~Writing(h)'
    BY <1>1 DEF Writing
  <1>3. WriteStep(h)
    BY <1>1, <1>2 DEF WriteStep
  <1>4. TypeOK'
    BY <1>1, <1>2, ApplyFacts, ApplyGrants DEF IInv, TypeOK
  <1>5. LateInv' /\ KindInv' /\ LockInv'
    BY <1>1 DEF IInv, LateInv, KindInv, LockInv, Critical, User
  <1>6. h \in killed
    BY <1>1 DEF IInv, TypeOK
  <1>7. ChargeInv' /\ SignaturesArePaid'
    BY <1>1, <1>2, <1>6, ApplyGrants DEF IInv, ChargeInv, SignaturesArePaid
  <1>8. AckInv'
    BY <1>1, <1>2, PurchasesGrow, AckStable
  <1> QED BY <1>1, <1>2, <1>3, <1>4, <1>5, <1>7, <1>8, WriteStepInv, ApplyConserves DEF IInv
-------------------------------------------------------------------------------
(* The actions that write nothing.                                         *)

(* What a step keeps that moves handlers on without reading or writing.    *)
LEMMA LocalStep ==
  ASSUME IInv, UNCHANGED docs, draft' = draft, item' = item, stray \subseteq stray',
         \A h \in Handlers : (Pending(h)' => Pending(h)) /\ (Writing(h)' => Writing(h)),
         \A h \in Handlers : pc'[h] = "saving" => pc[h] = "saving",
         \A i \in Issues : pc'[i] \in {"calling", "waiting", "fetching"} =>
                             pc[i] \in {"calling", "waiting", "fetching"}
  PROVE  ExistsInv' /\ SerialInv' /\ IssuesSerialized' /\ DraftInv' /\ StaleInv' /\ ConservedUnlessRaced'
  <1>1. /\ userDoc' = userDoc /\ charged' = charged /\ granted' = granted
        /\ purchases' = purchases /\ missed' = missed /\ overwrote' = overwrote
    BY DEF docs
  <1>2. Issues \subseteq Handlers /\ Deliveries \subseteq Handlers /\ SignIns \subseteq Handlers
    BY DEF Handlers
  <1>3. \A u \in Users : Raced(u)' <=> Raced(u)
    BY <1>1 DEF Raced, User
  <1>4. \A h \in Handlers : User(h) \in Users /\ User(h)' = User(h)
    BY InputsAssumption DEF User
  <1>5. \A i \in Issues : (Pending(i) \/ i \in late)' => Pending(i) \/ i \in late
    BY <1>2 DEF Writing, Pending, Working
  <1>6. ExistsInv'
    <2>1. \A i \in Issues : (Pending(i) \/ i \in late)' => draft'[i] # Nil /\ userDoc'[User(i)] # Nil
      BY <1>1, <1>5 DEF IInv, ExistsInv
    <2>2. \A d \in Deliveries : Writing(d)' =>
             /\ draft'[d] # Nil /\ userDoc'[User(d)] # Nil
             /\ item'[d] \in 1..Len(ItemsOf[d]) /\ ItemsOf[d][item'[d]] # Nil
      BY <1>1, <1>2 DEF IInv, ExistsInv
    <2>3. \A s \in SignIns : Writing(s)' => draft'[s] # Nil
      BY <1>1, <1>2 DEF IInv, ExistsInv
    <2>4. \A u \in Users : userDoc'[u] = Nil =>
             /\ granted'[u] = [m \in Models |-> 0] /\ purchases'[u] = <<>>
             /\ \A m \in Models : ChargesOf(u, m)' = {}
      BY <1>1 DEF IInv, ExistsInv, ChargesOf, User
    <2> QED BY <2>1, <2>2, <2>3, <2>4 DEF ExistsInv, User
  <1>7. SerialInv'
    BY <1>1, <1>2 DEF IInv, SerialInv
  <1>8. IssuesSerialized'
    BY <1>1 DEF IInv, IssuesSerialized
  <1>9. DraftInv'
    BY <1>1, <1>3, <1>4 DEF IInv, DraftInv
  <1>10. StaleInv'
    BY <1>1, <1>2, <1>3, <1>4 DEF IInv, StaleInv
  <1>11. ConservedUnlessRaced'
    BY <1>1, <1>3 DEF IInv, ConservedUnlessRaced, ChargesOf, User
  <1> QED BY <1>6, <1>7, <1>8, <1>9, <1>10, <1>11

LEMMA CheckCacheStep ==
  ASSUME IInv, NEW i \in Issues, CheckCache(i) PROVE IInv'
  <1> DEFINE g == inMemCache[IDOf[i]]
  <1>1. /\ pc[i] = "calling" /\ UNCHANGED docs
        /\ UNCHANGED <<draft, item, lock, inMemCache, marked, late, stray, killed>>
        /\ \/ g # Nil /\ answer' = [answer EXCEPT ![i] = g] /\ pc' = [pc EXCEPT ![i] = "done"]
           \/ answer' = answer /\ pc' = [pc EXCEPT ![i] = "waiting"]
    BY DEF CheckCache, Goto
  <1>2. i \in Handlers /\ IDOf[i] \in IDs /\ i \notin Deliveries /\ i \notin SignIns
    BY KindsAssumption DEF Handlers, IDs
  <1>3. pc'[i] \in {"done", "waiting"} /\ \A h \in Handlers \ {i} : pc'[h] = pc[h]
    BY <1>1, <1>2 DEF IInv, TypeOK
  <1>4. /\ charged' = charged /\ userDoc' = userDoc /\ granted' = granted
        /\ purchases' = purchases /\ missed' = missed /\ overwrote' = overwrote
    BY <1>1 DEF docs
  <1>5. TypeOK'
    BY <1>1, <1>2, <1>4 DEF IInv, TypeOK, Working, Ended
  <1>6. LateInv'
    BY <1>1, <1>3 DEF IInv, LateInv, TypeOK
  <1>7. KindInv' /\ LockInv'
    BY <1>1, <1>2, <1>3 DEF IInv, KindInv, LockInv, Critical, User, Handlers
  <1>8. ChargeInv'
    BY <1>1, <1>2, <1>3, <1>4 DEF IInv, ChargeInv, Handlers
  <1>9. SignaturesArePaid'
    <2>1. g # Nil => g \in charged \cap marked
      BY <1>2 DEF IInv, ChargeInv
    <2> QED BY <1>1, <1>2, <1>3, <1>4, <2>1 DEF IInv, SignaturesArePaid, TypeOK, Handlers
  <1>10. AckInv'
    BY <1>1, <1>2, <1>3, <1>4, AckStable DEF Has, Handlers
  <1>11. /\ \A h \in Handlers : (Pending(h)' => Pending(h)) /\ (Writing(h)' => Writing(h))
         /\ \A h \in Handlers : pc'[h] = "saving" => pc[h] = "saving"
         /\ \A h \in Issues : pc'[h] \in {"calling", "waiting", "fetching"} =>
                             pc[h] \in {"calling", "waiting", "fetching"}
    BY <1>1, <1>2, <1>3 DEF Pending, Writing, Working, Handlers
  <1> QED BY <1>1, <1>5, <1>6, <1>7, <1>8, <1>9, <1>10, <1>11, LocalStep DEF IInv

LEMMA AcquireStep ==
  ASSUME IInv, NEW i \in Issues, Acquire(i) PROVE IInv'
  <1>1. /\ pc[i] = "waiting" /\ lock[User(i)] = Nil /\ UNCHANGED docs
        /\ lock' = [lock EXCEPT ![User(i)] = i] /\ pc' = [pc EXCEPT ![i] = "fetching"]
        /\ UNCHANGED <<draft, item, inMemCache, answer, marked, late, stray, killed>>
    BY DEF Acquire, Goto, Free
  <1>2. i \in Handlers /\ i # Nil /\ i \notin Deliveries /\ i \notin SignIns
    BY KindsAssumption, NilAssumption DEF Handlers
  <1>3. pc'[i] = "fetching" /\ \A h \in Handlers \ {i} : pc'[h] = pc[h]
    BY <1>1, <1>2 DEF IInv, TypeOK
  <1>4. /\ charged' = charged /\ userDoc' = userDoc /\ granted' = granted
        /\ purchases' = purchases /\ missed' = missed /\ overwrote' = overwrote
    BY <1>1 DEF docs
  <1>5. \A h \in Handlers : User(h) \in Users /\ User(h)' = User(h)
    BY InputsAssumption DEF User
  <1>6. TypeOK'
    BY <1>1, <1>2, <1>4, <1>5 DEF IInv, TypeOK, Working, Ended
  <1>7. LateInv' /\ KindInv'
    BY <1>1, <1>2, <1>3 DEF IInv, LateInv, KindInv, TypeOK, Handlers
  <1>8. LockInv'
    <2> SUFFICES ASSUME NEW j \in Issues, Critical(j)' PROVE lock'[User(j)] = j
      BY DEF LockInv, User
    <2>1. CASE j = i
      BY <1>1, <1>2, <1>5, <2>1 DEF IInv, TypeOK
    <2>2. CASE j # i
      <3>1. Critical(j)
        BY <1>3, <2>2 DEF Critical, Handlers
      <3>2. lock[User(j)] = j /\ j # Nil
        BY <3>1, NilAssumption DEF IInv, LockInv, Handlers
      <3> QED BY <1>1, <1>5, <3>2 DEF IInv, TypeOK, Handlers
    <2> QED BY <2>1, <2>2
  <1>9. ChargeInv' /\ SignaturesArePaid'
    BY <1>1, <1>2, <1>3, <1>4 DEF IInv, ChargeInv, SignaturesArePaid, Handlers
  <1>10. AckInv'
    BY <1>1, <1>2, <1>3, <1>4, AckStable DEF Has, Handlers
  <1>11. /\ \A h \in Handlers : (Pending(h)' => Pending(h)) /\ (Writing(h)' => Writing(h))
         /\ \A h \in Handlers : pc'[h] = "saving" => pc[h] = "saving"
         /\ \A h \in Issues : pc'[h] \in {"calling", "waiting", "fetching"} =>
                             pc[h] \in {"calling", "waiting", "fetching"}
    BY <1>1, <1>2, <1>3 DEF Pending, Writing, Working, Handlers
  <1> QED BY <1>1, <1>6, <1>7, <1>8, <1>9, <1>10, <1>11, LocalStep DEF IInv

LEMMA MarkStep ==
  ASSUME IInv, NEW i \in Issues, Mark(i) PROVE IInv'
  <1>1. /\ pc[i] = "marking" /\ UNCHANGED docs /\ marked' = marked \cup {i}
        /\ inMemCache' = [inMemCache EXCEPT ![IDOf[i]] = IF @ = Nil THEN i ELSE @]
        /\ answer' = [answer EXCEPT ![i] = i] /\ pc' = [pc EXCEPT ![i] = "done"]
        /\ lock' = ReleasedBy({i}) /\ UNCHANGED <<draft, item, late, stray, killed>>
    BY DEF Mark, Return, Goto
  <1>2. i \in Handlers /\ IDOf[i] \in IDs /\ i \notin Deliveries /\ i \notin SignIns
    BY KindsAssumption DEF Handlers, IDs
  <1>3. pc'[i] = "done" /\ \A h \in Handlers \ {i} : pc'[h] = pc[h]
    BY <1>1, <1>2 DEF IInv, TypeOK
  <1>4. /\ charged' = charged /\ userDoc' = userDoc /\ granted' = granted
        /\ purchases' = purchases /\ missed' = missed /\ overwrote' = overwrote
    BY <1>1 DEF docs
  <1>5. TypeOK'
    BY <1>1, <1>2, <1>4 DEF IInv, TypeOK, Working, Ended, ReleasedBy
  <1>6. LateInv' /\ KindInv'
    BY <1>1, <1>2, <1>3 DEF IInv, LateInv, KindInv, TypeOK, Handlers
  <1>7. LockInv'
    BY <1>1, <1>3, InputsAssumption DEF IInv, LockInv, Critical, User, Handlers, ReleasedBy
  <1>8. i \in charged
    BY <1>1 DEF IInv, ChargeInv
  <1>9. ChargeInv'
    <2>1. \A id \in IDs : inMemCache'[id] = inMemCache[id] \/ inMemCache'[id] = i
      BY <1>1 DEF IInv, TypeOK
    <2>2. \A id \in IDs : inMemCache'[id] # Nil => inMemCache'[id] \in charged' \cap marked'
      BY <1>1, <1>4, <1>8, <2>1 DEF IInv, ChargeInv
    <2> QED BY <1>1, <1>3, <1>4, <2>2 DEF IInv, ChargeInv, Handlers
  <1>10. SignaturesArePaid'
    BY <1>1, <1>2, <1>3, <1>4, <1>8 DEF IInv, SignaturesArePaid, TypeOK, Handlers
  <1>11. AckInv'
    BY <1>1, <1>2, <1>3, <1>4, AckStable DEF Has, Handlers
  <1>12. /\ \A h \in Handlers : (Pending(h)' => Pending(h)) /\ (Writing(h)' => Writing(h))
         /\ \A h \in Handlers : pc'[h] = "saving" => pc[h] = "saving"
         /\ \A h \in Issues : pc'[h] \in {"calling", "waiting", "fetching"} =>
                             pc[h] \in {"calling", "waiting", "fetching"}
    BY <1>1, <1>2, <1>3 DEF Pending, Writing, Working, Handlers
  <1> QED BY <1>1, <1>5, <1>6, <1>7, <1>9, <1>10, <1>11, <1>12, LocalStep DEF IInv

LEMMA AbortStep ==
  ASSUME IInv, NEW h \in Handlers, Abort(h) PROVE IInv'
  <1>1. /\ Pending(h) /\ killed' = killed \cup {h} /\ pc' = [pc EXCEPT ![h] = "failed"]
        /\ lock' = ReleasedBy({h}) /\ UNCHANGED docs
        /\ UNCHANGED <<draft, item, inMemCache, answer, marked>>
        /\ \/ late' = late /\ stray' = stray
           \/ pc[h] = "saving" /\ late' = late \cup {h} /\ stray' = stray \cup {h}
    BY DEF Abort, Return, Goto
  <1>2. pc'[h] = "failed" /\ \A g \in Handlers \ {h} : pc'[g] = pc[g]
    BY <1>1 DEF IInv, TypeOK
  <1>3. /\ charged' = charged /\ userDoc' = userDoc /\ granted' = granted
        /\ purchases' = purchases /\ missed' = missed /\ overwrote' = overwrote
    BY <1>1 DEF docs
  <1>4. TypeOK'
    BY <1>1, <1>3 DEF IInv, TypeOK, Working, Ended, ReleasedBy
  <1>5. LateInv'
    BY <1>1, <1>2 DEF IInv, LateInv, ExistsInv, TypeOK, Handlers, Writing, Pending, Working
  <1>6. KindInv'
    BY <1>1, <1>2 DEF IInv, KindInv, Ended, Handlers
  <1>7. LockInv'
    BY <1>1, <1>2, InputsAssumption DEF IInv, LockInv, Critical, User, Handlers, ReleasedBy
  <1>8. ChargeInv' /\ SignaturesArePaid'
    BY <1>1, <1>2, <1>3 DEF IInv, ChargeInv, SignaturesArePaid, Handlers
  <1>9. AckInv'
    BY <1>1, <1>2, <1>3, AckStable DEF Has, Handlers
  <1>10. /\ \A g \in Handlers : (Pending(g)' => Pending(g)) /\ (Writing(g)' => Writing(g))
         /\ \A g \in Handlers : pc'[g] = "saving" => pc[g] = "saving"
         /\ \A g \in Issues : pc'[g] \in {"calling", "waiting", "fetching"} =>
                             pc[g] \in {"calling", "waiting", "fetching"}
         /\ stray \subseteq stray'
    BY <1>1, <1>2 DEF Pending, Writing, Working, Handlers
  <1> QED BY <1>1, <1>4, <1>5, <1>6, <1>7, <1>8, <1>9, <1>10, LocalStep DEF IInv

LEMMA EvictStep ==
  ASSUME IInv, NEW id \in IDs, Evict(id) PROVE IInv'
  <1>1. /\ inMemCache' = [inMemCache EXCEPT ![id] = Nil] /\ UNCHANGED docs
        /\ UNCHANGED <<pc, draft, item, lock, answer, marked, late, stray, killed>>
    BY DEF Evict
  <1>2. /\ charged' = charged /\ userDoc' = userDoc /\ granted' = granted
        /\ purchases' = purchases /\ missed' = missed /\ overwrote' = overwrote
    BY <1>1 DEF docs
  <1>3. TypeOK'
    BY <1>1, <1>2 DEF IInv, TypeOK
  <1>4. LateInv' /\ KindInv' /\ LockInv'
    BY <1>1 DEF IInv, LateInv, KindInv, LockInv, Critical, User
  <1>5. ChargeInv'
    <2>1. \A k \in IDs : inMemCache'[k] # Nil => inMemCache'[k] = inMemCache[k]
      BY <1>1 DEF IInv, TypeOK
    <2> QED BY <1>1, <1>2, <2>1 DEF IInv, ChargeInv
  <1>6. SignaturesArePaid'
    BY <1>1, <1>2 DEF IInv, SignaturesArePaid
  <1>7. AckInv'
    BY <1>1, <1>2, AckStable DEF Has
  <1>8. \A h \in Handlers : (Pending(h)' => Pending(h)) /\ (Writing(h)' => Writing(h))
    BY <1>1 DEF Pending, Writing
  <1> QED BY <1>1, <1>3, <1>4, <1>5, <1>6, <1>7, <1>8, LocalStep DEF IInv

LEMMA RestartStep ==
  ASSUME IInv, Restart PROVE IInv'
  <1> DEFINE lost == {h \in Handlers : Pending(h)}
  <1>1. PICK L \in SUBSET {h \in lost : pc[h] = "saving"} :
          late' = late \cup L /\ stray' = stray \cup L
    BY DEF Restart
  <1>2. /\ killed' = killed \cup lost
        /\ pc' = [h \in Handlers |-> IF h \in lost THEN "failed" ELSE pc[h]]
        /\ lock' = [u \in Users |-> Nil] /\ inMemCache' = [id \in IDs |-> Nil]
        /\ UNCHANGED <<draft, item, answer, marked>> /\ UNCHANGED docs
    BY DEF Restart
  <1>3. \A h \in Handlers : \/ pc'[h] = pc[h] /\ ~Pending(h)
                            \/ pc'[h] = "failed" /\ Pending(h) /\ h \in killed'
    BY <1>2 
  <1>4. /\ charged' = charged /\ userDoc' = userDoc /\ granted' = granted
        /\ purchases' = purchases /\ missed' = missed /\ overwrote' = overwrote
    BY <1>2 DEF docs
  <1>5. \A h \in Handlers : ~Pending(h)' /\ pc'[h] # "saving"
    BY <1>3 DEF Pending, Working
  <1>6. TypeOK'
    BY <1>1, <1>2, <1>4 DEF IInv, TypeOK, Working, Ended
  <1>7. LateInv'
    BY <1>1, <1>2, <1>3 DEF IInv, LateInv, ExistsInv, TypeOK, Handlers, Writing, Pending, Working
  <1>8. KindInv' /\ LockInv'
    BY <1>3, <1>5 DEF IInv, KindInv, LockInv, Critical, Handlers, Ended, Pending, Working
  <1>9. ChargeInv' /\ SignaturesArePaid'
    BY <1>1, <1>2, <1>3, <1>4 DEF IInv, ChargeInv, SignaturesArePaid, Handlers, Pending, Working
  <1>10. AckInv'
    BY <1>2, <1>3, <1>4, AckStable DEF Has, Handlers
  <1>11. /\ \A h \in Handlers : (Pending(h)' => Pending(h)) /\ (Writing(h)' => Writing(h))
         /\ \A h \in Issues : pc'[h] \in {"calling", "waiting", "fetching"} =>
                             pc[h] \in {"calling", "waiting", "fetching"}
    BY <1>1, <1>5 DEF Pending, Writing, Working, Handlers
  <1> QED BY <1>1, <1>2, <1>5, <1>6, <1>7, <1>8, <1>9, <1>10, <1>11, LocalStep DEF IInv

(* A handler reads the account: it will hold a and has missed nothing.     *)
ReadStep(h, a, l) ==
  /\ draft' = [draft EXCEPT ![h] = a] /\ missed' = [missed EXCEPT ![h] = {}]
  /\ pc' = [pc EXCEPT ![h] = l]
  /\ UNCHANGED <<item, userDoc, charged, granted, purchases, overwrote, late, stray, killed>>
  /\ UNCHANGED server
  /\ pc[h] \in {"idle", "fetching"} /\ a \in Accounts
  /\ \/ l = "saving"
     \/ l = "calling" /\ h \in Issues /\ a = userDoc[User(h)]
  /\ h \in Issues => userDoc[User(h)] # Nil
  /\ h \in Deliveries => /\ userDoc[User(h)] # Nil
                         /\ item[h] \in 1..Len(ItemsOf[h]) /\ ItemsOf[h][item[h]] # Nil

LEMMA ReadStepInv ==
  ASSUME IInv, NEW h \in Handlers, NEW a, NEW l, ReadStep(h, a, l),
         (l = "saving" /\ ~Raced(User(h))) =>
            LET b == userDoc[User(h)] IN
            /\ h \in Issues => HasCredit(b, ModelOf[h]) /\ a = Charge(b, ModelOf[h])
            /\ h \in Deliveries => a = Credit(b, h, ItemsOf[h][item[h]])
            /\ h \in SignIns => a = IF b = Nil THEN NewAccount ELSE b,
         h \in Issues /\ l = "saving" => pc[h] = "fetching"
  PROVE  IInv'
  <1>1. /\ draft' = [draft EXCEPT ![h] = a] /\ missed' = [missed EXCEPT ![h] = {}]
        /\ pc' = [pc EXCEPT ![h] = l]
        /\ UNCHANGED <<item, userDoc, charged, granted, purchases, overwrote, late, stray, killed>>
        /\ UNCHANGED <<lock, inMemCache, answer, marked>>
        /\ pc[h] \in {"idle", "fetching"} /\ a \in Accounts /\ a # Nil /\ l \in {"saving", "calling"}
        /\ l = "calling" => h \in Issues /\ a = userDoc[User(h)]
    BY NilAssumption DEF ReadStep, server
  <1>2. h \notin late
    BY <1>1 DEF IInv, LateInv
  <1>3. /\ pc'[h] = l /\ draft'[h] = a /\ missed'[h] = {}
        /\ \A g \in Handlers \ {h} : pc'[g] = pc[g] /\ draft'[g] = draft[g] /\ missed'[g] = missed[g]
    BY <1>1 DEF IInv, TypeOK
  <1>4. Issues \subseteq Handlers /\ Deliveries \subseteq Handlers /\ SignIns \subseteq Handlers
    BY DEF Handlers
  <1>5. (\A u \in Users : Raced(u)' <=> Raced(u)) /\ \A g \in Handlers : User(g) \in Users
    BY <1>1, InputsAssumption DEF Raced, User
  <1>6. TypeOK'
    BY <1>1 DEF IInv, TypeOK, Working
  <1>7. LateInv'
    BY <1>1, <1>2, <1>3 DEF IInv, LateInv, TypeOK
  <1>8. ExistsInv'
    <2>1. \A i \in Issues : (Pending(i) \/ i \in late)' => draft'[i] # Nil /\ userDoc'[User(i)] # Nil
      BY <1>1, <1>3, <1>4 DEF IInv, ExistsInv, Pending, ReadStep
    <2>2. \A d \in Deliveries : Writing(d)' =>
             /\ draft'[d] # Nil /\ userDoc'[User(d)] # Nil
             /\ item'[d] \in 1..Len(ItemsOf[d]) /\ ItemsOf[d][item'[d]] # Nil
      BY <1>1, <1>3, <1>4 DEF IInv, ExistsInv, Writing, ReadStep
    <2>3. \A s \in SignIns : Writing(s)' => draft'[s] # Nil
      BY <1>1, <1>3, <1>4 DEF IInv, ExistsInv, Writing
    <2>4. \A u \in Users : userDoc'[u] = Nil =>
             /\ granted'[u] = [m \in Models |-> 0] /\ purchases'[u] = <<>>
             /\ \A m \in Models : ChargesOf(u, m)' = {}
      BY <1>1 DEF IInv, ExistsInv, ChargesOf, User
    <2> QED BY <2>1, <2>2, <2>3, <2>4 DEF ExistsInv, User
  <1>9. ChargeInv'
    BY <1>1, <1>2, <1>3, <1>4 DEF IInv, ChargeInv
  <1>10. KindInv'
    BY <1>1, <1>3, <1>4, KindsAssumption DEF IInv, KindInv
  <1>11. LockInv'
    BY <1>1, <1>3, <1>4 DEF IInv, LockInv, Critical, User
  <1>12. SerialInv'
    BY <1>1, <1>3, <1>4 DEF IInv, SerialInv
  <1>13. IssuesSerialized'
    BY <1>1 DEF IInv, IssuesSerialized
  <1>14. SignaturesArePaid'
    BY <1>1, <1>3, <1>4 DEF IInv, SignaturesArePaid
  <1>15. DraftInv'
    <2> SUFFICES ASSUME NEW g \in Handlers, Writing(g)', missed'[g] = {}, ~Raced(User(g))
                 PROVE  LET b == userDoc[User(g)] IN
                        /\ g \in Issues => HasCredit(b, ModelOf[g]) /\ draft'[g] = Charge(b, ModelOf[g])
                        /\ g \in Deliveries => draft'[g] = Credit(b, g, ItemsOf[g][item[g]])
                        /\ g \in SignIns => draft'[g] = IF b = Nil THEN NewAccount ELSE b
      BY <1>1, <1>5 DEF DraftInv, User
    <2>1. CASE g = h
      BY <1>1, <1>2, <1>3, <2>1 DEF Writing
    <2>2. CASE g # h
      BY <1>1, <1>3, <2>2 DEF IInv, DraftInv, Writing
    <2> QED BY <2>1, <2>2
  <1>16. StaleInv'
    <2> SUFFICES ASSUME NEW i \in Issues, pc'[i] \in {"calling", "waiting", "fetching"}, ~Raced(User(i))
                 PROVE  Grew(draft'[i], userDoc[User(i)])
      BY <1>1, <1>4, <1>5 DEF StaleInv, User
    <2>1. CASE i = h
      BY <1>1, <1>3, <2>1, GrewFacts
    <2>2. CASE i # h
      BY <1>1, <1>3, <1>4, <2>2 DEF IInv, StaleInv
    <2> QED BY <2>1, <2>2
  <1>17. ConservedUnlessRaced'
    BY <1>1, <1>5 DEF IInv, ConservedUnlessRaced, ChargesOf, User
  <1>18. AckInv'
    BY <1>1, <1>3, <1>4, AckStable DEF Has
  <1> QED BY <1>6, <1>7, <1>8, <1>9, <1>10, <1>11, <1>12, <1>13, <1>14, <1>15, <1>16, <1>17, <1>18 DEF IInv

LEMMA EnterStep ==
  ASSUME IInv, NEW i \in Issues, Enter(i) PROVE IInv'
  <1>1. i \in Handlers /\ i \notin Deliveries /\ i \notin SignIns
    BY KindsAssumption DEF Handlers
  <1>2. userDoc[User(i)] \in Accounts
    BY <1>1, InputsAssumption DEF Enter, IInv, TypeOK, User
  <1>3. ReadStep(i, userDoc[User(i)], "calling")
    BY <1>1, <1>2 DEF Enter, Read, Goto, ReadStep
  <1> QED BY <1>1, <1>3, ReadStepInv

LEMMA FetchAccountStep ==
  ASSUME IInv, NEW i \in Issues, FetchAccount(i) PROVE IInv'
  <1> DEFINE a == MergeAccount(draft[i], userDoc[User(i)])
             m == ModelOf[i]
  <1>1. i \in Handlers /\ i \notin Deliveries /\ i \notin SignIns /\ m \in Models /\ User(i) \in Users
    BY KindsAssumption, InputsAssumption DEF Handlers, User
  <1>2. pc[i] = "fetching"
    BY DEF FetchAccount
  <1>3. draft[i] \in Accounts /\ userDoc[User(i)] \in Accounts /\ userDoc[User(i)] # Nil
    BY <1>1, <1>2 DEF IInv, TypeOK, ExistsInv, Pending, Working
  <1>4. a \in Accounts
    BY <1>3, MergeFacts
  <1>5. ~Raced(User(i)) => a = userDoc[User(i)]
    BY <1>2, <1>3, MergeFacts DEF IInv, StaleInv
  <1>6. CASE HasCredit(a, m) /\ i \notin Malformed
    <2>1. Charge(a, m) \in Accounts
      BY <1>1, <1>4, <1>6, ChargeFacts
    <2>2. ReadStep(i, Charge(a, m), "saving")
      BY <1>1, <1>2, <1>3, <1>6, <2>1 DEF FetchAccount, Read, Goto, ReadStep, server
    <2> QED BY <1>1, <1>2, <1>5, <1>6, <2>2, ReadStepInv
  <1>7. CASE ~(HasCredit(a, m) /\ i \notin Malformed)
    <2>1. /\ pc' = [pc EXCEPT ![i] = "failed"] /\ lock' = ReleasedBy({i})
          /\ draft' = draft /\ missed' = missed
          /\ UNCHANGED <<item, userDoc, inMemCache, answer, marked, charged, granted,
                         purchases, overwrote, late, stray, killed>>
      BY <1>7 DEF FetchAccount, Return, Goto
    <2>2. pc'[i] = "failed" /\ \A h \in Handlers \ {i} : pc'[h] = pc[h]
      BY <1>1, <2>1 DEF IInv, TypeOK
    <2>3. i \notin charged
      BY <1>2 DEF IInv, ChargeInv
    <2>4. TypeOK'
      BY <1>1, <2>1 DEF IInv, TypeOK, Ended, ReleasedBy
    <2>5. LateInv' /\ KindInv'
      BY <1>1, <2>1, <2>2 DEF IInv, LateInv, KindInv, TypeOK, Handlers
    <2>6. LockInv'
      BY <2>1, <2>2, InputsAssumption DEF IInv, LockInv, Critical, User, Handlers, ReleasedBy
    <2>7. ChargeInv' /\ SignaturesArePaid'
      BY <1>1, <2>1, <2>2, <2>3 DEF IInv, ChargeInv, SignaturesArePaid, Handlers
    <2>8. AckInv'
      BY <1>1, <2>1, <2>2, AckStable DEF Has, Handlers
    <2>9. /\ \A h \in Handlers : (Pending(h)' => Pending(h)) /\ (Writing(h)' => Writing(h))
          /\ \A h \in Handlers : pc'[h] = "saving" => pc[h] = "saving"
          /\ \A h \in Issues : pc'[h] \in {"calling", "waiting", "fetching"} =>
                              pc[h] \in {"calling", "waiting", "fetching"}
      BY <1>2, <2>1, <2>2 DEF Pending, Writing, Working, Handlers
    <2> QED BY <2>1, <2>4, <2>5, <2>6, <2>7, <2>8, <2>9, LocalStep DEF IInv, docs
  <1> QED BY <1>6, <1>7

LEMMA DeliverFetchStep ==
  ASSUME IInv, NEW d \in Deliveries, DeliverFetch(d) PROVE IInv'
  <1> DEFINE it == ItemsOf[d][item[d]]
             u == User(d)
  <1>1. /\ d \in Handlers /\ d \notin Issues /\ d \notin SignIns /\ u \in Users
        /\ ItemsOf[d] \in Seq(Items \cup {Nil}) /\ item[d] \in Nat \ {0}
    BY KindsAssumption, InputsAssumption DEF Handlers, User, IInv, TypeOK
  <1>2. /\ pc[d] \in {"idle", "fetching"}
        /\ UNCHANGED <<item, userDoc, charged, granted, purchases, overwrote, late, stray, killed>>
        /\ UNCHANGED server
    BY DEF DeliverFetch
  <1>3. CASE /\ item[d] <= Len(ItemsOf[d]) /\ it # Nil /\ userDoc[u] # Nil
             /\ Read(d, Credit(userDoc[u], d, it)) /\ Goto(d, "saving")
    <2>1. item[d] \in 1..Len(ItemsOf[d])
      BY <1>1, <1>3
    <2>2. it \in Items
      BY <1>1, <1>3, <2>1
    <2>3. userDoc[u] \in Accounts
      BY <1>1, <1>3 DEF IInv, TypeOK
    <2>4. Credit(userDoc[u], d, it) \in Accounts
      BY <2>2, <2>3, CreditFacts
    <2>5. ReadStep(d, Credit(userDoc[u], d, it), "saving")
      BY <1>1, <1>2, <1>3, <2>1, <2>4 DEF Read, Goto, ReadStep
    <2> QED BY <1>1, <2>5, ReadStepInv
  <1>4. CASE \/ item[d] > Len(ItemsOf[d]) /\ Goto(d, "done") /\ UNCHANGED <<draft, missed>>
             \/ Goto(d, "failed") /\ UNCHANGED <<draft, missed>>
    <2>1. /\ draft' = draft /\ missed' = missed /\ UNCHANGED <<lock, inMemCache, answer, marked>>
          /\ \E l \in Ended : pc' = [pc EXCEPT ![d] = l]
          /\ pc'[d] = "done" => item[d] > Len(ItemsOf[d])
      BY <1>1, <1>2, <1>4 DEF Goto, server, IInv, TypeOK, Ended
    <2>2. pc'[d] \in Ended /\ \A h \in Handlers \ {d} : pc'[h] = pc[h]
      BY <1>1, <2>1 DEF IInv, TypeOK
    <2>3. TypeOK'
      BY <1>1, <1>2, <2>1 DEF IInv, TypeOK
    <2>4. LateInv'
      BY <1>1, <1>2, <2>1, <2>2 DEF IInv, LateInv, TypeOK
    <2>5. KindInv' /\ LockInv'
      BY <1>1, <2>1, <2>2 DEF IInv, KindInv, LockInv, Critical, User, Handlers
    <2>6. ChargeInv' /\ SignaturesArePaid'
      BY <1>1, <1>2, <2>1, <2>2 DEF IInv, ChargeInv, SignaturesArePaid, Handlers
    <2>7. AckInv'
      BY <1>1, <1>2, <2>1, <2>2, AckStable DEF Has, Handlers
    <2>8. /\ \A h \in Handlers : (Pending(h)' => Pending(h)) /\ (Writing(h)' => Writing(h))
          /\ \A h \in Handlers : pc'[h] = "saving" => pc[h] = "saving"
          /\ \A h \in Issues : pc'[h] \in {"calling", "waiting", "fetching"} =>
                              pc[h] \in {"calling", "waiting", "fetching"}
      BY <1>1, <1>2, <2>1, <2>2 DEF Pending, Writing, Working, Handlers, Ended
    <2> QED BY <1>2, <2>1, <2>3, <2>4, <2>5, <2>6, <2>7, <2>8, LocalStep DEF IInv, docs
  <1> QED BY <1>3, <1>4 DEF DeliverFetch

LEMMA SignInFetchStep ==
  ASSUME IInv, NEW s \in SignIns, SignInFetch(s) PROVE IInv'
  <1> DEFINE a == IF userDoc[User(s)] = Nil THEN NewAccount ELSE userDoc[User(s)]
  <1>1. s \in Handlers /\ s \notin Issues /\ s \notin Deliveries /\ User(s) \in Users
    BY KindsAssumption, InputsAssumption DEF Handlers, User
  <1>2. a \in Accounts
    BY <1>1, CreditsFacts, InputsAssumption DEF IInv, TypeOK, NewAccount, Accounts
  <1>3. ReadStep(s, a, "saving")
    BY <1>1, <1>2 DEF SignInFetch, Read, Goto, ReadStep
  <1> QED BY <1>1, <1>3, ReadStepInv

-------------------------------------------------------------------------------
(* The invariant and the theorems.                                         *)

LEMMA InitIInv == Init => IInv
  <1> SUFFICES ASSUME Init PROVE IInv
    OBVIOUS
  <1>1. TypeOK
    BY DEF Init, TypeOK, Ended, Working
  <1>2. \A u \in Users : userDoc[u] = Nil
    BY DEF Init
  <1>3. \A h \in Handlers : pc[h] = "idle" /\ h \notin late
    BY DEF Init
  <1>4. Issues \subseteq Handlers /\ Deliveries \subseteq Handlers /\ SignIns \subseteq Handlers
    BY DEF Handlers
  <1>5. LateInv /\ ChargeInv /\ KindInv /\ LockInv /\ SerialInv /\ DraftInv /\ StaleInv
    BY <1>3, <1>4 DEF Init, LateInv, ChargeInv, KindInv, LockInv, SerialInv, DraftInv,
                      StaleInv, Critical, Writing
  <1>6. ExistsInv
    BY <1>2, <1>3, <1>4 DEF Init, ExistsInv, Writing, Pending, Working, ChargesOf
  <1>7. IssuesSerialized /\ SignaturesArePaid /\ ConservedUnlessRaced
    BY <1>2, <1>3, <1>4 DEF Init, IssuesSerialized, SignaturesArePaid, ConservedUnlessRaced
  <1>8. AckInv
    BY <1>3, <1>4 DEF Init, AckInv
  <1> QED BY <1>1, <1>5, <1>6, <1>7, <1>8 DEF IInv

LEMMA NextIInv == IInv /\ [Next]_vars => IInv'
  <1> SUFFICES ASSUME IInv, [Next]_vars PROVE IInv'
    OBVIOUS
  <1>1. ASSUME NEW i \in Issues, Issue(i) PROVE IInv'
    BY <1>1, EnterStep, CheckCacheStep, AcquireStep, FetchAccountStep, SaveChargeStep, MarkStep DEF Issue
  <1>2. ASSUME NEW d \in Deliveries, Deliver(d) PROVE IInv'
    BY <1>2, DeliverFetchStep, DeliverSaveStep DEF Deliver
  <1>3. ASSUME NEW s \in SignIns, SignIn(s) PROVE IInv'
    BY <1>3, SignInFetchStep, SignInSaveStep DEF SignIn
  <1>4. ASSUME NEW h \in Handlers, Abort(h) \/ SaveUnreported(h) \/ LandLate(h) PROVE IInv'
    BY <1>4, AbortStep, SaveUnreportedStep, LandLateStep
  <1>5. ASSUME NEW id \in IDs, Evict(id) PROVE IInv'
    BY <1>5, EvictStep
  <1>6. CASE UNCHANGED vars
    <2>1. UNCHANGED docs /\ UNCHANGED server /\ UNCHANGED <<pc, draft, item, late, stray, killed>>
      BY <1>6 DEF vars, docs, server
    <2>2. UNCHANGED <<userDoc, charged, granted, purchases, missed, overwrote, lock, inMemCache, answer, marked>>
      BY <2>1 DEF docs, server
    <2>3. TypeOK'
      BY <2>1, <2>2 DEF IInv, TypeOK
    <2>4. LateInv' /\ KindInv' /\ LockInv'
      BY <2>1, <2>2 DEF IInv, LateInv, KindInv, LockInv, Critical, User
    <2>5. ChargeInv' /\ SignaturesArePaid'
      BY <2>1, <2>2 DEF IInv, ChargeInv, SignaturesArePaid
    <2>6. AckInv'
      BY <2>1, <2>2, AckStable DEF Has
    <2>7. \A h \in Handlers : (Pending(h)' => Pending(h)) /\ (Writing(h)' => Writing(h))
      BY <2>1 DEF Pending, Writing
    <2> QED BY <2>1, <2>3, <2>4, <2>5, <2>6, <2>7, LocalStep DEF IInv
  <1>7. Next => \/ \E i \in Issues : Issue(i)
                \/ \E d \in Deliveries : Deliver(d)
                \/ \E s \in SignIns : SignIn(s)
                \/ \E h \in Handlers : Abort(h) \/ SaveUnreported(h) \/ LandLate(h)
                \/ \E id \in IDs : Evict(id)
                \/ Restart
                \/ UNCHANGED vars
    BY DEF Next, Done
  <1> QED BY <1>1, <1>2, <1>3, <1>4, <1>5, <1>6, <1>7, RestartStep

THEOREM Inductive == Spec => []IInv
  <1> QED BY InitIInv, NextIInv, PTL DEF Spec

(* Every variable of the ledger keeps the shape the code gives it, and no  *)
(* count of active or used tokens ever goes below zero.                    *)
THEOREM TypeCorrect == Spec => []TypeOK
  <1>1. IInv => TypeOK
    BY DEF IInv
  <1> QED BY <1>1, Inductive, PTL

(* On an account whose writes have not undone each other, charges, grants  *)
(* and payment logs add up to exactly what the handlers did.               *)
THEOREM CreditsConserved == Spec => []ConservedUnlessRaced
  <1>1. IInv => ConservedUnlessRaced
    BY DEF IInv
  <1> QED BY <1>1, Inductive, PTL

(* The semaphore per user serialises the issues that live to be answered.  *)
THEOREM IssuesAreSerialized == Spec => []IssuesSerialized
  <1>1. IInv => IssuesSerialized
    BY DEF IInv
  <1> QED BY <1>1, Inductive, PTL

(* No signature leaves the server that was not charged for.                *)
THEOREM EverySignatureIsPaid == Spec => []SignaturesArePaid
  <1>1. IInv => SignaturesArePaid
    BY DEF IInv
  <1> QED BY <1>1, Inductive, PTL

(* A webhook delivery is acknowledged only when all of it was written.     *)
THEOREM AcksFollowWrites == Spec => []AckedMeansApplied
  <1>1. IInv => AckedMeansApplied
    <2> SUFFICES ASSUME IInv, NEW d \in Deliveries, Acknowledged(d), NEW k \in 1..Len(ItemsOf[d])
                 PROVE  /\ ItemsOf[d][k] # Nil
                        /\ \E j \in 1..Len(purchases[User(d)]) :
                             purchases[User(d)][j] = LogOf(d, ItemsOf[d][k])
      BY DEF AckedMeansApplied
    <2>1. item[d] \in Nat /\ Len(ItemsOf[d]) \in Nat /\ item[d] > Len(ItemsOf[d])
      BY InputsAssumption DEF Acknowledged, IInv, TypeOK, AckInv
    <2> QED BY <2>1 DEF IInv, AckInv
  <1> QED BY <1>1, Inductive, PTL
===============================================================================
