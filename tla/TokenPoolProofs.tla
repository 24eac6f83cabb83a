---------------------------- MODULE TokenPoolProofs ----------------------------
(***************************************************************************)
(* Proofs about TokenPool, for every number of calls, prefetches, credits, *)
(* runs of the app and lost messages.  PlacesInv says where the tokens     *)
(* are: those issued are the pooled, the returned, the travelling and the  *)
(* wasted ones, these four are disjoint, and none of them holds a token    *)
(* twice.  Every step takes tokens from one of them, or from the server,   *)
(* to another (Moves), and TokensHaveOnePlace counts what PlacesInv says.  *)
(* RefillInv says which prefetch will leave the pool filled, or the user   *)
(* without credits: one that has enough to ask for (Fills).                *)
(***************************************************************************)
EXTENDS TokenPool, SequenceTheorems, FiniteSetTheorems, TLAPS

USE DEF account

Pooled == {pool[i] : i \in 1..Len(pool)}
Returned == {got[c] : c \in Calls} \ {0}
Travelling == {answer[a] : a \in Askers} \ {0}

Apart(P, R, T, W) ==
  /\ P \cap R = {} /\ P \cap T = {} /\ P \cap W = {}
  /\ R \cap T = {} /\ R \cap W = {} /\ T \cap W = {}

OnceEach ==
  /\ \A i, j \in 1..Len(pool) : pool[i] = pool[j] => i = j
  /\ \A c, d \in Calls : got[c] = got[d] /\ got[c] # 0 => c = d
  /\ \A a, b \in Askers : answer[a] = answer[b] /\ answer[a] # 0 => a = b

PlacesInv ==
  /\ OnceEach
  /\ Apart(Pooled, Returned, Travelling, wasted)
  /\ 1..issued = Pooled \cup Returned \cup Travelling \cup wasted

(* A prefetch at work has tokens to ask for; a call that returned is done. *)
WorkInv ==
  /\ \A p \in Prefetches :
       at[p] \in {"asking", "signed", "refused", "lost", "pausing"} => left[p] >= 1
  /\ \A c \in Calls : got[c] # 0 => at[c] = "done"

IInv == TypeOK /\ WorkInv /\ PlacesInv

-------------------------------------------------------------------------------
(* Types and prefetches' counts.                                           *)

LEMMA NeededIsNat ==
  ASSUME NEW size \in Nat, NEW limit \in Nat PROVE Needed(size, limit) \in Nat
  BY SizesAssumption DEF Needed

LEMMA StartPrefetchFacts ==
  ASSUME TypeOK, WorkInv, NEW p \in Prefetches, NEW f \in [Askers -> Places],
         \A q \in Prefetches : f[q] = at[q],
         NEW size \in Nat, NEW limit \in Nat, StartPrefetch(p, f, size, limit)
  PROVE  /\ at' \in [Askers -> Places] /\ left' \in [Prefetches -> Nat]
         /\ \A a \in Askers \ {p} : at'[a] = f[a]
         /\ at'[p] \in {"asking", "done"}
         /\ \A q \in Prefetches :
              at'[q] \in {"asking", "signed", "refused", "lost", "pausing"} => left'[q] >= 1
  <1> DEFINE n == Needed(size, limit)
  <1>1. n \in Nat
    BY NeededIsNat
  <1>2. /\ at' = [f EXCEPT ![p] = IF n > 0 THEN "asking" ELSE "done"]
        /\ left' = [left EXCEPT ![p] = n]
    BY DEF StartPrefetch
  <1> HIDE DEF n
  <1>3. p \in Askers
    BY DEF Askers
  <1> QED BY <1>1, <1>2, <1>3 DEF TypeOK, WorkInv, Askers, Places

LEMMA PoolLength ==
  ASSUME TypeOK PROVE Len(pool) \in Nat
  BY LenProperties DEF TypeOK

LEMMA TakePooledTypes ==
  ASSUME TypeOK, WorkInv, NEW c \in Calls, TakePooled(c)
  PROVE  TypeOK' /\ WorkInv'
  <1>1. c \in Askers /\ c \notin Prefetches
    BY AskersAssumption DEF Askers
  <1>2. /\ Head(pool) \in 1..Credits /\ pool' \in Seq(1..Credits) /\ Len(pool') \in Nat
    BY HeadTailProperties, LenProperties DEF TakePooled, TypeOK
  <1> DEFINE f == [at EXCEPT ![c] = "done"]
  <1>3. f \in [Askers -> Places] /\ f[c] = "done" /\ \A a \in Askers \ {c} : f[a] = at[a]
    BY <1>1 DEF TypeOK, Places
  <1> HIDE DEF f
  <1>4. /\ at' \in [Askers -> Places] /\ left' \in [Prefetches -> Nat]
        /\ at'[c] = "done"
        /\ \A a \in Askers \ {c} : at'[a] = "signed" <=> at[a] = "signed"
        /\ \A d \in Calls \ {c} : at'[d] = at[d]
        /\ \A q \in Prefetches :
             at'[q] \in {"asking", "signed", "refused", "lost", "pausing"} => left'[q] >= 1
    <2>1. CASE ~Low(Len(pool'))
      BY <1>1, <1>3, <2>1 DEF TakePooled, TypeOK, WorkInv, f, Askers
    <2>2. CASE Low(Len(pool'))
      <3>1. PICK p \in Prefetches : Fresh(p) /\ StartPrefetch(p, f, Len(pool'), Unlimited)
        BY <2>2 DEF TakePooled, f
      <3>2. at[p] = "idle" /\ p \in Askers /\ p # c /\ Unlimited \in Nat /\ p \notin Calls
        BY <1>1, <3>1, SizesAssumption, AskersAssumption DEF Fresh, Askers, Unlimited
      <3>3. \A q \in Prefetches : f[q] = at[q]
        BY <1>1, <1>3 DEF Askers
      <3>4. /\ at' \in [Askers -> Places] /\ left' \in [Prefetches -> Nat]
            /\ \A a \in Askers \ {p} : at'[a] = f[a]
            /\ at'[p] \in {"asking", "done"}
            /\ \A q \in Prefetches :
                 at'[q] \in {"asking", "signed", "refused", "lost", "pausing"} => left'[q] >= 1
        BY <1>2, <1>3, <3>1, <3>2, <3>3, StartPrefetchFacts
      <3> QED BY <1>1, <1>3, <3>2, <3>4 DEF Askers
    <2> QED BY <2>1, <2>2
  <1>5. got' \in [Calls -> 0..Credits] /\ \A d \in Calls \ {c} : got'[d] = got[d]
    BY <1>2 DEF TakePooled, TypeOK
  <1>6. at[c] = "idle" /\ answer[c] = 0
    BY <1>1 DEF TakePooled, TypeOK
  <1> QED BY <1>1, <1>2, <1>4, <1>5, <1>6 DEF TakePooled, TypeOK, WorkInv

LEMMA ReturnSignedTypes ==
  ASSUME TypeOK, WorkInv, NEW c \in Calls, ReturnSigned(c)
  PROVE  TypeOK' /\ WorkInv'
  <1>1. c \in Askers /\ c \notin Prefetches
    BY AskersAssumption DEF Askers
  <1> DEFINE f == [at EXCEPT ![c] = "done"]
  <1>2. f \in [Askers -> Places] /\ f[c] = "done" /\ \A a \in Askers \ {c} : f[a] = at[a]
    BY <1>1 DEF TypeOK, Places
  <1>3. PICK p \in Prefetches : Fresh(p) /\ StartPrefetch(p, f, Len(pool), Unlimited)
    BY DEF ReturnSigned
  <1> HIDE DEF f
  <1>4. at[p] = "idle" /\ p \in Askers /\ p # c /\ Unlimited \in Nat /\ p \notin Calls
    BY <1>1, <1>3, SizesAssumption, AskersAssumption DEF Fresh, Askers, Unlimited, ReturnSigned
  <1>5. \A q \in Prefetches : f[q] = at[q]
    BY <1>1, <1>2 DEF Askers
  <1>6. /\ at' \in [Askers -> Places] /\ left' \in [Prefetches -> Nat]
        /\ at'[c] = "done" /\ at'[p] # "signed"
        /\ \A a \in Askers \ {c, p} : at'[a] = at[a]
        /\ \A q \in Prefetches :
             at'[q] \in {"asking", "signed", "refused", "lost", "pausing"} => left'[q] >= 1
    BY <1>1, <1>2, <1>3, <1>4, <1>5, PoolLength, StartPrefetchFacts
  <1>7. /\ got' \in [Calls -> 0..Credits] /\ \A d \in Calls \ {c} : got'[d] = got[d]
        /\ answer' \in [Askers -> 0..Credits] /\ answer'[c] = 0
        /\ \A a \in Askers \ {c} : answer'[a] = answer[a]
    BY <1>1, SizesAssumption DEF ReturnSigned, TypeOK
  <1>8. \A d \in Calls : d \in Askers /\ d # p
    BY <1>4 DEF Askers
  <1>9. UNCHANGED <<run, pool, signedIn, credits, issued, wasted, faults>> /\ news' = FALSE /\ answer[p] = 0
    BY <1>4 DEF ReturnSigned, TypeOK
  <1>10. \A a \in Askers : (at'[a] = "signed") <=> (answer'[a] # 0)
    BY <1>4, <1>6, <1>7, <1>9 DEF TypeOK
  <1>11. TypeOK'
    BY <1>6, <1>7, <1>9, <1>10 DEF TypeOK
  <1>12. WorkInv'
    BY <1>4, <1>6, <1>7, <1>8 DEF WorkInv
  <1> QED BY <1>11, <1>12

LEMMA StartWithProfileTypes ==
  ASSUME TypeOK, WorkInv, NEW p \in Prefetches, StartWithProfile(p)
  PROVE  TypeOK' /\ WorkInv'
  <1>1. p \in Askers /\ p \notin Calls /\ \A c \in Calls : c \in Askers /\ c # p
    BY AskersAssumption DEF Askers
  <1>2. PICK limit \in Nat : StartPrefetch(p, at, Len(pool), limit)
    BY SizesAssumption DEF StartWithProfile, TypeOK, Unlimited
  <1>3. /\ at' \in [Askers -> Places] /\ left' \in [Prefetches -> Nat]
        /\ at'[p] # "signed"
        /\ \A a \in Askers \ {p} : at'[a] = at[a]
        /\ \A q \in Prefetches :
             at'[q] \in {"asking", "signed", "refused", "lost", "pausing"} => left'[q] >= 1
    BY <1>2, PoolLength, StartPrefetchFacts DEF TypeOK
  <1>4. answer[p] = 0
    BY <1>1 DEF StartWithProfile, TypeOK
  <1>5. UNCHANGED <<run, pool, answer, got, account, issued, wasted, faults>>
    BY DEF StartWithProfile
  <1>6. \A a \in Askers : (at'[a] = "signed") <=> (answer'[a] # 0)
    BY <1>1, <1>3, <1>4, <1>5 DEF TypeOK
  <1>7. TypeOK'
    BY <1>3, <1>5, <1>6 DEF TypeOK
  <1>8. WorkInv'
    BY <1>1, <1>3, <1>5 DEF WorkInv
  <1> QED BY <1>7, <1>8

(* One invocation goes from place to place without a token.                *)
LEMMA OneGoesOn ==
  ASSUME TypeOK, WorkInv, NEW a \in Askers, NEW place \in Places \ {"signed"},
         at[a] \notin {"signed", "done"}, at' = [at EXCEPT ![a] = place],
         UNCHANGED <<run, pool, answer, got, account, issued, wasted, faults>>,
         left' \in [Prefetches -> Nat], \A q \in Prefetches \ {a} : left'[q] = left[q],
         a \in Prefetches =>
           (place \in {"asking", "refused", "lost", "pausing"} => left'[a] >= 1)
  PROVE  TypeOK' /\ WorkInv'
  <1>1. /\ at' \in [Askers -> Places] /\ at'[a] = place
        /\ \A b \in Askers \ {a} : at'[b] = at[b]
    BY DEF TypeOK
  <1>2. \A b \in Calls \cup Prefetches : b \in Askers
    BY DEF Askers
  <1>3. TypeOK'
    BY <1>1 DEF TypeOK
  <1>4. WorkInv'
    BY <1>1, <1>2 DEF WorkInv
  <1> QED BY <1>3, <1>4

LEMMA AskerTypes ==
  ASSUME TypeOK, WorkInv, NEW c \in Calls, AskForOne(c) \/ Throw(c)
  PROVE  TypeOK' /\ WorkInv'
  <1>1. c \in Askers /\ c \notin Prefetches
    BY AskersAssumption DEF Askers
  <1>2. left' = left /\ left \in [Prefetches -> Nat]
    BY DEF AskForOne, Throw, TypeOK
  <1>3. CASE AskForOne(c)
    BY <1>1, <1>2, <1>3, OneGoesOn DEF AskForOne, Places
  <1>4. CASE Throw(c)
    BY <1>1, <1>2, <1>4, OneGoesOn DEF Throw, Places
  <1> QED BY <1>3, <1>4

LEMMA PrefetchTypes ==
  ASSUME TypeOK, WorkInv, NEW p \in Prefetches,
         AddToPool(p) \/ SkipOne(p) \/ Resume(p) \/ SendProfile(p)
  PROVE  TypeOK' /\ WorkInv'
  <1>1. /\ p \in Askers /\ p \notin Calls /\ \A c \in Calls : c \in Askers /\ c # p
        /\ \A q \in Prefetches : q \in Askers
    BY AskersAssumption DEF Askers
  <1>2. CASE Resume(p)
    <2>1. left' = left /\ left \in [Prefetches -> Nat] /\ left[p] >= 1
      BY <1>2 DEF Resume, TypeOK, WorkInv
    <2> QED BY <1>1, <1>2, <2>1, OneGoesOn DEF Resume, Places
  <1>5. CASE SendProfile(p)
    <2>1. left' \in [Prefetches -> Nat] /\ \A q \in Prefetches \ {p} : left'[q] = left[q]
      BY <1>5, SizesAssumption DEF SendProfile, TypeOK
    <2> QED BY <1>1, <1>5, <2>1, OneGoesOn DEF SendProfile, Places
  <1>3. CASE SkipOne(p)
    <2>1. /\ left' \in [Prefetches -> Nat] /\ left'[p] = left[p] - 1
          /\ \A q \in Prefetches \ {p} : left'[q] = left[q]
          /\ left[p] \in Nat
      BY <1>3 DEF SkipOne, GoOn, TypeOK, WorkInv
    <2>4. /\ at[p] \in {"refused", "lost"}
          /\ UNCHANGED <<run, pool, answer, got, account, issued, wasted, faults>>
      BY <1>3 DEF SkipOne
    <2>2. CASE left[p] > 1
      <3>1. left'[p] >= 1 /\ at' = [at EXCEPT ![p] = "pausing"]
        BY <1>3, <2>1, <2>2 DEF SkipOne, GoOn
      <3> QED BY <1>1, <2>1, <2>4, <3>1, OneGoesOn DEF Places
    <2>3. CASE ~(left[p] > 1)
      <3>1. at' = [at EXCEPT ![p] = "done"]
        BY <1>3, <2>1, <2>3 DEF SkipOne, GoOn
      <3> QED BY <1>1, <2>1, <2>4, <3>1, OneGoesOn DEF Places
    <2> QED BY <2>2, <2>3
  <1>4. CASE AddToPool(p)
    <2>1. answer[p] \in 1..Credits
      BY <1>1, <1>4 DEF AddToPool, TypeOK
    <2>2. pool' \in Seq(1..Credits)
      BY <1>4, <2>1, AppendProperties DEF AddToPool, TypeOK
    <2>3. answer' \in [Askers -> 0..Credits] /\ answer'[p] = 0
          /\ \A a \in Askers \ {p} : answer'[a] = answer[a]
      BY <1>1, <1>4, SizesAssumption DEF AddToPool, TypeOK
    <2>4. /\ UNCHANGED <<run, got, account, issued, wasted, faults>>
          /\ at' \in [Askers -> Places] /\ left' \in [Prefetches -> Nat]
          /\ at'[p] \in {"pausing", "done"}
          /\ at'[p] = "pausing" => left'[p] >= 1
          /\ \A a \in Askers \ {p} : at'[a] = at[a]
          /\ \A q \in Prefetches \ {p} : left'[q] = left[q]
      BY <1>1, <1>4 DEF AddToPool, GoOn, TypeOK, WorkInv, Places
    <2>7. \A a \in Askers : (at'[a] = "signed") <=> (answer'[a] # 0)
      BY <1>1, <2>3, <2>4 DEF TypeOK
    <2>5. TypeOK'
      BY <2>2, <2>3, <2>4, <2>7 DEF TypeOK
    <2>8. at[p] = "signed"
      BY <1>4 DEF AddToPool
    <2>6. WorkInv'
      <3>1. \A q \in Prefetches :
              at'[q] \in {"asking", "signed", "refused", "lost", "pausing"} => left'[q] >= 1
        BY <1>1, <2>4 DEF WorkInv
      <3>2. \A c \in Calls : got'[c] # 0 => at'[c] = "done"
        BY <1>1, <2>4 DEF WorkInv
      <3> QED BY <3>1, <3>2 DEF WorkInv
    <2> QED BY <2>5, <2>6
  <1> QED BY <1>2, <1>3, <1>4, <1>5

LEMMA NetworkTypes ==
  ASSUME TypeOK, WorkInv, NEW a \in Askers, SignOne(a) \/ Lose(a)
  PROVE  TypeOK' /\ WorkInv'
  <1>1. \A b \in Calls \cup Prefetches : b \in Askers
    BY DEF Askers
  <1>2. CASE SignOne(a)
    <2>1. /\ UNCHANGED <<run, pool, left, got, signedIn, news, wasted, faults>>
          /\ at[a] = "asking" /\ at'[a] \in {"signed", "refused"}
          /\ at' \in [Askers -> Places]
          /\ \A b \in Askers \ {a} : at'[b] = at[b]
      BY <1>2 DEF SignOne, TypeOK, Places
    <2>2. /\ issued' \in 0..Credits /\ credits' \in 0..(Credits - issued')
          /\ answer' \in [Askers -> 0..Credits]
          /\ \A b \in Askers \ {a} : answer'[b] = answer[b]
          /\ (at'[a] = "signed") <=> (answer'[a] # 0)
      <3>1. CASE credits > 0 /\ credits' = credits - 1 /\ issued' = issued + 1
                 /\ answer' = [answer EXCEPT ![a] = issued + 1]
                 /\ at' = [at EXCEPT ![a] = "signed"]
        BY <3>1, SizesAssumption DEF TypeOK
      <3>2. CASE at' = [at EXCEPT ![a] = "refused"] /\ UNCHANGED <<credits, issued, answer>>
        BY <2>1, <3>2 DEF TypeOK
      <3> QED BY <1>2, <3>1, <3>2 DEF SignOne
    <2>3. TypeOK'
      BY <2>1, <2>2 DEF TypeOK
    <2>4. WorkInv'
      BY <1>1, <2>1 DEF WorkInv
    <2> QED BY <2>3, <2>4
  <1>3. CASE Lose(a)
    <2>1. UNCHANGED <<run, pool, got, account, issued>> /\ faults' \in 0..MaxFaults
      BY <1>3, SizesAssumption DEF Lose, TypeOK
    <2>2. CASE /\ at[a] \in {"asking", "signed"}
               /\ at' = [at EXCEPT ![a] = "lost"]
               /\ wasted' = wasted \cup ({answer[a]} \ {0})
               /\ answer' = [answer EXCEPT ![a] = 0]
               /\ UNCHANGED left
      <3>1. /\ at' \in [Askers -> Places] /\ at'[a] = "lost" /\ answer'[a] = 0
            /\ answer' \in [Askers -> 0..Credits]
            /\ \A b \in Askers \ {a} : at'[b] = at[b] /\ answer'[b] = answer[b]
        BY <2>2, SizesAssumption DEF TypeOK, Places
      <3>2. wasted' \subseteq 1..Credits
        <4>1. answer[a] \in 0..Credits /\ wasted \subseteq 1..Credits
          BY DEF TypeOK
        <4>2. {answer[a]} \ {0} \subseteq 1..Credits
          BY <4>1, SizesAssumption
        <4> QED BY <2>2, <4>1, <4>2
      <3>3. TypeOK'
        BY <2>1, <2>2, <3>1, <3>2 DEF TypeOK
      <3>4. WorkInv'
        BY <1>1, <2>1, <2>2, <3>1 DEF WorkInv
      <3> QED BY <3>3, <3>4
    <2>3. CASE /\ at[a] \in {"profile", "limited"}
               /\ at' = [at EXCEPT ![a] = "unlimited"]
               /\ left' = [left EXCEPT ![a] = 0]
               /\ UNCHANGED <<answer, wasted>>
      <3>1. /\ at' \in [Askers -> Places] /\ at'[a] = "unlimited"
            /\ \A b \in Askers \ {a} : at'[b] = at[b]
            /\ left' \in [Prefetches -> Nat]
            /\ \A q \in Prefetches \ {a} : left'[q] = left[q]
        BY <2>3 DEF TypeOK, Places
      <3>2. TypeOK'
        BY <2>1, <2>3, <3>1 DEF TypeOK
      <3>3. WorkInv'
        BY <1>1, <2>1, <2>3, <3>1 DEF WorkInv
      <3> QED BY <3>2, <3>3
    <2> QED BY <1>3, <2>2, <2>3 DEF Lose
  <1> QED BY <1>2, <1>3

LEMMA AccountTypes ==
  ASSUME TypeOK, WorkInv, SignIn \/ SessionEnds \/ Purchase
  PROVE  TypeOK' /\ WorkInv'
  <1>1. CASE SignIn
    <2>1. at' = [a \in Askers |-> IF at[a] = "asking" THEN "refused"
                                 ELSE IF at[a] = "profile" THEN "unlimited" ELSE at[a]]
      BY <1>1 DEF SignIn
    <2>2. \A a \in Askers : \/ (at[a] = "asking" /\ at'[a] = "refused")
                           \/ (at[a] = "profile" /\ at'[a] = "unlimited")
                           \/ at'[a] = at[a]
      BY <2>1
    <2>3. at \in [Askers -> Places] /\ at' \in [Askers -> Places]
      BY <2>1, <2>2 DEF TypeOK, Places
    <2>4. signedIn' \in BOOLEAN /\ news' \in BOOLEAN
      BY <1>1 DEF SignIn
    <2>5. UNCHANGED <<run, pool, left, answer, got, issued, wasted, faults>>
          /\ credits' \in 0..(Credits - issued)
      BY <1>1 DEF SignIn
    <2>6. TypeOK'
      BY <2>2, <2>3, <2>4, <2>5 DEF TypeOK
    <2>7. WorkInv'
      BY <2>2, <2>5 DEF WorkInv, Askers
    <2> QED BY <2>6, <2>7
  <1>2. CASE SessionEnds
    <2>1. signedIn' \in BOOLEAN /\ news' \in BOOLEAN
      BY <1>2 DEF SessionEnds
    <2>2. credits' \in 0..(Credits - issued)
      BY <1>2, SizesAssumption DEF SessionEnds, TypeOK
    <2> QED BY <1>2, <2>1, <2>2 DEF SessionEnds, TypeOK, WorkInv
  <1>3. CASE Purchase
    BY <1>3, SizesAssumption DEF Purchase, TypeOK, WorkInv
  <1> QED BY <1>1, <1>2, <1>3

LEMMA RestartTypes ==
  ASSUME TypeOK, WorkInv, Restart
  PROVE  TypeOK' /\ WorkInv'
  <1> DEFINE asked == {a \in Askers : at[a] = "asking"}
  <1>1. Cardinality(asked) \in Nat
    BY AskersAssumption, FS_Subset, FS_CardinalityType
  <1> HIDE DEF asked
  <1>2. PICK n \in 0..Cardinality(asked) :
          /\ n <= credits
          /\ issued' = issued + n /\ credits' = credits - n
          /\ wasted' = wasted \cup ({answer[a] : a \in Askers} \ {0})
                              \cup (issued + 1)..(issued + n)
    BY DEF Restart, asked
  <1>3. PICK p \in Prefetches :
          /\ Fresh(p)
          /\ at' = [a \in Askers |->
                     IF a = p THEN "profile"
                     ELSE IF at[a] \notin {"idle", "done", "failed"} THEN "failed" ELSE at[a]]
    BY DEF Restart
  <1>4. \A b \in Calls \cup Prefetches : b \in Askers
    BY DEF Askers
  <1>5. p \notin Calls
    BY AskersAssumption
  <1>6. n \in Nat /\ issued \in Nat /\ issued' \in 0..Credits /\ credits' \in 0..(Credits - issued')
    BY <1>1, <1>2, SizesAssumption DEF TypeOK
  <1>9. wasted' \subseteq 1..Credits
    <2> SUFFICES ASSUME NEW t \in wasted' PROVE t \in 1..Credits
      OBVIOUS
    <2>1. CASE t \in wasted
      BY <2>1 DEF TypeOK
    <2>2. CASE \E a \in Askers : t = answer[a] /\ t # 0
      BY <2>2, SizesAssumption DEF TypeOK
    <2>3. CASE t \in (issued + 1)..(issued + n)
      BY <1>2, <1>6, <2>3, SizesAssumption
    <2> QED BY <1>2, <2>1, <2>2, <2>3
  <1>7. /\ at' \in [Askers -> Places] /\ \A a \in Askers : at'[a] # "signed"
        /\ \A c \in Calls : at[c] = "done" => at'[c] = "done"
        /\ \A q \in Prefetches : at'[q] \in {"idle", "profile", "done", "failed"}
    BY <1>3, <1>4, <1>5 DEF TypeOK, Places
  <1>8. run' \in 1..MaxRuns
    BY SizesAssumption DEF Restart, TypeOK
  <1>10. /\ UNCHANGED <<pool, got, signedIn, faults>> /\ news' = FALSE
         /\ answer' = [a \in Askers |-> 0] /\ left' = [q \in Prefetches |-> 0]
    BY DEF Restart
  <1>13. signedIn' \in BOOLEAN /\ news' \in BOOLEAN
    BY <1>10 DEF TypeOK
  <1>14. /\ answer' \in [Askers -> 0..Credits] /\ left' \in [Prefetches -> Nat]
         /\ \A a \in Askers : (at'[a] = "signed") <=> (answer'[a] # 0)
    BY <1>7, <1>10, SizesAssumption
  <1>11. TypeOK'
    BY <1>6, <1>7, <1>8, <1>9, <1>10, <1>13, <1>14 DEF TypeOK
  <1>12. WorkInv'
    BY <1>7, <1>10 DEF WorkInv
  <1> QED BY <1>11, <1>12

LEMMA TypesStay ==
  ASSUME TypeOK, WorkInv, [Next]_vars PROVE TypeOK' /\ WorkInv'
  <1>1. CASE UNCHANGED vars
    BY <1>1 DEF vars, TypeOK, WorkInv
  <1> QED
    BY <1>1, TakePooledTypes, ReturnSignedTypes, StartWithProfileTypes, AskerTypes,
       PrefetchTypes, NetworkTypes, AccountTypes, RestartTypes
    DEF Next, GenerateToken, Prefetch, Done

-------------------------------------------------------------------------------
(* Moves.                                                                  *)

LEMMA Zeroes == \A a \in Askers : TypeOK /\ at[a] # "signed" => answer[a] = 0
  BY DEF TypeOK

(* From the pool to a call.                                                *)
LEMMA TakePooledMoves ==
  ASSUME IInv, NEW c \in Calls, TakePooled(c) PROVE PlacesInv'
  <1> DEFINE h == pool[1]
  <1>1. /\ Len(pool) \in Nat \ {0} /\ Len(pool') = Len(pool) - 1
        /\ Head(pool) = h /\ h \in 1..Credits
        /\ \A i \in 1..Len(pool') : pool'[i] = pool[i + 1]
    <2>1. pool \in Seq(1..Credits) /\ pool # <<>> /\ pool' = Tail(pool)
      BY DEF IInv, TypeOK, TakePooled
    <2>2. Len(pool) \in Nat \ {0} /\ pool \in [1..Len(pool) -> 1..Credits]
      BY <2>1, LenProperties, EmptySeq
    <2>3. h \in 1..Credits
      BY <2>2
    <2>4. Head(pool) = h
      BY <2>1
    <2>5. /\ Len(pool') = Len(pool) - 1
          /\ \A i \in 1..Len(pool') : pool'[i] = pool[i + 1]
      BY <2>1, HeadTailProperties
    <2> QED BY <2>2, <2>3, <2>4, <2>5
  <1>2. /\ got[c] = 0 /\ got'[c] = h /\ \A d \in Calls \ {c} : got'[d] = got[d]
        /\ UNCHANGED <<answer, wasted, issued>>
    BY <1>1 DEF TakePooled, IInv, TypeOK, WorkInv
  <1> HIDE DEF h
  <1>3. h \in Pooled /\ h # 0
    BY <1>1 DEF Pooled, h
  <1>4. Pooled' \subseteq Pooled \ {h}
    <2> SUFFICES ASSUME NEW i \in 1..Len(pool') PROVE pool'[i] \in Pooled \ {h}
      BY DEF Pooled
    <2>1. i + 1 \in 1..Len(pool) /\ 1 \in 1..Len(pool) /\ i + 1 # 1
      BY <1>1
    <2> QED BY <1>1, <2>1 DEF Pooled, IInv, PlacesInv, OnceEach, h
  <1>5. Pooled \subseteq Pooled' \cup {h}
    <2> SUFFICES ASSUME NEW i \in 1..Len(pool), i # 1 PROVE pool[i] \in Pooled'
      BY DEF Pooled, h
    <2>1. i - 1 \in 1..Len(pool') /\ (i - 1) + 1 = i
      BY <1>1
    <2>2. pool'[i - 1] = pool[i]
      BY <1>1, <2>1
    <2> QED BY <2>1, <2>2 DEF Pooled
  <1>6. Returned' = Returned \cup {h}
    BY <1>2, <1>3 DEF Returned
  <1>7. Travelling' = Travelling
    BY <1>2 DEF Travelling
  <1>8. OnceEach'
    <2>1. \A i, j \in 1..Len(pool') : pool'[i] = pool'[j] => i = j
      <3> SUFFICES ASSUME NEW i \in 1..Len(pool'), NEW j \in 1..Len(pool'), pool'[i] = pool'[j]
                   PROVE  i = j
        OBVIOUS
      <3>1. i + 1 \in 1..Len(pool) /\ j + 1 \in 1..Len(pool) /\ pool[i + 1] = pool[j + 1]
        BY <1>1
      <3>2. i + 1 = j + 1
        BY <3>1 DEF IInv, PlacesInv, OnceEach
      <3> QED BY <1>1, <3>2
    <2>2. \A d \in Calls \ {c} : got[d] # h
      BY <1>3 DEF IInv, PlacesInv, Apart, Returned
    <2> QED BY <1>2, <2>1, <2>2 DEF IInv, PlacesInv, OnceEach
  <1>9. Apart(Pooled, Returned, Travelling, wasted)'
    BY <1>2, <1>3, <1>4, <1>6, <1>7 DEF IInv, PlacesInv, Apart
  <1>10. (1..issued)' = (Pooled \cup Returned \cup Travelling \cup wasted)'
    BY <1>2, <1>3, <1>4, <1>5, <1>6, <1>7 DEF IInv, PlacesInv
  <1> QED BY <1>8, <1>9, <1>10 DEF PlacesInv

(* From the server's answer to a call.                                     *)
LEMMA ReturnSignedMoves ==
  ASSUME IInv, NEW c \in Calls, ReturnSigned(c) PROVE PlacesInv'
  <1> DEFINE t == answer[c]
  <1>1. c \in Askers
    BY DEF Askers
  <1>2. /\ got[c] = 0 /\ got'[c] = t /\ \A d \in Calls \ {c} : got'[d] = got[d]
        /\ t # 0 /\ answer'[c] = 0 /\ \A a \in Askers \ {c} : answer'[a] = answer[a]
        /\ UNCHANGED <<pool, wasted, issued>>
    BY <1>1 DEF ReturnSigned, IInv, TypeOK, WorkInv
  <1>3. t \in Travelling
    BY <1>1, <1>2 DEF Travelling
  <1>4. \A a \in Askers \ {c} : answer[a] # t
    BY <1>1, <1>2 DEF IInv, PlacesInv, OnceEach
  <1> HIDE DEF t
  <1>5. Returned' = Returned \cup {t}
    BY <1>2 DEF Returned
  <1>6. Travelling' = Travelling \ {t}
    BY <1>1, <1>2, <1>4 DEF Travelling, t
  <1>7. Pooled' = Pooled
    BY <1>2 DEF Pooled
  <1>8. OnceEach'
    <2>1. \A d \in Calls \ {c} : got[d] # t
      BY <1>2, <1>3 DEF IInv, PlacesInv, Apart, Returned
    <2> QED BY <1>2, <2>1 DEF IInv, PlacesInv, OnceEach
  <1>9. Apart(Pooled, Returned, Travelling, wasted)'
    BY <1>2, <1>3, <1>5, <1>6, <1>7 DEF IInv, PlacesInv, Apart
  <1>10. (1..issued)' = (Pooled \cup Returned \cup Travelling \cup wasted)'
    BY <1>2, <1>3, <1>5, <1>6, <1>7 DEF IInv, PlacesInv
  <1> QED BY <1>8, <1>9, <1>10 DEF PlacesInv

(* From the server's answer to the pool.                                   *)
LEMMA AddToPoolMoves ==
  ASSUME IInv, NEW p \in Prefetches, AddToPool(p) PROVE PlacesInv'
  <1> DEFINE t == answer[p]
  <1>1. p \in Askers
    BY DEF Askers
  <1>2. /\ t \in 1..Credits
        /\ answer'[p] = 0 /\ \A a \in Askers \ {p} : answer'[a] = answer[a]
        /\ UNCHANGED <<got, wasted, issued>>
    BY <1>1 DEF AddToPool, IInv, TypeOK
  <1>3. /\ Len(pool) \in Nat /\ Len(pool') = Len(pool) + 1 /\ pool'[Len(pool')] = t
        /\ \A i \in 1..Len(pool) : pool'[i] = pool[i]
    <2>1. pool \in Seq(1..Credits) /\ pool' = Append(pool, t)
      BY DEF IInv, TypeOK, AddToPool
    <2> QED BY <1>2, <2>1, AppendProperties, LenProperties
  <1>4. t \in Travelling /\ \A a \in Askers \ {p} : answer[a] # t
    BY <1>1, <1>2 DEF Travelling, IInv, PlacesInv, OnceEach
  <1>5. t \notin Pooled
    BY <1>4 DEF IInv, PlacesInv, Apart
  <1>6. Travelling' = Travelling \ {t}
    BY <1>1, <1>2, <1>4 DEF Travelling
  <1> HIDE DEF t
  <1>11. \A i \in 1..Len(pool') : i \in 1..Len(pool) \/ i = Len(pool')
    BY <1>3
  <1>12. 1..Len(pool) \subseteq 1..Len(pool') /\ Len(pool') \in 1..Len(pool')
    BY <1>3
  <1>7. Pooled' = Pooled \cup {t}
    BY <1>3, <1>11, <1>12 DEF Pooled
  <1>8. Returned' = Returned
    BY <1>2 DEF Returned
  <1>9. OnceEach'
    <2>1. \A i \in 1..Len(pool) : pool[i] # t
      BY <1>5 DEF Pooled
    <2>2. \A i, j \in 1..Len(pool') : pool'[i] = pool'[j] => i = j
      BY <1>3, <1>11, <2>1 DEF IInv, PlacesInv, OnceEach
    <2> QED BY <1>2, <2>2 DEF IInv, PlacesInv, OnceEach
  <1>10. Apart(Pooled, Returned, Travelling, wasted)'
    BY <1>2, <1>4, <1>6, <1>7, <1>8 DEF IInv, PlacesInv, Apart
  <1>13. (1..issued)' = (Pooled \cup Returned \cup Travelling \cup wasted)'
    BY <1>2, <1>4, <1>6, <1>7, <1>8 DEF IInv, PlacesInv
  <1> QED BY <1>9, <1>10, <1>13 DEF PlacesInv

(* From the server to an answer, or nothing moves.                         *)
LEMMA SignOneMoves ==
  ASSUME IInv, NEW a \in Askers, SignOne(a) PROVE PlacesInv'
  <1>1. CASE UNCHANGED <<issued, answer>>
    BY <1>1 DEF SignOne, IInv, PlacesInv, OnceEach, Pooled, Returned, Travelling
  <1>2. CASE credits > 0 /\ issued' = issued + 1
             /\ answer' = [answer EXCEPT ![a] = issued + 1]
    <2> DEFINE t == issued + 1
    <2>1. issued \in Nat /\ t # 0 /\ t \notin 1..issued /\ 1..t = (1..issued) \cup {t}
      BY SizesAssumption DEF IInv, TypeOK
    <2>2. /\ answer[a] = 0 /\ answer'[a] = t
          /\ \A b \in Askers \ {a} : answer'[b] = answer[b]
          /\ UNCHANGED <<pool, got, wasted>>
      BY <1>2 DEF SignOne, IInv, TypeOK
    <2> HIDE DEF t
    <2>3. t \notin Pooled /\ t \notin Returned /\ t \notin Travelling /\ t \notin wasted
      BY <2>1 DEF IInv, PlacesInv
    <2>4. Travelling' = Travelling \cup {t}
      BY <2>1, <2>2 DEF Travelling
    <2>5. Pooled' = Pooled /\ Returned' = Returned
      BY <2>2 DEF Pooled, Returned
    <2>6. OnceEach'
      <3>1. \A b \in Askers \ {a} : answer[b] # t
        BY <2>1, <2>3 DEF Travelling
      <3> QED BY <2>2, <3>1 DEF IInv, PlacesInv, OnceEach
    <2>7. Apart(Pooled, Returned, Travelling, wasted)'
      BY <2>2, <2>3, <2>4, <2>5 DEF IInv, PlacesInv, Apart
    <2>8. (1..issued)' = (Pooled \cup Returned \cup Travelling \cup wasted)'
      BY <1>2, <2>1, <2>2, <2>4, <2>5 DEF IInv, PlacesInv, t
    <2> QED BY <2>6, <2>7, <2>8 DEF PlacesInv
  <1> QED BY <1>1, <1>2 DEF SignOne

(* From an answer to nobody, or nothing moves.                             *)
LEMMA LoseMoves ==
  ASSUME IInv, NEW a \in Askers, Lose(a) PROVE PlacesInv'
  <1>1. CASE UNCHANGED <<answer, wasted>>
    BY <1>1 DEF Lose, IInv, PlacesInv, OnceEach, Pooled, Returned, Travelling
  <1>2. CASE wasted' = wasted \cup ({answer[a]} \ {0}) /\ answer' = [answer EXCEPT ![a] = 0]
    <2> DEFINE L == {answer[a]} \ {0}
    <2>1. /\ answer'[a] = 0 /\ \A b \in Askers \ {a} : answer'[b] = answer[b]
          /\ UNCHANGED <<pool, got, issued>>
      BY <1>2 DEF Lose, IInv, TypeOK
    <2>2. L \subseteq Travelling /\ \A b \in Askers \ {a} : answer[b] \notin L
      BY DEF Travelling, IInv, PlacesInv, OnceEach
    <2>3. Travelling' = Travelling \ L
      BY <2>1, <2>2 DEF Travelling
    <2>4. Pooled' = Pooled /\ Returned' = Returned /\ wasted' = wasted \cup L
      BY <1>2, <2>1 DEF Pooled, Returned
    <2> HIDE DEF L
    <2>5. OnceEach'
      BY <2>1 DEF IInv, PlacesInv, OnceEach
    <2>6. Apart(Pooled, Returned, Travelling, wasted)'
      BY <2>2, <2>3, <2>4 DEF IInv, PlacesInv, Apart
    <2>7. (1..issued)' = (Pooled \cup Returned \cup Travelling \cup wasted)'
      BY <2>1, <2>2, <2>3, <2>4 DEF IInv, PlacesInv
    <2> QED BY <2>5, <2>6, <2>7 DEF PlacesInv
  <1> QED BY <1>1, <1>2 DEF Lose

(* From all answers, and from the server, to nobody.                       *)
LEMMA RestartMoves ==
  ASSUME IInv, Restart PROVE PlacesInv'
  <1> DEFINE asked == {a \in Askers : at[a] = "asking"}
  <1>1. Cardinality(asked) \in Nat
    BY AskersAssumption, FS_Subset, FS_CardinalityType
  <1> HIDE DEF asked
  <1>2. PICK n \in 0..Cardinality(asked) :
          /\ issued' = issued + n
          /\ wasted' = wasted \cup ({answer[a] : a \in Askers} \ {0})
                              \cup (issued + 1)..(issued + n)
    BY DEF Restart, asked
  <1>3. n \in Nat /\ issued \in Nat
    BY <1>1, SizesAssumption DEF IInv, TypeOK
  <1> DEFINE New == (issued + 1)..(issued + n)
  <1>4. New \cap 1..issued = {} /\ 1..(issued + n) = (1..issued) \cup New
    BY <1>3
  <1>5. wasted' = wasted \cup Travelling \cup New
    BY <1>2 DEF Travelling
  <1> HIDE DEF New
  <1>6. UNCHANGED <<pool, got>> /\ answer' = [a \in Askers |-> 0]
    BY DEF Restart
  <1>7. Pooled' = Pooled /\ Returned' = Returned /\ Travelling' = {}
    BY <1>6 DEF Pooled, Returned, Travelling
  <1>8. OnceEach'
    BY <1>6 DEF IInv, PlacesInv, OnceEach
  <1>9. Apart(Pooled, Returned, Travelling, wasted)'
    BY <1>4, <1>5, <1>7 DEF IInv, PlacesInv, Apart
  <1>10. (1..issued)' = (Pooled \cup Returned \cup Travelling \cup wasted)'
    BY <1>2, <1>4, <1>5, <1>7 DEF IInv, PlacesInv
  <1> QED BY <1>8, <1>9, <1>10 DEF PlacesInv

LEMMA NothingMoves ==
  ASSUME IInv, UNCHANGED <<pool, answer, got, issued, wasted>> PROVE PlacesInv'
  <1>1. Pooled' = Pooled /\ Returned' = Returned /\ Travelling' = Travelling
    BY DEF Pooled, Returned, Travelling
  <1>2. OnceEach'
    BY DEF IInv, PlacesInv, OnceEach
  <1>3. Apart(Pooled, Returned, Travelling, wasted)'
    BY <1>1 DEF IInv, PlacesInv, Apart
  <1>4. (1..issued)' = (Pooled \cup Returned \cup Travelling \cup wasted)'
    BY <1>1 DEF IInv, PlacesInv
  <1> QED BY <1>2, <1>3, <1>4 DEF PlacesInv

LEMMA Inductive == Spec => []IInv
  <1>1. Init => IInv
    <2> SUFFICES ASSUME Init PROVE IInv
      OBVIOUS
    <2>1. /\ pool = <<>> /\ Len(pool) = 0 /\ pool \in Seq(1..Credits)
      BY DEF Init
    <2>5. PICK p \in Prefetches :
            at = [a \in Askers |-> IF a = p THEN "profile" ELSE "idle"]
      BY DEF Init
    <2>9. credits \in 0..Credits \/ credits \in 0..0
      <3>1. credits \in 0..(IF signedIn THEN Credits ELSE 0)
        BY DEF Init
      <3>2. CASE signedIn
        BY <3>1, <3>2
      <3>3. CASE ~signedIn
        BY <3>1, <3>3
      <3> QED BY <3>2, <3>3
    <2>10. credits \in 0..(Credits - issued)
      BY <2>9, SizesAssumption DEF Init
    <2>8. signedIn \in BOOLEAN /\ news \in BOOLEAN /\ credits \in 0..(Credits - issued)
      BY <2>10 DEF Init
    <2>6. TypeOK
      BY <2>1, <2>5, <2>8, SizesAssumption DEF Init, TypeOK, Places
    <2>7. \A q \in Prefetches : q \in Askers
      BY DEF Askers
    <2>2. WorkInv
      BY <2>5, <2>7 DEF Init, WorkInv
    <2>3. Pooled = {} /\ Returned = {} /\ Travelling = {} /\ wasted = {} /\ 1..issued = {}
      BY <2>1 DEF Init, Pooled, Returned, Travelling
    <2>4. OnceEach
      BY <2>1 DEF Init, OnceEach
    <2> QED BY <2>2, <2>3, <2>4, <2>6 DEF IInv, PlacesInv, Apart, Init
  <1>2. IInv /\ [Next]_vars => IInv'
    <2> SUFFICES ASSUME IInv, [Next]_vars PROVE IInv'
      OBVIOUS
    <2>1. TypeOK' /\ WorkInv'
      BY TypesStay DEF IInv
    <2>2. PlacesInv'
      <3>1. CASE \E c \in Calls : AskForOne(c) \/ Throw(c)
        BY <3>1, NothingMoves DEF AskForOne, Throw
      <3>2. CASE \E p \in Prefetches : \/ StartWithProfile(p) \/ SkipOne(p)
                                      \/ Resume(p) \/ SendProfile(p)
        BY <3>2, NothingMoves DEF StartWithProfile, SkipOne, Resume, SendProfile
      <3>3. CASE SignIn \/ SessionEnds \/ Purchase \/ Done \/ UNCHANGED vars
        BY <3>3, NothingMoves DEF SignIn, SessionEnds, Purchase, Done, vars
      <3> QED
        BY <3>1, <3>2, <3>3, TakePooledMoves, ReturnSignedMoves, AddToPoolMoves,
           SignOneMoves, LoseMoves, RestartMoves
        DEF Next, GenerateToken, Prefetch
    <2> QED BY <2>1, <2>2 DEF IInv
  <1> QED BY <1>1, <1>2, PTL DEF Spec

-------------------------------------------------------------------------------

(* Every variable has the shape the code gives it.                         *)
THEOREM TypeCorrect == Spec => []TypeOK
  <1>1. IInv => TypeOK
    BY DEF IInv
  <1> QED BY <1>1, Inductive, PTL

LEMMA CountOne ==
  ASSUME NEW S, NEW x \in S, \A y \in S : y = x PROVE Cardinality(S) = 1
  <1>1. S = {x}
    OBVIOUS
  <1> QED BY <1>1, FS_Singleton

(* A token that cost a credit is pooled, returned, on its way or lost, in  *)
(* one of these places and once, for every number of calls, prefetches and *)
(* restarts of the app.                                                    *)
THEOREM EveryTokenHasItsPlace == Spec => []TokensHaveOnePlace
  <1>1. IInv => TokensHaveOnePlace
    <2> SUFFICES ASSUME IInv, NEW t \in 1..issued
                 PROVE  Cardinality({i \in 1..Len(pool) : pool[i] = t})
                          + Cardinality({c \in Calls : got[c] = t})
                          + Cardinality({a \in Askers : answer[a] = t})
                          + Cardinality(wasted \cap {t}) = 1
      BY DEF TokensHaveOnePlace
    <2> DEFINE P == {i \in 1..Len(pool) : pool[i] = t}
               R == {c \in Calls : got[c] = t}
               T == {a \in Askers : answer[a] = t}
               W == wasted \cap {t}
    <2>1. t # 0
      BY SizesAssumption DEF IInv, TypeOK
    <2>2. t \in Pooled => Cardinality(P) = 1
      <3> SUFFICES ASSUME NEW i \in 1..Len(pool), pool[i] = t PROVE Cardinality(P) = 1
        BY DEF Pooled
      <3>1. i \in P /\ \A j \in P : j = i
        BY DEF IInv, PlacesInv, OnceEach
      <3> HIDE DEF P
      <3> QED BY <3>1, CountOne
    <2>3. t \in Returned => Cardinality(R) = 1
      <3> SUFFICES ASSUME NEW c \in Calls, got[c] = t PROVE Cardinality(R) = 1
        BY DEF Returned
      <3>1. c \in R /\ \A d \in R : d = c
        BY <2>1 DEF IInv, PlacesInv, OnceEach
      <3> HIDE DEF R
      <3> QED BY <3>1, CountOne
    <2>4. t \in Travelling => Cardinality(T) = 1
      <3> SUFFICES ASSUME NEW a \in Askers, answer[a] = t PROVE Cardinality(T) = 1
        BY DEF Travelling
      <3>1. a \in T /\ \A b \in T : b = a
        BY <2>1 DEF IInv, PlacesInv, OnceEach
      <3> HIDE DEF T
      <3> QED BY <3>1, CountOne
    <2>5. t \in wasted => Cardinality(W) = 1
      <3> SUFFICES ASSUME t \in wasted PROVE Cardinality(W) = 1
        OBVIOUS
      <3>1. t \in W /\ \A u \in W : u = t
        OBVIOUS
      <3> HIDE DEF W
      <3> QED BY <3>1, CountOne
    <2>6. /\ t \notin Pooled => P = {}
          /\ t \notin Returned => R = {}
          /\ t \notin Travelling => T = {}
          /\ t \notin wasted => W = {}
      BY <2>1 DEF Pooled, Returned, Travelling
    <2> HIDE DEF P, R, T, W
    <2>7. /\ t \in Pooled \cup Returned \cup Travelling \cup wasted
          /\ Apart(Pooled, Returned, Travelling, wasted)
      BY DEF IInv, PlacesInv
    <2>8. Cardinality({}) = 0
      BY FS_EmptySet
    <2>9. Cardinality(P) + Cardinality(R) + Cardinality(T) + Cardinality(W) = 1
      <3>1. CASE t \in Pooled
        BY <2>2, <2>6, <2>7, <2>8, <3>1 DEF Apart
      <3>2. CASE t \in Returned
        BY <2>3, <2>6, <2>7, <2>8, <3>2 DEF Apart
      <3>3. CASE t \in Travelling
        BY <2>4, <2>6, <2>7, <2>8, <3>3 DEF Apart
      <3>4. CASE t \in wasted
        BY <2>5, <2>6, <2>7, <2>8, <3>4 DEF Apart
      <3> QED BY <2>7, <3>1, <3>2, <3>3, <3>4
    <2> QED BY <2>9 DEF P, R, T, W
  <1> QED BY <1>1, Inductive, PTL
-------------------------------------------------------------------------------
(* The refills.                                                            *)

(* The prefetch p will not end before the pool is filled, or all credits   *)
(* are spent: what it has yet to ask for is enough.                        *)
Filling(p) == ~Low(Len(pool) + left[p])
Spending(p) == left[p] >= credits
Fills(p) ==
  \/ at[p] = "profile"
  \/ at[p] = "limited" /\ Spending(p)
  \/ at[p] \in {"asking", "pausing"} /\ (Filling(p) \/ Spending(p))
  \/ at[p] = "signed" /\ (Filling(p) \/ left[p] > credits)

(* A user who is signed in, since before the last prefetch was started, is *)
(* refused only for want of credits, and has none from then on.            *)
Due == signedIn /\ ~news /\ Low(Len(pool)) /\ credits > 0
RefillInv == faults = 0 /\ Due => \E p \in Prefetches : Fills(p)

LEMMA InitRefill == Init => RefillInv
  BY DEF Init, RefillInv, Due, Fills, Askers

(* A prefetch that starts asks for enough, or there is nothing to ask for. *)
LEMMA StartFills ==
  ASSUME IInv, NEW p \in Prefetches, NEW f \in [Askers -> Places], NEW size \in Nat,
         NEW limit \in Nat, limit = Unlimited \/ limit >= credits,
         StartPrefetch(p, f, size, limit), Low(size), credits > 0
  PROVE  at'[p] = "asking" /\ left'[p] \in Nat
           /\ (~Low(size + left'[p]) \/ left'[p] >= credits)
  <1> DEFINE n == Needed(size, limit)
  <1>1. credits \in Nat /\ TOKEN_POOL_SIZE \in Nat
    BY SizesAssumption DEF IInv, TypeOK
  <1>2. n \in Nat /\ n > 0 /\ (~Low(size + n) \/ n >= credits)
    BY <1>1 DEF Needed, Low, Unlimited
  <1>3. at' = [f EXCEPT ![p] = IF n > 0 THEN "asking" ELSE "done"] /\ left' = [left EXCEPT ![p] = n]
    BY DEF StartPrefetch
  <1> HIDE DEF n
  <1>4. at'[p] = "asking" /\ left'[p] = n
    BY <1>2, <1>3 DEF IInv, TypeOK, Askers
  <1> QED BY <1>2, <1>4

LEMMA FillsStays ==
  ASSUME IInv, IInv', NEW p \in Prefetches, Fills(p), at'[p] = at[p], left'[p] = left[p],
         Len(pool') >= Len(pool), credits' <= credits
  PROVE  Fills(p)'
  <1>1. left[p] \in Nat /\ credits \in Nat /\ credits' \in Nat /\ TOKEN_POOL_SIZE \in Nat
    BY SizesAssumption DEF IInv, TypeOK
  <1>2. Len(pool) \in Nat /\ Len(pool') \in Nat
    BY LenProperties DEF IInv, TypeOK
  <1>3. Filling(p) => Filling(p)'
    BY <1>1, <1>2 DEF Filling, Low
  <1>4. Spending(p) => Spending(p)'
    BY <1>1 DEF Spending
  <1>5. left[p] > credits => left'[p] > credits'
    BY <1>1
  <1> QED BY <1>3, <1>4, <1>5 DEF Fills

LEMMA CallsRefill ==
  ASSUME IInv, IInv', RefillInv, faults = 0, NEW c \in Calls, GenerateToken(c), Due'
  PROVE  \E p \in Prefetches : Fills(p)'
  <1>1. c \in Askers /\ c \notin Prefetches /\ Unlimited \in Nat /\ Len(pool') \in Nat
    BY AskersAssumption, SizesAssumption, LenProperties DEF Askers, Unlimited, IInv, TypeOK
  <1>6. UNCHANGED signedIn /\ UNCHANGED credits /\ credits \in Nat
    BY SizesAssumption DEF GenerateToken, TakePooled, AskForOne, ReturnSigned, Throw, IInv, TypeOK
  <1>2. UNCHANGED <<signedIn, credits>> /\ Low(Len(pool')) /\ credits > 0 /\ credits \in Nat
    BY <1>6 DEF Due
  <1> DEFINE f == [at EXCEPT ![c] = "done"]
  <1>3. f \in [Askers -> Places]
    BY DEF IInv, TypeOK, Places
  <1> HIDE DEF f
  <1>4. CASE AskForOne(c) \/ Throw(c)
    <2>1. UNCHANGED <<pool, left, news>> /\ \A p \in Prefetches : at'[p] = at[p]
      BY <1>1, <1>4 DEF AskForOne, Throw, IInv, TypeOK, Askers
    <2>2. PICK p \in Prefetches : Fills(p)
      BY <1>2, <2>1 DEF RefillInv, Due
    <2>3. Len(pool') >= Len(pool) /\ credits' <= credits
      BY <1>1, <1>2, <2>1, SizesAssumption DEF IInv, TypeOK
    <2> QED BY <2>1, <2>2, <2>3, FillsStays
  <1>5. CASE TakePooled(c) \/ ReturnSigned(c)
    <2>1. PICK p \in Prefetches : StartPrefetch(p, f, Len(pool'), Unlimited)
      <3>1. CASE TakePooled(c) /\ Low(Len(pool'))
        BY <3>1 DEF TakePooled, f
      <3>2. CASE ReturnSigned(c)
        BY <3>2 DEF ReturnSigned, f
      <3> QED BY <1>2, <1>5, <3>1, <3>2
    <2>2. at'[p] = "asking" /\ (~Low(Len(pool') + left'[p]) \/ left'[p] >= credits)
      BY <1>1, <1>2, <1>3, <2>1, StartFills
    <2> QED BY <1>2, <2>2 DEF Fills, Filling, Spending
  <1> QED BY <1>4, <1>5 DEF GenerateToken

LEMMA PrefetchesRefill ==
  ASSUME IInv, IInv', RefillInv, faults = 0, NEW p \in Prefetches, Prefetch(p) \/ SendProfile(p), Due'
  PROVE  \E q \in Prefetches : Fills(q)'
  <1>0. UNCHANGED <<signedIn, credits, news>>
    BY DEF Prefetch, StartWithProfile, AddToPool, SkipOne, Resume, SendProfile
  <1>1. /\ p \in Askers /\ UNCHANGED <<signedIn, credits, news>> /\ signedIn /\ ~news /\ credits > 0
    BY <1>0 DEF Due, Askers
  <1>2. /\ left[p] \in Nat /\ credits \in Nat /\ TOKEN_POOL_SIZE \in Nat
        /\ Low(Len(pool')) /\ Len(pool) \in Nat /\ Len(pool') \in Nat
    BY SizesAssumption, LenProperties DEF IInv, TypeOK, Due
  <1>3. Len(pool') >= Len(pool)
    <2>1. CASE AddToPool(p)
      <3>1. answer[p] \in 1..Credits
        BY <1>1, <2>1 DEF AddToPool, IInv, TypeOK
      <3> QED BY <1>2, <2>1, <3>1, AppendProperties DEF AddToPool, IInv, TypeOK
    <2>2. CASE ~AddToPool(p)
      BY <1>2, <2>2 DEF Prefetch, StartWithProfile, SkipOne, Resume, SendProfile
    <2> QED BY <2>1, <2>2
  <1>4. \A q \in Prefetches \ {p} : at'[q] = at[q] /\ left'[q] = left[q]
    BY DEF Prefetch, StartWithProfile, StartPrefetch, AddToPool, SkipOne, GoOn, Resume, SendProfile,
           IInv, TypeOK, Askers
  <1>5. PICK q \in Prefetches : Fills(q)
    BY <1>1, <1>2, <1>3 DEF RefillInv, Due, Low
  <1>6. CASE q # p
    BY <1>1, <1>2, <1>3, <1>4, <1>5, <1>6, FillsStays
  <1>7. CASE q = p
    <2>1. CASE SendProfile(p)
      <3>1. at'[p] = "limited" /\ left'[p] = credits
        BY <1>1, <2>1 DEF SendProfile, IInv, TypeOK
      <3> QED BY <1>1, <1>2, <3>1 DEF Fills, Spending
    <2>2. CASE StartWithProfile(p)
      <3>1. /\ StartPrefetch(p, at, Len(pool), left[p]) /\ pool' = pool
            /\ left[p] >= credits /\ at \in [Askers -> Places]
        BY <1>1, <1>5, <1>7, <2>2 DEF StartWithProfile, Fills, Spending, IInv, TypeOK
      <3>2. at'[p] = "asking" /\ (~Low(Len(pool) + left'[p]) \/ left'[p] >= credits)
        BY <1>1, <1>2, <3>1, StartFills
      <3> QED BY <1>1, <3>1, <3>2 DEF Fills, Filling, Spending
    <2>3. CASE Resume(p)
      <3>1. at[p] = "pausing" /\ at'[p] = "asking" /\ UNCHANGED <<pool, left>>
        BY <1>1, <2>3 DEF Resume, IInv, TypeOK
      <3> QED BY <1>1, <1>5, <1>7, <3>1 DEF Fills, Filling, Spending
    <2>4. CASE AddToPool(p)
      <3>1. answer[p] \in 1..Credits /\ at[p] = "signed"
        BY <1>1, <2>4 DEF AddToPool, IInv, TypeOK
      <3>2. Len(pool') = Len(pool) + 1
        BY <2>4, <3>1, AppendProperties DEF AddToPool, IInv, TypeOK
      <3>3. /\ at'[p] = IF left[p] > 1 THEN "pausing" ELSE "done"
            /\ left'[p] = left[p] - 1
        BY <1>1, <2>4 DEF AddToPool, GoOn, IInv, TypeOK
      <3>4. ~Low(Len(pool) + left[p]) \/ left[p] > credits
        BY <1>5, <1>7, <3>1 DEF Fills, Filling
      <3>5. left[p] > 1
        BY <1>1, <1>2, <3>1, <3>2, <3>4 DEF Low, IInv, WorkInv
      <3>6. ~Low(Len(pool') + left'[p]) \/ left'[p] >= credits
        BY <1>2, <3>2, <3>3, <3>4 DEF Low
      <3> QED BY <1>1, <3>3, <3>5, <3>6 DEF Fills, Filling, Spending
    <2> QED BY <1>5, <1>7, <2>1, <2>2, <2>3, <2>4 DEF Prefetch, SkipOne, Fills
  <1> QED BY <1>6, <1>7

LEMMA ServerRefills ==
  ASSUME IInv, IInv', RefillInv, faults = 0, NEW a \in Askers, SignOne(a), Due'
  PROVE  \E p \in Prefetches : Fills(p)'
  <1>1. /\ credits \in Nat /\ credits' = credits - 1 /\ credits' > 0 /\ Due
        /\ at[a] = "asking" /\ at'[a] = "signed" /\ UNCHANGED <<pool, left>>
        /\ \A b \in Askers \ {a} : at'[b] = at[b]
    BY DEF SignOne, Due, IInv, TypeOK
  <1>2. PICK p \in Prefetches : Fills(p)
    BY <1>1 DEF RefillInv
  <1>3. p \in Askers /\ left[p] \in Nat /\ Len(pool) \in Nat
    BY LenProperties DEF Askers, IInv, TypeOK
  <1>4. CASE p # a
    BY <1>1, <1>2, <1>3, <1>4, FillsStays
  <1>5. CASE p = a
    BY <1>1, <1>2, <1>3, <1>5 DEF Fills, Filling, Spending
  <1> QED BY <1>4, <1>5

LEMMA NoneIsLost ==
  ASSUME IInv, [Next]_vars, faults' = 0
  PROVE  faults = 0 /\ ~(\E a \in Askers : Lose(a))
  <1>1. faults \in Nat
    BY SizesAssumption DEF IInv, TypeOK
  <1>2. (\E a \in Askers : Lose(a)) => faults' = faults + 1
    BY DEF Lose
  <1>3. (\E a \in Askers : Lose(a)) \/ faults' = faults
    BY DEF Next, vars, GenerateToken, TakePooled, AskForOne, ReturnSigned, Throw, Prefetch,
           StartWithProfile, AddToPool, SkipOne, Resume, SendProfile, SignOne, SignIn, SessionEnds,
           Purchase, Restart, Done
  <1> QED BY <1>1, <1>2, <1>3

LEMMA RefillStep ==
  ASSUME IInv, IInv', RefillInv, [Next]_vars PROVE RefillInv'
  <1> SUFFICES ASSUME faults' = 0, Due' PROVE \E p \in Prefetches : Fills(p)'
    BY DEF RefillInv
  <1>1. faults = 0 /\ ~(\E a \in Askers : Lose(a))
    BY NoneIsLost
  <1>2. CASE UNCHANGED vars
    BY <1>1, <1>2 DEF vars, RefillInv, Due, Fills, Filling, Spending
  <1>3. CASE Restart
    <2>1. PICK p \in Prefetches : at' = [a \in Askers |-> IF a = p THEN "profile" ELSE at'[a]]
      BY <1>3 DEF Restart
    <2>2. at'[p] = "profile"
      BY <2>1 DEF Askers
    <2> QED BY <2>2 DEF Fills
  <1>4. ~(SignIn \/ SessionEnds \/ Purchase)
    BY DEF SignIn, SessionEnds, Purchase, Due
  <1> QED
    BY <1>1, <1>2, <1>3, <1>4, CallsRefill, PrefetchesRefill, ServerRefills DEF Next, Done

(* However many calls take tokens, whichever prefetches run at once with   *)
(* whatever limit and wherever the app stops: as long as the network loses *)
(* nothing, a low pool of a user who is signed in and has credits has a    *)
(* prefetch at work, unless the sign-in or a purchase came after the last  *)
(* one was started.  With FairSpec this is why the pool refills.           *)
THEOREM RefillsGoOn == Spec => []RefillUnderWay
  <1>1. IInv /\ RefillInv => RefillUnderWay
    <2> SUFFICES ASSUME IInv, RefillInv, ~WellFilled
                 PROVE  \E p \in Prefetches : at[p] \notin {"idle", "done", "failed"}
      BY DEF RefillUnderWay
    <2>1. faults = 0 /\ Due
      BY DEF WellFilled, Due, IInv, TypeOK
    <2>2. PICK p \in Prefetches : Fills(p)
      BY <2>1 DEF RefillInv
    <2> QED BY <2>2 DEF Fills
  <1>2. Spec => []RefillInv
    BY InitRefill, RefillStep, Inductive, PTL DEF Spec
  <1> QED BY <1>1, <1>2, Inductive, PTL
===============================================================================
