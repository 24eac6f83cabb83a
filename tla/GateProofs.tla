----------------------------- MODULE GateProofs ------------------------------
(***************************************************************************)
(* What a request passes on its way to the vendor, in ServeRequest: the    *)
(* moderation of its content (Moderation) and the named semaphore of its   *)
(* token (Semaphore).                                                      *)
(*                                                                         *)
(* Of moderation, for any invocations, requests, chunks, analyses and      *)
(* broken calls: a verdict covers the whole request.  The argument: what   *)
(* the chunker's two indices have passed is covered, but what the last     *)
(* content it handed out still has to be looked at (CoverInv).             *)
(*                                                                         *)
(* Of the semaphore, for any number of calls and handles: that a handle    *)
(* never has two semaphores rests on the manager's mutex (ManagerInv,      *)
(* FreshInv); that one semaphore never serves two calls, on the unit each  *)
(* call that was let through accounts for (OwnerInv).  With no unit taken  *)
(* for nobody (UnitsInv) and a ticket exactly for those who came to a      *)
(* semaphore (ArrivedInv), it implements the line of FairLine.             *)
(***************************************************************************)
EXTENDS Semaphore, Moderation, SequenceTheorems, TLAPS

-------------------------------------------------------------------------------
(* Moderation.                                                             *)

(* What the chunker has handed out: the messages it has left behind, and   *)
(* the parts of the one it is at.                                          *)
PartsPassed(msg, n) == UNION {ToSet(msg.parts[j].chunks) : j \in 1..(n - 1)}
MessagesPassed(q, n) == UNION {ChunksOf(q[i]) : i \in 1..(n - 1)}
InParts(m) == HasNext(m) /\ Message(m).kind = "parts"
HandedOut(m) ==
  MessagesPassed(msgs[m], idx[m])
    \cup IF InParts(m) THEN PartsPassed(Message(m), partIdx[m]) ELSE {}

Covered(m, c) ==
  c \in Chunks /\ \E a \in known[c] : \A k \in Categories : a[k] <= verdict[m][k]

(* The types the argument needs. *)
ModTypes ==
  /\ stage \in [Moderations -> {"idle"} \cup Working \cup Over]
  /\ msgs \in [Moderations -> Requests \cup {<<>>}]
  /\ idx \in [Moderations -> Nat \ {0}] /\ partIdx \in [Moderations -> Nat \ {0}]
  /\ todo \in [Moderations -> Seq(Chunks)]
  /\ found \in [Moderations -> Analysis] /\ verdict \in [Moderations -> Analysis]
  /\ known \in [Chunks -> SUBSET Analysis]
  /\ cache \in [Chunks -> Analysis \cup {None}]
  /\ late \subseteq Chunks \X Analysis

(* Where the two indices may be, and what is left of the last content.     *)
WalkInv ==
  \A m \in Moderations :
    /\ idx[m] <= Len(msgs[m]) + 1
    /\ partIdx[m] # 1 => InParts(m) /\ partIdx[m] <= Len(Message(m).parts)
    /\ stage[m] \in {"idle", "next", "done"} => todo[m] = <<>>
    /\ stage[m] \in {"looking", "analyzing", "saving"} => todo[m] # <<>>
    /\ stage[m] = "idle" => msgs[m] = <<>>
    /\ stage[m] = "done" => ~HasNext(m)

(* Every analysis that is kept is one the vendor gave of that chunk.       *)
AnalysesAreKnown ==
  /\ \A c \in Chunks : cache[c] # None => cache[c] \in known[c]
  /\ \A w \in late : w[2] \in known[w[1]]
  /\ \A m \in Moderations : stage[m] = "saving" => found[m] \in known[Head(todo[m])]

(* What was handed out is covered, but what is still to be looked at; and  *)
(* nothing else is in the verdict.                                         *)
CoverInv ==
  \A m \in Moderations :
    /\ ToSet(todo[m]) \subseteq Content(msgs[m])
    /\ \A c \in HandedOut(m) : c \in ToSet(todo[m]) \/ Covered(m, c)
    /\ \A k \in Categories :
         \/ verdict[m][k] = 0
         \/ \E c \in Content(msgs[m]) : \E a \in known[c] : a[k] = verdict[m][k]

ModInv == ModTypes /\ WalkInv /\ AnalysesAreKnown /\ CoverInv

(* A sequence, its head and its tail. *)
LEMMA HeadAndTail ==
  ASSUME NEW S, NEW s \in Seq(S), s # <<>>
  PROVE  /\ Head(s) \in S /\ Tail(s) \in Seq(S)
         /\ ToSet(s) = {Head(s)} \cup ToSet(Tail(s))
         /\ Len(s) = 1 <=> Tail(s) = <<>>
  <1> DEFINE t == Tail(s)
  <1>1. Len(s) \in Nat \ {0} /\ Head(s) = s[1] /\ s[1] \in S
    OBVIOUS
  <1>2. t \in Seq(S) /\ Len(t) = Len(s) - 1 /\ \A i \in 1..(Len(s) - 1) : t[i] = s[i + 1]
    OBVIOUS
  <1> HIDE DEF t
  <1>3. Len(s) = 1 <=> t = <<>>
    BY <1>1, <1>2, EmptySeq
  <1>4. ASSUME NEW i \in 1..Len(s) PROVE s[i] \in {Head(s)} \cup ToSet(t)
    <2>1. CASE i # 1
      <3>1. i - 1 \in 1..Len(t) /\ t[i - 1] = s[i]
        BY <1>1, <1>2, <2>1
      <3> QED
        BY <1>2, <3>1 DEF ToSet
    <2> QED
      BY <1>1, <2>1
  <1>5. ToSet(t) \subseteq ToSet(s) /\ Head(s) \in ToSet(s)
    BY <1>1, <1>2 DEF ToSet
  <1>6. ToSet(s) = {Head(s)} \cup ToSet(t)
    BY <1>4, <1>5 DEF ToSet
  <1> QED
    BY <1>1, <1>2, <1>3, <1>6 DEF t

(* One message more, one part more. *)
LEMMA OneMore ==
  /\ \A q : \A n \in Nat \ {0} : MessagesPassed(q, n + 1) = MessagesPassed(q, n) \cup ChunksOf(q[n])
  /\ \A msg : \A n \in Nat \ {0} :
       PartsPassed(msg, n + 1) = PartsPassed(msg, n) \cup ToSet(msg.parts[n].chunks)
  /\ \A msg : PartsPassed(msg, 1) = {}
  <1> USE DEF MessagesPassed, PartsPassed
  <1>1. \A n \in Nat \ {0} : 1..(n + 1 - 1) = 1..(n - 1) \cup {n}
    OBVIOUS
  <1>2. 1..(1 - 1) = {}
    OBVIOUS
  <1> QED
    BY <1>1, <1>2

LEMMA MergeCovers ==
  ASSUME NEW v \in Analysis, NEW a \in Analysis
  PROVE  /\ MergeAnalysis(v, a) \in Analysis
         /\ \A k \in Categories :
              /\ v[k] <= MergeAnalysis(v, a)[k] /\ a[k] <= MergeAnalysis(v, a)[k]
              /\ MergeAnalysis(v, a)[k] \in {v[k], a[k]}
  BY AnalysesAssumption DEF MergeAnalysis, Analysis

LEMMA ModInitInv == ModInit => ModInv
  <1> SUFFICES ASSUME ModInit PROVE ModInv
    OBVIOUS
  <1> USE AnalysesAssumption DEF ModInit
  <1>0. Harmless \in Analysis
    BY DEF Harmless, Analysis
  <1>1. ModTypes
    BY <1>0 DEF ModTypes
  <1>2. WalkInv /\ AnalysesAreKnown
    BY DEF WalkInv, AnalysesAreKnown, HasNext
  <1>3. CoverInv
    <2> SUFFICES ASSUME NEW m \in Moderations
                 PROVE  /\ ToSet(todo[m]) = {} /\ HandedOut(m) = {}
                        /\ \A k \in Categories : verdict[m][k] = 0
      BY DEF CoverInv
    <2>1. MessagesPassed(<<>>, 1) = {}
      BY DEF MessagesPassed
    <2> QED
      BY <2>1 DEF ToSet, HandedOut, InParts, HasNext, Harmless
  <1> QED
    BY <1>1, <1>2, <1>3 DEF ModInv

(* The chunker hands out the content of a string or a part. *)
LEMMA TakeStep ==
  ASSUME ModInv, NEW m \in Moderations, NextString(m) \/ NextPart(m)
  PROVE  ModInv'
  <1> DEFINE msg == Message(m)
             chunks == IF NextString(m) THEN msg.chunks ELSE msg.parts[partIdx[m]].chunks
  <1> USE DEF ModInv, ModTypes
  <1>1. /\ stage[m] = "next" /\ HasNext(m) /\ todo[m] = <<>>
        /\ UNCHANGED <<msgs, found, verdict, cache, late, known>>
    BY DEF NextString, NextPart, WalkInv
  <1>2. msgs[m] \in Seq(Messages) /\ idx[m] \in 1..Len(msgs[m]) /\ msg \in Messages
    BY <1>1, RequestsAssumption DEF HasNext, Message
  <1>3. /\ chunks \in Seq(Chunks)
        /\ todo' = [todo EXCEPT ![m] = chunks]
        /\ MoveTo(m, IF chunks = <<>> THEN "next" ELSE "looking")
        /\ NextPart(m) => msg.kind = "parts" /\ msg.parts \in Seq(Parts) /\ msg.parts # <<>>
                          /\ partIdx[m] \in 1..Len(msg.parts)
    <2>1. CASE NextString(m)
      BY <1>1, <1>2, <2>1 DEF NextString, Take, Messages, NextPart
    <2>2. CASE NextPart(m) /\ ~NextString(m)
      <3>1. msg.kind = "parts" /\ msg.parts \in Seq(Parts) /\ msg.parts # <<>>
        BY <1>2, <2>2 DEF NextPart, Messages
      <3>2. partIdx[m] \in 1..Len(msg.parts)
        BY <3>1 DEF WalkInv
      <3>3. msg.parts[partIdx[m]] \in Parts
        BY <3>1, <3>2
      <3> QED
        BY <2>2, <3>1, <3>2, <3>3 DEF NextPart, Take, Parts
    <2> QED
      BY <2>1, <2>2
  <1> HIDE DEF msg
  <1>4. /\ idx' = [idx EXCEPT ![m] = idx'[m]] /\ idx'[m] \in Nat \ {0}
        /\ idx'[m] <= Len(msgs[m]) + 1
        /\ partIdx' = [partIdx EXCEPT ![m] = partIdx'[m]] /\ partIdx'[m] \in Nat \ {0}
        /\ partIdx'[m] # 1 => InParts(m)' /\ partIdx'[m] <= Len(Message(m)'.parts)
        /\ HandedOut(m)' \subseteq HandedOut(m) \cup ToSet(chunks)
        /\ ToSet(chunks) \subseteq ChunksOf(msg)
    <2>1. CASE NextString(m)
      <3>1. msg.kind = "string" /\ idx' = [idx EXCEPT ![m] = @ + 1] /\ partIdx' = partIdx
            /\ chunks = msg.chunks
        BY <2>1 DEF NextString, msg
      <3>2. partIdx[m] = 1
        BY <3>1 DEF WalkInv, InParts, msg
      <3>3. HandedOut(m)' \subseteq MessagesPassed(msgs[m], idx[m] + 1)
        BY <1>1, <3>1, <3>2, OneMore DEF HandedOut, HasNext, Message
      <3>4. HandedOut(m)' \subseteq HandedOut(m) \cup ChunksOf(msg)
        BY <1>2, <3>3, OneMore DEF HandedOut, Message, msg
      <3> QED
        BY <1>2, <3>1, <3>2, <3>4 DEF ChunksOf
    <2>2. CASE NextPart(m) /\ ~NextString(m)
      <3> DEFINE n == Len(msg.parts)
      <3>1. /\ msg.kind = "parts" /\ partIdx[m] \in 1..n /\ n \in Nat
            /\ Advance(m, n) /\ chunks = msg.parts[partIdx[m]].chunks
        BY <1>3, <2>2 DEF NextPart, msg
      <3>2. ToSet(chunks) \subseteq ChunksOf(msg)
        BY <3>1 DEF ChunksOf
      <3>3. HandedOut(m) = MessagesPassed(msgs[m], idx[m]) \cup PartsPassed(msg, partIdx[m])
        BY <1>1, <3>1 DEF HandedOut, InParts, msg
      <3>4. PartsPassed(msg, partIdx[m] + 1) = PartsPassed(msg, partIdx[m]) \cup ToSet(chunks)
        <4>1. partIdx[m] \in Nat \ {0}
          BY <3>1
        <4>2. PartsPassed(msg, partIdx[m] + 1)
                = PartsPassed(msg, partIdx[m]) \cup ToSet(msg.parts[partIdx[m]].chunks)
          BY <4>1, OneMore
        <4> QED
          BY <3>1, <4>2
      <3>5. CASE partIdx[m] = n
        <4>1. idx' = [idx EXCEPT ![m] = @ + 1] /\ partIdx' = [partIdx EXCEPT ![m] = 1]
          BY <3>1, <3>5 DEF Advance
        <4>2. ChunksOf(msg) = PartsPassed(msg, n + 1)
          BY <3>1 DEF ChunksOf, PartsPassed
        <4>3. HandedOut(m)' \subseteq MessagesPassed(msgs[m], idx[m] + 1)
          BY <1>1, <4>1, OneMore DEF HandedOut, HasNext, Message
        <4>4. MessagesPassed(msgs[m], idx[m] + 1) = MessagesPassed(msgs[m], idx[m]) \cup ChunksOf(msg)
          BY <1>2, OneMore DEF Message, msg
        <4>5. HandedOut(m)' \subseteq HandedOut(m) \cup ToSet(chunks)
          BY <3>3, <3>4, <3>5, <4>2, <4>3, <4>4
        <4> QED
          BY <1>2, <3>2, <4>1, <4>5
      <3>6. CASE partIdx[m] # n
        <4>1. idx' = idx /\ partIdx' = [partIdx EXCEPT ![m] = @ + 1]
          BY <3>1, <3>6 DEF Advance
        <4>2. Message(m)' = msg /\ InParts(m)'
          BY <1>1, <3>1, <4>1 DEF Message, InParts, HasNext, msg
        <4>3. HandedOut(m)' = MessagesPassed(msgs[m], idx[m]) \cup PartsPassed(msg, partIdx[m] + 1)
          BY <1>1, <4>1, <4>2 DEF HandedOut
        <4> QED
          BY <1>2, <3>1, <3>2, <3>3, <3>4, <3>6, <4>1, <4>2, <4>3
      <3> QED
        BY <3>5, <3>6
    <2> QED
      BY <2>1, <2>2
  <1>5. ToSet(chunks) \subseteq Content(msgs[m])
    BY <1>2, <1>4 DEF Content, Message, msg
  <1> HIDE DEF chunks
  <1>6. ModTypes'
    BY <1>1, <1>3, <1>4 DEF MoveTo, Working, Over
  <1>7. WalkInv'
    <2>1. \A o \in Moderations \ {m} :
             /\ idx'[o] = idx[o] /\ partIdx'[o] = partIdx[o] /\ todo'[o] = todo[o]
             /\ stage'[o] = stage[o] /\ msgs'[o] = msgs[o]
      BY <1>1, <1>3, <1>4 DEF MoveTo
    <2>2. \A o \in Moderations \ {m} :
             /\ HasNext(o)' = HasNext(o) /\ InParts(o)' = InParts(o) /\ Message(o)' = Message(o)
      BY <2>1 DEF HasNext, InParts, Message
    <2>3. /\ stage'[m] = IF chunks = <<>> THEN "next" ELSE "looking"
          /\ todo'[m] = chunks /\ msgs'[m] = msgs[m]
      BY <1>1, <1>3 DEF MoveTo
    <2> QED
      BY <1>4, <2>1, <2>2, <2>3 DEF WalkInv
  <1>8. AnalysesAreKnown'
    BY <1>1, <1>3 DEF AnalysesAreKnown, MoveTo
  <1>9. CoverInv'
    <2>1. todo'[m] = chunks /\ \A o \in Moderations \ {m} : todo'[o] = todo[o]
      BY <1>3
    <2>2. ASSUME NEW o \in Moderations \ {m} PROVE HandedOut(o)' = HandedOut(o)
      BY <1>1, <1>4, <2>2 DEF HandedOut, InParts, HasNext, Message
    <2>3. ToSet(todo[m]) = {}
      BY <1>1 DEF ToSet
    <2>4. \A o \in Moderations : ToSet(todo[o])' \subseteq Content(msgs[o])
      BY <1>5, <2>1 DEF CoverInv
    <2>5. ASSUME NEW o \in Moderations, NEW c \in HandedOut(o)'
          PROVE  c \in ToSet(todo'[o]) \/ Covered(o, c)
      <3>1. CASE o = m
        BY <1>4, <2>1, <2>3, <2>5, <3>1 DEF CoverInv
      <3>2. CASE o # m
        BY <2>1, <2>2, <2>5, <3>2 DEF CoverInv
      <3> QED
        BY <3>1, <3>2
    <2>6. \A o, c : Covered(o, c)' <=> Covered(o, c)
      BY <1>1 DEF Covered
    <2>7. \A o \in Moderations, k \in Categories :
            \/ verdict'[o][k] = 0
            \/ \E c \in Content(msgs'[o]) : \E a \in known'[c] : a[k] = verdict'[o][k]
      BY <1>1 DEF CoverInv
    <2> QED
      BY <1>1, <2>4, <2>5, <2>6, <2>7 DEF CoverInv
  <1> QED
    BY <1>6, <1>7, <1>8, <1>9

(* An analysis of the chunk in hand is merged. *)
LEMMA MergeStep ==
  ASSUME ModInv, NEW m \in Moderations, NEW c, c = Head(todo[m]), NEW a \in known[c],
         stage[m] \in {"looking", "saving"},
         Merge(m, a), UNCHANGED <<walk, known>>
  PROVE  /\ CoverInv'
         /\ verdict' \in [Moderations -> Analysis] /\ todo' \in [Moderations -> Seq(Chunks)]
         /\ stage' \in [Moderations -> {"idle"} \cup Working \cup Over]
         /\ WalkInv'
  <1> DEFINE t == Tail(todo[m])  w == MergeAnalysis(verdict[m], a)
  <1> USE DEF ModInv, ModTypes
  <1>1. /\ verdict' = [verdict EXCEPT ![m] = w] /\ todo' = [todo EXCEPT ![m] = t]
        /\ MoveTo(m, IF Len(todo[m]) = 1 THEN "next" ELSE "looking")
        /\ UNCHANGED <<msgs, idx, partIdx, known>>
    BY DEF Merge, walk
  <1>2. todo[m] \in Seq(Chunks) /\ todo[m] # <<>>
    BY DEF WalkInv
  <1>3. /\ c \in Chunks /\ t \in Seq(Chunks) /\ ToSet(todo[m]) = {c} \cup ToSet(t)
        /\ Len(todo[m]) = 1 <=> t = <<>>
    BY <1>2, HeadAndTail
  <1>6. a \in Analysis
    BY <1>3
  <1>4. /\ w \in Analysis /\ verdict[m] \in Analysis
        /\ \A k \in Categories : verdict[m][k] <= w[k] /\ a[k] <= w[k] /\ w[k] \in {verdict[m][k], a[k]}
    BY <1>6, MergeCovers
  <1> HIDE DEF t, w
  <1>5. \A o \in Moderations : HandedOut(o)' = HandedOut(o)
    BY <1>1 DEF HandedOut, InParts, HasNext, Message
  <1>7. ASSUME NEW d, Covered(m, d) PROVE Covered(m, d)'
    <2>1. PICK b \in known[d] : \A k \in Categories : b[k] <= verdict[m][k]
      BY <1>7 DEF Covered
    <2>2. d \in Chunks /\ b \in Analysis
      BY <1>7, <2>1 DEF Covered
    <2>3. ASSUME NEW k \in Categories PROVE b[k] <= w[k]
      <3>1. b[k] \in Nat /\ w[k] \in Nat /\ verdict[m][k] \in Nat
        BY <1>4, <2>2, AnalysesAssumption DEF Analysis
      <3> QED
        BY <1>4, <2>1, <3>1
    <2>4. verdict'[m] = w /\ known' = known
      BY <1>1
    <2> QED
      BY <2>1, <2>2, <2>3, <2>4 DEF Covered
  <1>8. Covered(m, c)'
    <2>1. verdict'[m] = w /\ known' = known
      BY <1>1
    <2> QED
      BY <1>3, <1>4, <1>6, <2>1 DEF Covered
  <1>9. CoverInv'
    <2> SUFFICES ASSUME NEW o \in Moderations
        PROVE  /\ ToSet(todo[o])' \subseteq Content(msgs[o])
               /\ \A d \in HandedOut(o) : d \in ToSet(todo[o])' \/ Covered(o, d)'
               /\ \A k \in Categories :
                    \/ verdict'[o][k] = 0
                    \/ \E d \in Content(msgs[o]) : \E b \in known[d] : b[k] = verdict'[o][k]
      BY <1>1, <1>5 DEF CoverInv
    <2>1. CASE o # m
      BY <1>1, <2>1 DEF CoverInv, Covered, ToSet
    <2>2. CASE o = m
      <3>1. ToSet(todo[m])' = ToSet(t) /\ verdict'[m] = w
        BY <1>1 DEF ToSet
      <3>2. c \in Content(msgs[m]) /\ ToSet(t) \subseteq Content(msgs[m])
        BY <1>3 DEF CoverInv
      <3>3. ASSUME NEW d \in HandedOut(m) PROVE d \in ToSet(t) \/ Covered(m, d)'
        BY <1>3, <1>7, <1>8, <3>3 DEF CoverInv
      <3>4. ASSUME NEW k \in Categories
            PROVE  \/ w[k] = 0
                   \/ \E d \in Content(msgs[m]) : \E b \in known[d] : b[k] = w[k]
        <4>1. CASE w[k] = verdict[m][k]
          BY <4>1 DEF CoverInv
        <4>2. CASE w[k] = a[k]
          BY <1>6, <3>2, <4>2
        <4> QED
          BY <1>4, <4>1, <4>2
      <3> QED
        BY <2>2, <3>1, <3>2, <3>3, <3>4
    <2> QED
      BY <2>1, <2>2
  <1>10. WalkInv'
    BY <1>1, <1>3 DEF WalkInv, MoveTo, HasNext, InParts, Message
  <1> QED
    BY <1>1, <1>3, <1>4, <1>9, <1>10 DEF MoveTo, Working

LEMMA ContentIsChunks ==
  ASSUME ModTypes, NEW m \in Moderations
  PROVE  Content(msgs[m]) \subseteq Chunks
  <1>1. \A msg \in Messages : ChunksOf(msg) \subseteq Chunks
    <2> SUFFICES ASSUME NEW msg \in Messages PROVE ChunksOf(msg) \subseteq Chunks
      OBVIOUS
    <2>1. \A s \in Seq(Chunks) : ToSet(s) \subseteq Chunks
      BY DEF ToSet
    <2>2. CASE msg \in [kind : {"string"}, chunks : Seq(Chunks)]
      BY <2>1, <2>2 DEF ChunksOf
    <2>3. CASE msg \in [kind : {"parts"}, parts : Seq(Parts)]
      <3>1. \A i \in 1..Len(msg.parts) : msg.parts[i].chunks \in Seq(Chunks)
        <4>1. msg.parts \in Seq(Parts)
          BY <2>3
        <4>2. \A i \in 1..Len(msg.parts) : msg.parts[i] \in Parts
          BY <4>1
        <4> QED
          BY <4>2 DEF Parts
      <3> QED
        BY <2>1, <2>3, <3>1 DEF ChunksOf
    <2> QED
      BY <2>2, <2>3 DEF Messages
  <1>2. msgs[m] \in Seq(Messages)
    BY RequestsAssumption, EmptySeq DEF ModTypes
  <1> QED
    BY <1>1, <1>2 DEF Content

(* What an invocation has covered stays covered. *)
LEMMA Undisturbed ==
  ASSUME ModInv, UNCHANGED <<walk, todo, verdict>>,
         \A c \in Chunks : known[c] \subseteq known'[c]
  PROVE  CoverInv'
  <1> SUFFICES ASSUME NEW m \in Moderations
      PROVE  /\ ToSet(todo[m]) \subseteq Content(msgs[m])
             /\ \A c \in HandedOut(m) : c \in ToSet(todo[m]) \/ Covered(m, c)'
             /\ \A k \in Categories :
                  \/ verdict[m][k] = 0
                  \/ \E c \in Content(msgs[m]) : \E a \in known'[c] : a[k] = verdict[m][k]
    BY DEF walk, CoverInv, HandedOut, InParts, HasNext, Message
  <1>1. \A c : Covered(m, c) => Covered(m, c)'
    BY DEF Covered
  <1>2. Content(msgs[m]) \subseteq Chunks
    BY ContentIsChunks DEF ModInv
  <1> QED
    BY <1>1, <1>2 DEF ModInv, CoverInv

LEMMA ModStepInv == ModInv /\ ModNext => ModInv'
  <1> SUFFICES ASSUME ModInv, ModNext PROVE ModInv'
    OBVIOUS
  <1> USE DEF ModInv, ModTypes
  <1>1. ASSUME NEW m \in Moderations, Begin(m) PROVE ModInv'
    <2>1. PICK q \in Requests : msgs' = [msgs EXCEPT ![m] = q]
      BY <1>1 DEF Begin
    <2>2. /\ stage[m] = "idle" /\ msgs[m] = <<>> /\ todo[m] = <<>> /\ Len(msgs[m]) = 0
          /\ idx[m] = 1 /\ partIdx[m] = 1
      BY <1>1 DEF Begin, WalkInv, InParts, HasNext
    <2>3. /\ MoveTo(m, "next")
          /\ UNCHANGED <<idx, partIdx, todo, found, verdict, cache, late, known>>
      BY <1>1 DEF Begin
    <2>4. q \in Seq(Messages)
      BY RequestsAssumption
    <2>5. ModTypes'
      BY <2>1, <2>3 DEF MoveTo, Working
    <2>6. WalkInv'
      BY <2>1, <2>2, <2>3, <2>4 DEF WalkInv, MoveTo, InParts, HasNext, Message
    <2>7. AnalysesAreKnown'
      BY <2>3 DEF AnalysesAreKnown, MoveTo
    <2>8. CoverInv'
      <3>1. HandedOut(m)' = {}
        <4>1. MessagesPassed(q, 1) = {}
          BY DEF MessagesPassed
        <4> QED
          BY <2>1, <2>2, <2>3, <4>1, OneMore DEF HandedOut
      <3>2. \A k \in Categories : verdict[m][k] = 0
        <4>1. Content(msgs[m]) = {}
          BY <2>2 DEF Content
        <4> QED
          BY <4>1 DEF CoverInv
      <3>3. ToSet(todo[m]) = {}
        BY <2>2 DEF ToSet
      <3>4. \A o \in Moderations \ {m} : HandedOut(o)' = HandedOut(o) /\ msgs'[o] = msgs[o]
        BY <2>1, <2>3 DEF HandedOut, InParts, HasNext, Message
      <3>5. ASSUME NEW o \in Moderations
            PROVE  /\ ToSet(todo[o]) \subseteq Content(msgs'[o])
                   /\ \A c \in HandedOut(o)' : c \in ToSet(todo[o]) \/ Covered(o, c)
                   /\ \A k \in Categories :
                        \/ verdict[o][k] = 0
                        \/ \E c \in Content(msgs'[o]) : \E a \in known[c] : a[k] = verdict[o][k]
        <4>1. CASE o = m
          BY <3>1, <3>2, <3>3, <4>1
        <4>2. CASE o # m
          <5>1. /\ ToSet(todo[o]) \subseteq Content(msgs[o])
                /\ \A c \in HandedOut(o) : c \in ToSet(todo[o]) \/ Covered(o, c)
                /\ \A k \in Categories :
                     \/ verdict[o][k] = 0
                     \/ \E c \in Content(msgs[o]) : \E a \in known[c] : a[k] = verdict[o][k]
            BY DEF CoverInv
          <5>2. HandedOut(o)' = HandedOut(o) /\ msgs'[o] = msgs[o]
            BY <3>4, <4>2
          <5> QED
            BY <5>1, <5>2
        <4> QED
          BY <4>1, <4>2
      <3>6. \A o, c : Covered(o, c)' <=> Covered(o, c)
        BY <2>3 DEF Covered
      <3> QED
        BY <2>3, <3>5, <3>6 DEF CoverInv
    <2> QED
      BY <2>5, <2>6, <2>7, <2>8
  <1>2. ASSUME NEW m \in Moderations, NextBroken(m) \/ Finish(m) PROVE ModInv'
    <2>1. CoverInv'
      BY <1>2, Undisturbed DEF NextBroken, Finish
    <2>2. ModTypes'
      BY <1>2 DEF NextBroken, Finish, walk, MoveTo, Over
    <2>3. WalkInv'
      <3>0. todo' = todo /\ walk' = walk
        BY <1>2 DEF NextBroken, Finish
      <3>1. /\ stage[m] = "next"
            /\ \A o \in Moderations \ {m} : stage'[o] = stage[o]
            /\ stage'[m] = "failed" \/ (stage'[m] = "done" /\ ~HasNext(m))
        BY <1>2 DEF NextBroken, Finish, MoveTo
      <3>2. \A o \in Moderations : /\ HasNext(o)' = HasNext(o) /\ InParts(o)' = InParts(o)
                                  /\ Message(o)' = Message(o)
        BY <3>0 DEF walk, HasNext, InParts, Message
      <3> QED
        BY <3>0, <3>1, <3>2 DEF WalkInv, walk
    <2>4. AnalysesAreKnown'
      <3>1. cache' = cache /\ known' = known /\ late' = late /\ found' = found /\ todo' = todo
        BY <1>2 DEF NextBroken, Finish
      <3>2. \A o \in Moderations : stage'[o] = "saving" => stage[o] = "saving"
        BY <1>2 DEF NextBroken, Finish, MoveTo
      <3> QED
        BY <3>1, <3>2 DEF AnalysesAreKnown
    <2> QED
      BY <2>1, <2>2, <2>3, <2>4
  <1>3. ASSUME NEW m \in Moderations, Look(m) PROVE ModInv'
    <2>0. todo[m] \in Seq(Chunks) /\ todo[m] # <<>> /\ Head(todo[m]) \in Chunks
      BY <1>3, HeadAndTail DEF Look, WalkInv
    <2>1. CASE cache[Head(todo[m])] # None
      <3> DEFINE a == cache[Head(todo[m])]
      <3>1. a \in known[Head(todo[m])]
        BY <1>3, <2>0, <2>1 DEF AnalysesAreKnown
      <3>2. Merge(m, a) /\ UNCHANGED <<walk, found, cache, late, known>>
        BY <1>3, <2>1 DEF Look
      <3>3. CoverInv' /\ WalkInv' /\ verdict' \in [Moderations -> Analysis]
            /\ todo' \in [Moderations -> Seq(Chunks)]
            /\ stage' \in [Moderations -> {"idle"} \cup Working \cup Over]
        BY <1>3, <3>1, <3>2, MergeStep DEF Look
      <3>4. AnalysesAreKnown'
        BY <3>2 DEF AnalysesAreKnown, Merge, MoveTo
      <3> QED
        BY <3>2, <3>3, <3>4 DEF walk
    <2>2. CASE cache[Head(todo[m])] = None
      <3>1. MoveTo(m, "analyzing") /\ UNCHANGED <<walk, todo, verdict, found, cache, late, known>>
        BY <1>3, <2>2 DEF Look
      <3>2. CoverInv'
        BY <3>1, Undisturbed
      <3> QED
        BY <1>3, <3>1, <3>2 DEF Look, walk, MoveTo, Working, WalkInv, InParts, HasNext, Message,
           AnalysesAreKnown
    <2> QED
      BY <2>1, <2>2
  <1>4. ASSUME NEW m \in Moderations, Analyze(m) PROVE ModInv'
    <2>1. todo[m] # <<>> /\ Head(todo[m]) \in Chunks
      BY <1>4, HeadAndTail DEF Analyze, WalkInv
    <2>2. PICK a \in Analyses[Head(todo[m])] :
            /\ found' = [found EXCEPT ![m] = a]
            /\ known' = [known EXCEPT ![Head(todo[m])] = @ \cup {a}]
      BY <1>4 DEF Analyze
    <2>3. a \in Analysis
      BY <2>1, AnalysesAssumption
    <2>4. MoveTo(m, "saving") /\ UNCHANGED <<walk, todo, verdict, cache, late>>
      BY <1>4 DEF Analyze
    <2>5. ModTypes'
      BY <2>1, <2>2, <2>3, <2>4 DEF walk, MoveTo, Working
    <2>6. WalkInv'
      BY <2>1, <2>4 DEF walk, MoveTo, WalkInv, InParts, HasNext, Message
    <2>7. \A c \in Chunks : known[c] \subseteq known'[c]
      BY <2>2
    <2>8. AnalysesAreKnown'
      <3>1. \A o \in Moderations \ {m} : stage[o] = "saving" => Head(todo[o]) \in Chunks
        BY HeadAndTail DEF WalkInv
      <3>2. found'[m] \in known'[Head(todo[m])]
        BY <2>1, <2>2
      <3>3. \A o \in Moderations \ {m} : found'[o] = found[o] /\ stage'[o] = stage[o]
        BY <2>2, <2>4 DEF MoveTo
      <3> QED
        BY <2>4, <2>7, <3>1, <3>2, <3>3 DEF AnalysesAreKnown
    <2>9. CoverInv'
      BY <2>4, <2>7, Undisturbed
    <2> QED
      BY <2>5, <2>6, <2>8, <2>9
  <1>5. ASSUME NEW m \in Moderations, Save(m) PROVE ModInv'
    <2>1. todo[m] # <<>> /\ Head(todo[m]) \in Chunks /\ found[m] \in known[Head(todo[m])]
      BY <1>5, HeadAndTail DEF Save, WalkInv, AnalysesAreKnown
    <2>2. /\ cache' = [cache EXCEPT ![Head(todo[m])] = found[m]]
          /\ Merge(m, found[m]) /\ UNCHANGED <<walk, found, late, known>>
      BY <1>5 DEF Save
    <2>3. CoverInv' /\ WalkInv' /\ verdict' \in [Moderations -> Analysis]
          /\ todo' \in [Moderations -> Seq(Chunks)]
          /\ stage' \in [Moderations -> {"idle"} \cup Working \cup Over]
      BY <1>5, <2>1, <2>2, MergeStep DEF Save
    <2>4. AnalysesAreKnown'
      BY <2>1, <2>2 DEF AnalysesAreKnown, Merge, MoveTo
    <2> QED
      BY <2>1, <2>2, <2>3, <2>4 DEF walk
  <1>6. ASSUME NEW m \in Moderations, Break(m) PROVE ModInv'
    <2>1. CoverInv'
      BY <1>6, Undisturbed DEF Break
    <2>2. WalkInv'
      BY <1>6 DEF Break, walk, MoveTo, WalkInv, InParts, HasNext, Message
    <2>3. stage[m] = "saving" => Head(todo[m]) \in Chunks /\ found[m] \in known[Head(todo[m])]
      BY HeadAndTail DEF WalkInv, AnalysesAreKnown
    <2>4. MoveTo(m, "failed") /\ UNCHANGED <<walk, todo, found, verdict, known>>
      BY <1>6 DEF Break
    <2>5. stage' \in [Moderations -> {"idle"} \cup Working \cup Over]
          /\ \A o \in Moderations : stage'[o] = "saving" => stage[o] = "saving"
      BY <2>4 DEF MoveTo, Over
    <2>6. CASE UNCHANGED <<cache, late>>
      BY <2>1, <2>2, <2>4, <2>5, <2>6 DEF AnalysesAreKnown, walk
    <2>7. CASE stage[m] = "saving" /\ UNCHANGED late
               /\ cache' = [cache EXCEPT ![Head(todo[m])] = found[m]]
      BY <2>1, <2>2, <2>3, <2>4, <2>5, <2>7 DEF AnalysesAreKnown, walk
    <2>8. CASE stage[m] = "saving" /\ UNCHANGED cache
               /\ late' = late \cup {<<Head(todo[m]), found[m]>>}
      <3>1. late' \subseteq Chunks \X Analysis
        BY <2>3, <2>8
      <3>2. \A w \in late' : w[2] \in known[w[1]]
        BY <2>3, <2>8 DEF AnalysesAreKnown
      <3> QED
        BY <2>1, <2>2, <2>4, <2>5, <2>8, <3>1, <3>2 DEF AnalysesAreKnown, walk
    <2> QED
      BY <1>6, <2>6, <2>7, <2>8 DEF Break
  <1>7. CASE LandLate
    <2>1. CoverInv'
      BY <1>7, Undisturbed DEF LandLate
    <2>2. WalkInv'
      BY <1>7 DEF LandLate, walk, WalkInv, InParts, HasNext, Message
    <2>3. PICK w \in late : cache' = [cache EXCEPT ![w[1]] = w[2]] /\ late' = late \ {w}
      BY <1>7 DEF LandLate
    <2>4. w[1] \in Chunks /\ w[2] \in known[w[1]] /\ w[2] \in Analysis
      BY DEF AnalysesAreKnown
    <2>5. AnalysesAreKnown'
      BY <1>7, <2>3, <2>4 DEF LandLate, AnalysesAreKnown
    <2>6. ModTypes'
      BY <1>7, <2>3, <2>4 DEF LandLate, walk
    <2> QED
      BY <2>1, <2>2, <2>5, <2>6
  <1>8. CASE ModDone
    BY <1>8 DEF ModDone, modVars, WalkInv, AnalysesAreKnown, CoverInv, HandedOut, InParts, HasNext,
       Message, Covered
  <1> QED
    BY <1>1, <1>2, <1>3, <1>4, <1>5, <1>6, <1>7, <1>8, TakeStep DEF ModNext, ModStep

LEMMA ModInductive == ModSpec => []ModInv
  <1>1. ModInv /\ UNCHANGED modVars => ModInv'
    BY DEF ModInv, modVars, ModTypes, WalkInv, AnalysesAreKnown, CoverInv, HandedOut, InParts,
       HasNext, Message, Covered
  <1> QED
    BY <1>1, ModStepInv, ModInitInv, PTL DEF ModSpec

(* A verdict covers every chunk of its request and makes nothing up        *)
(* (AnalyzeGPTReq), whatever other requests put in the cache meanwhile.    *)
THEOREM VerdictsCover == ModSpec => []VerdictCoversRequest
  <1>1. ModInv => VerdictCoversRequest
    <2> SUFFICES ASSUME ModInv, NEW m \in Moderations, stage[m] = "done"
        PROVE  /\ \A c \in Content(msgs[m]) :
                    \E a \in known[c] : \A k \in Categories : a[k] <= verdict[m][k]
               /\ \A k \in Categories :
                    \/ verdict[m][k] = 0
                    \/ \E c \in Content(msgs[m]) : \E a \in known[c] : a[k] = verdict[m][k]
      BY DEF VerdictCoversRequest
    <2>1. todo[m] = <<>> /\ ~HasNext(m) /\ idx[m] <= Len(msgs[m]) + 1
      BY DEF ModInv, WalkInv
    <2>2. Len(msgs[m]) \in Nat /\ idx[m] \in Nat
      BY RequestsAssumption DEF ModInv, ModTypes
    <2>3. idx[m] - 1 = Len(msgs[m])
      BY <2>1, <2>2 DEF HasNext
    <2>4. HandedOut(m) = Content(msgs[m])
      BY <2>1, <2>3 DEF HandedOut, InParts, MessagesPassed, Content
    <2>5. ToSet(todo[m]) = {}
      BY <2>1 DEF ToSet
    <2> QED
      BY <2>4, <2>5 DEF ModInv, CoverInv, Covered
  <1> QED
    BY <1>1, ModInductive, PTL

LEMMA WalkStep ==
  ModInv /\ [ModNext]_modVars =>
    \A m \in Moderations :
      stage'[m] \in Over \/ Further(m) \/ UNCHANGED <<stage[m], idx[m], partIdx[m], todo[m]>>
  <1> DEFINE Fine(m) ==
               stage'[m] \in Over \/ Further(m) \/ UNCHANGED <<stage[m], idx[m], partIdx[m], todo[m]>>
  <1> SUFFICES ASSUME ModInv, [ModNext]_modVars, NEW m \in Moderations PROVE Fine(m)
    OBVIOUS
  <1> USE DEF ModInv, ModTypes, MoveTo
  <1>1. ASSUME NEW n \in Moderations \ {m}, ModStep(n) \/ Break(n)
        PROVE  UNCHANGED <<stage[m], idx[m], partIdx[m], todo[m]>>
    BY <1>1 DEF ModStep, Begin, NextString, NextPart, NextBroken, Finish, Look, Analyze, Save, Break,
                Take, Advance, Merge, walk
  <1>2. CASE LandLate \/ ModDone \/ UNCHANGED modVars
    BY <1>2 DEF LandLate, ModDone, modVars, walk
  <1>3. CASE Begin(m) \/ NextBroken(m) \/ Finish(m) \/ Break(m)
    BY <1>3 DEF Begin, NextBroken, Finish, Break, Further, Over
  <1>4. CASE NextString(m)
    <2>1. idx'[m] = idx[m] + 1 /\ idx[m] \in Nat
      BY <1>4 DEF NextString
    <2> QED BY <2>1 DEF Further
  <1>5. CASE NextPart(m)
    <2>1. idx[m] \in Nat /\ partIdx[m] \in Nat
      OBVIOUS
    <2>2. \/ idx'[m] = idx[m] + 1
          \/ idx'[m] = idx[m] /\ partIdx'[m] = partIdx[m] + 1
      BY <1>5 DEF NextPart, Advance
    <2> QED BY <2>1, <2>2 DEF Further
  <1>6. ASSUME NEW a, Merge(m, a), UNCHANGED walk, stage[m] \in {"looking", "saving"} PROVE Further(m)
    <2>1. todo[m] \in Seq(Chunks) /\ todo[m] # <<>> /\ todo'[m] = Tail(todo[m])
      BY <1>6 DEF Merge, WalkInv
    <2>2. Len(todo'[m]) < Len(todo[m])
      BY <2>1, HeadTailProperties, LenProperties, EmptySeq
    <2> QED BY <1>6, <2>2 DEF walk, Further
  <1>7. CASE Look(m) \/ Save(m)
    <2>1. CASE \E a : Merge(m, a)
      BY <1>6, <1>7, <2>1 DEF Look, Save
    <2>2. CASE ~\E a : Merge(m, a)
      BY <1>7, <2>2 DEF Look, Save, walk, Further
    <2> QED BY <2>1, <2>2
  <1>8. CASE Analyze(m)
    BY <1>8 DEF Analyze, walk, Further
  <1>9. CASE ModStep(m) \/ Break(m)
    BY <1>3, <1>4, <1>5, <1>7, <1>8, <1>9 DEF ModStep
  <1> QED BY <1>1, <1>2, <1>9 DEF ModNext

(* Whatever requests are made of, the walk over one gets on with every     *)
(* step: the chunker never hands out a content twice or stays where it is. *)
(* As the indices are bounded (WalkInv), it ends with the fairness of      *)
(* ModFairSpec.                                                            *)
THEOREM WalksGetOn == ModSpec => WalksAdvance
  <1>1. ModInv /\ [ModNext]_modVars =>
          [\A m \in Moderations : stage'[m] \in Over \/ Further(m)
              \/ UNCHANGED <<stage[m], idx[m], partIdx[m], todo[m]>>]_modVars
    BY WalkStep
  <1> QED BY <1>1, ModInductive, PTL DEF ModSpec, WalksAdvance
-------------------------------------------------------------------------------
(* The semaphore.                                                          *)

Owner(c) == pc[c] \in InSection \cup {"granted"}
Found(c) == Owner(c) \/ pc[c] \in {"acquiring", "queued"}

ManagerInv ==
  /\ \A c \in Calls : pc[c] \in AtManager => manager = c
  /\ manager # Nil => manager \in Calls /\ pc[manager] \in AtManager
FreshInv == \A c \in Calls : pc[c] = "creating" => handles[HandleOf[c]] = 0
FoundInv == \A c \in Calls : Found(c) => sem[c] = handles[HandleOf[c]] /\ sem[c] # 0
HandlesInv == \A g, h \in Handles : (handles[g] = handles[h] /\ handles[g] # 0) => g = h
OwnerInv ==
  /\ \A c \in Calls : Owner(c) => sem[c] \in held
  /\ \A c, d \in Calls : (c # d /\ Owner(c) /\ Owner(d)) => sem[c] # sem[d]
UnitsInv == \A s \in held : \E c \in Calls : Owner(c) /\ sem[c] = s
TicketInv ==
  \A c, d \in Calls : (c # d /\ ticket[c] # 0) => ticket[c] # ticket[d]
ArrivedInv ==
  \A c \in Calls :
    /\ (Owner(c) \/ pc[c] = "queued") => ticket[c] # 0
    /\ pc[c] \in {"idle", "finding", "creating", "acquiring"} => ticket[c] = 0

IInv ==
  /\ TypeOK
  /\ ManagerInv
  /\ FreshInv
  /\ FoundInv
  /\ HandlesInv
  /\ OwnerInv
  /\ UnitsInv
  /\ TicketInv
  /\ ArrivedInv
  /\ NobodyWaitsForNothing
  /\ ServedInOrder
  /\ NeverPanics

USE DEF Owner, Found
-------------------------------------------------------------------------------

LEMMA InitIInv == Init => IInv
  BY CallsAssumption DEF Init, IInv, TypeOK, ManagerInv, FreshInv, FoundInv, HandlesInv, OwnerInv, UnitsInv,
     TicketInv, ArrivedInv, NobodyWaitsForNothing, ServedInOrder, NeverPanics,
     Places, InSection, AtManager

LEMMA LockManagerStep ==
  ASSUME IInv, NEW c \in Calls, LockManager(c) PROVE IInv'
  <1>1. /\ manager = Nil /\ manager' = c
        /\ \/ pc[c] = "idle" /\ pc' = [pc EXCEPT ![c] = "finding"]
           \/ pc[c] = "leaving" /\ pc' = [pc EXCEPT ![c] = "refinding"]
        /\ UNCHANGED <<made, handles, sem, held, arrivals, ticket, cancelled>>
    BY DEF LockManager, Goto
  <1>2. /\ \/ pc[c] = "idle" /\ pc'[c] = "finding"
           \/ pc[c] = "leaving" /\ pc'[c] = "refinding"
        /\ \A d \in Calls \ {c} : pc'[d] = pc[d]
    BY <1>1 DEF IInv, TypeOK
  <1>3. TypeOK'
    BY <1>1 DEF IInv, TypeOK, Places, AtManager, InSection
  <1>4. ManagerInv'
    BY <1>1, <1>2, CallsAssumption DEF IInv, ManagerInv, AtManager
  <1>5. FreshInv' /\ FoundInv' /\ HandlesInv' /\ NeverPanics'
    BY <1>1, <1>2 DEF IInv, FreshInv, FoundInv, HandlesInv, NeverPanics, InSection
  <1>6. OwnerInv' /\ UnitsInv' /\ TicketInv' /\ ArrivedInv' /\ NobodyWaitsForNothing' /\ ServedInOrder'
    BY <1>1, <1>2 DEF IInv, OwnerInv, UnitsInv, TicketInv, ArrivedInv, NobodyWaitsForNothing, ServedInOrder, InSection
  <1> QED BY <1>3, <1>4, <1>5, <1>6 DEF IInv

LEMMA FindStep ==
  ASSUME IInv, NEW c \in Calls, Find(c) PROVE IInv'
  <1> DEFINE s == handles[HandleOf[c]]
  <1>1. /\ pc[c] = "finding" /\ manager = c
        /\ \/ /\ s # 0 /\ sem' = [sem EXCEPT ![c] = s] /\ manager' = Nil
              /\ pc' = [pc EXCEPT ![c] = "acquiring"]
           \/ s = 0 /\ pc' = [pc EXCEPT ![c] = "creating"] /\ sem' = sem /\ manager' = manager
        /\ UNCHANGED <<made, handles, held, arrivals, ticket, cancelled>>
    BY DEF Find, Goto, IInv, ManagerInv, AtManager
  <1>2. s \in 0..made /\ HandleOf[c] \in Handles
    BY CallsAssumption DEF IInv, TypeOK
  <1>3. /\ \/ s # 0 /\ pc'[c] = "acquiring" /\ sem'[c] = s /\ manager' = Nil
           \/ s = 0 /\ pc'[c] = "creating" /\ sem' = sem /\ manager' = c
        /\ \A d \in Calls \ {c} : pc'[d] = pc[d] /\ sem'[d] = sem[d]
    BY <1>1 DEF IInv, TypeOK
  <1>4. TypeOK'
    BY <1>1, <1>2 DEF IInv, TypeOK, Places, AtManager, InSection
  <1>5. ManagerInv'
    BY <1>1, <1>3 DEF IInv, ManagerInv, AtManager
  <1>6. FreshInv' /\ FoundInv' /\ HandlesInv' /\ NeverPanics'
    BY <1>1, <1>3 DEF IInv, FreshInv, FoundInv, HandlesInv, NeverPanics, InSection
  <1>7. OwnerInv' /\ UnitsInv' /\ TicketInv' /\ ArrivedInv' /\ NobodyWaitsForNothing' /\ ServedInOrder'
    BY <1>1, <1>3 DEF IInv, OwnerInv, UnitsInv, TicketInv, ArrivedInv, NobodyWaitsForNothing, ServedInOrder, InSection
  <1> QED BY <1>4, <1>5, <1>6, <1>7 DEF IInv

LEMMA CreateStep ==
  ASSUME IInv, NEW c \in Calls, Create(c) PROVE IInv'
  <1> DEFINE h == HandleOf[c]
  <1>1. /\ pc[c] = "creating" /\ manager = c /\ manager' = Nil /\ handles[h] = 0
        /\ made' = made + 1 /\ handles' = [handles EXCEPT ![h] = made + 1]
        /\ sem' = [sem EXCEPT ![c] = made + 1] /\ pc' = [pc EXCEPT ![c] = "acquiring"]
        /\ UNCHANGED <<held, arrivals, ticket, cancelled>>
    BY DEF Create, Goto, IInv, ManagerInv, FreshInv, AtManager
  <1>2. h \in Handles /\ \A d \in Calls : HandleOf[d] \in Handles
    BY CallsAssumption
  <1>3. /\ pc'[c] = "acquiring" /\ sem'[c] = made + 1 /\ handles'[h] = made + 1
        /\ \A d \in Calls \ {c} : pc'[d] = pc[d] /\ sem'[d] = sem[d]
        /\ \A g \in Handles \ {h} : handles'[g] = handles[g]
    BY <1>1, <1>2 DEF IInv, TypeOK
  <1>4. TypeOK'
    BY <1>1, <1>2 DEF IInv, TypeOK, Places
  <1>5. ManagerInv' /\ FreshInv'
    BY <1>1, <1>2, <1>3 DEF IInv, ManagerInv, FreshInv, AtManager
  <1>6. FoundInv'
    BY <1>1, <1>2, <1>3 DEF IInv, TypeOK, FoundInv, InSection
  <1>7. HandlesInv'
    BY <1>1, <1>2, <1>3 DEF IInv, TypeOK, HandlesInv
  <1>8. OwnerInv' /\ UnitsInv' /\ TicketInv' /\ ArrivedInv' /\ NobodyWaitsForNothing' /\ ServedInOrder' /\ NeverPanics'
    BY <1>1, <1>3 DEF IInv, OwnerInv, UnitsInv, TicketInv, ArrivedInv, NobodyWaitsForNothing, ServedInOrder,
                      NeverPanics, InSection
  <1> QED BY <1>4, <1>5, <1>6, <1>7, <1>8 DEF IInv

LEMMA RefindStep ==
  ASSUME IInv, NEW c \in Calls, Refind(c) PROVE IInv'
  <1>1. /\ pc[c] = "refinding" /\ manager = c /\ sem[c] = handles[HandleOf[c]] /\ sem[c] # 0
    BY DEF Refind, IInv, ManagerInv, FoundInv, AtManager, InSection
  <1>2. /\ sem' = [sem EXCEPT ![c] = sem[c]] /\ manager' = Nil /\ pc' = [pc EXCEPT ![c] = "releasing"]
        /\ UNCHANGED <<made, handles, held, arrivals, ticket, cancelled>>
    BY <1>1 DEF Refind, Goto
  <1>3. sem' = sem
    BY <1>2 DEF IInv, TypeOK
  <1>4. pc'[c] = "releasing" /\ \A d \in Calls \ {c} : pc'[d] = pc[d]
    BY <1>2 DEF IInv, TypeOK
  <1>5. TypeOK'
    BY <1>2, <1>3 DEF IInv, TypeOK, Places, InSection
  <1>6. ManagerInv'
    BY <1>1, <1>2, <1>4 DEF IInv, ManagerInv, AtManager
  <1>7. FreshInv' /\ FoundInv' /\ HandlesInv' /\ NeverPanics'
    BY <1>1, <1>2, <1>3, <1>4 DEF IInv, FreshInv, FoundInv, HandlesInv, NeverPanics, InSection
  <1>8. OwnerInv' /\ UnitsInv' /\ TicketInv' /\ ArrivedInv' /\ NobodyWaitsForNothing' /\ ServedInOrder'
    BY <1>1, <1>2, <1>3, <1>4 DEF IInv, OwnerInv, UnitsInv, TicketInv, ArrivedInv, NobodyWaitsForNothing,
                                  ServedInOrder, InSection
  <1> QED BY <1>5, <1>6, <1>7, <1>8 DEF IInv

LEMMA AcquireStep ==
  ASSUME IInv, NEW c \in Calls, Acquire(c) PROVE IInv'
  <1>1. /\ pc[c] = "acquiring" /\ UNCHANGED <<manager, made, handles, sem, cancelled>>
        /\ sem[c] = handles[HandleOf[c]] /\ sem[c] # 0
    BY DEF Acquire, IInv, FoundInv
  <1>2. CASE pc' = [pc EXCEPT ![c] = "failed"] /\ UNCHANGED <<held, arrivals, ticket>>
    <2>1. pc'[c] = "failed" /\ \A d \in Calls \ {c} : pc'[d] = pc[d]
      BY <1>2 DEF IInv, TypeOK
    <2> QED BY <1>1, <1>2, <2>1 DEF IInv, TypeOK, ManagerInv, FreshInv, FoundInv, HandlesInv, OwnerInv, UnitsInv,
               TicketInv, ArrivedInv, NobodyWaitsForNothing, ServedInOrder, NeverPanics,
               Places, InSection, AtManager, Ended
  <1>3. CASE /\ arrivals' = arrivals + 1 /\ ticket' = [ticket EXCEPT ![c] = arrivals + 1]
             /\ \/ /\ sem[c] \notin held /\ Waiters(sem[c], pc) = {}
                   /\ held' = held \cup {sem[c]} /\ pc' = [pc EXCEPT ![c] = "holding"]
                \/ /\ sem[c] \in held \/ Waiters(sem[c], pc) # {}
                   /\ held' = held /\ pc' = [pc EXCEPT ![c] = "queued"]
    <2>1. /\ \A d \in Calls \ {c} : pc'[d] = pc[d] /\ ticket'[d] = ticket[d] /\ ticket[d] <= arrivals
          /\ ticket'[c] = arrivals + 1 /\ arrivals \in Nat /\ \A d \in Calls : ticket[d] \in Nat
      BY <1>3 DEF IInv, TypeOK
    <2>2. \A w \in Waiters(sem[c], pc) : sem[c] \in held
      BY DEF Waiters, IInv, NobodyWaitsForNothing
    <2>3. \/ sem[c] \notin held /\ held' = held \cup {sem[c]} /\ pc'[c] = "holding"
          \/ sem[c] \in held /\ held' = held /\ pc'[c] = "queued"
      BY <1>3, <2>2 DEF IInv, TypeOK
    <2>4. TypeOK'
      <3>1. ticket' \in [Calls -> 0..arrivals'] /\ arrivals' \in Nat
        BY <1>3, <2>1 DEF IInv, TypeOK
      <3>2. sem[c] \in 1..made
        BY <1>1 DEF IInv, TypeOK
      <3>3. pc' \in [Calls -> Places] /\ held' \subseteq 1..made
        BY <1>3, <3>2 DEF IInv, TypeOK, Places, InSection
      <3> QED BY <1>1, <3>1, <3>3 DEF IInv, TypeOK
    <2>5. ManagerInv' /\ FreshInv' /\ FoundInv' /\ HandlesInv' /\ NeverPanics'
      BY <1>1, <2>1, <2>3 DEF IInv, ManagerInv, FreshInv, FoundInv, HandlesInv, NeverPanics,
                              AtManager, InSection
    <2>6. OwnerInv' /\ UnitsInv'
      BY <1>1, <2>1, <2>3 DEF IInv, OwnerInv, UnitsInv, InSection
    <2>7. TicketInv' /\ ArrivedInv'
      BY <2>1, <2>3 DEF IInv, TicketInv, ArrivedInv
    <2>8. NobodyWaitsForNothing'
      BY <1>1, <2>1, <2>3 DEF IInv, NobodyWaitsForNothing
    <2>9. ServedInOrder'
      <3> SUFFICES ASSUME NEW a \in Calls, NEW b \in Calls, pc'[a] = "queued", Owner(b)', sem[a] = sem[b]
                   PROVE  ticket'[b] < ticket'[a]
        BY <1>1 DEF ServedInOrder
      <3>1. CASE a = c
        <4>1. b # c
          BY <3>1 DEF InSection
        <4> QED BY <2>1, <3>1, <4>1
      <3>2. CASE a # c /\ b = c
        BY <1>1, <2>1, <2>3, <3>2 DEF IInv, NobodyWaitsForNothing, InSection
      <3>3. CASE a # c /\ b # c
        BY <2>1, <3>3 DEF IInv, ServedInOrder
      <3> QED BY <3>1, <3>2, <3>3
    <2> QED BY <2>4, <2>5, <2>6, <2>7, <2>8, <2>9 DEF IInv
  <1> QED BY <1>2, <1>3 DEF Acquire, Goto

LEMMA QuietStep ==
  ASSUME IInv, NEW c \in Calls, Wake(c) \/ Leave(c) \/ Cancel(c) PROVE IInv'
  <1>1. /\ UNCHANGED <<manager, made, handles, sem, held, arrivals, ticket>>
        /\ cancelled' \subseteq Calls
        /\ \/ pc[c] = "granted" /\ pc' = [pc EXCEPT ![c] = "holding"]
           \/ pc[c] = "holding" /\ pc' = [pc EXCEPT ![c] = "leaving"]
           \/ pc' = pc
    BY DEF Wake, Leave, Cancel, Goto, IInv, TypeOK
  <1>2. /\ \/ Owner(c) /\ pc'[c] \in {"holding", "leaving"}
           \/ pc'[c] = pc[c]
        /\ \A d \in Calls \ {c} : pc'[d] = pc[d]
    BY <1>1 DEF IInv, TypeOK, InSection
  <1>3. TypeOK'
    BY <1>1 DEF IInv, TypeOK, Places, InSection
  <1>4. ManagerInv' /\ FreshInv' /\ FoundInv' /\ HandlesInv' /\ NeverPanics'
    BY <1>1, <1>2 DEF IInv, ManagerInv, FreshInv, FoundInv, HandlesInv, NeverPanics, AtManager, InSection
  <1>5. OwnerInv' /\ UnitsInv' /\ TicketInv' /\ ArrivedInv' /\ NobodyWaitsForNothing' /\ ServedInOrder'
    BY <1>1, <1>2 DEF IInv, OwnerInv, UnitsInv, TicketInv, ArrivedInv, NobodyWaitsForNothing, ServedInOrder, InSection
  <1> QED BY <1>3, <1>4, <1>5 DEF IInv

(* A call that is waiting, granted or releasing goes, giving back the unit *)
(* it has, and notifyWaiters runs.                                         *)
LEMMA NotifyStep ==
  ASSUME IInv, NEW c \in Calls, NEW l \in {"failed", "done"},
         pc[c] \in {"queued", "granted", "releasing"},
         NotifyWaiters(sem[c], IF pc[c] = "queued" THEN held ELSE held \ {sem[c]},
                       [pc EXCEPT ![c] = l]),
         UNCHANGED <<manager, made, handles, sem, arrivals, ticket, cancelled>>
  PROVE  IInv'
  <1> DEFINE s == sem[c]
             taken == IF pc[c] = "queued" THEN held ELSE held \ {s}
             at == [pc EXCEPT ![c] = l]
  <1>1. at[c] = l /\ \A d \in Calls \ {c} : at[d] = pc[d]
    BY DEF IInv, TypeOK
  <1>2. at \in [Calls -> Places]
    BY DEF IInv, TypeOK, Places, Ended
  <1>3. s # 0 /\ s = handles[HandleOf[c]] /\ s \in held /\ s \in 1..made
    BY DEF IInv, FoundInv, NobodyWaitsForNothing, OwnerInv, TypeOK, InSection
  <1>4. CASE /\ s \in taken \/ Waiters(s, at) = {}
             /\ held' = taken /\ pc' = at
    <2>1. \A d \in Calls \ {c} : Owner(d) => sem[d] \in held'
      BY <1>3, <1>4 DEF IInv, OwnerInv, InSection
    <2>2. \A d \in Calls : pc'[d] = "queued" => sem[d] \in held'
      <3> SUFFICES ASSUME NEW d \in Calls, at[d] = "queued" PROVE sem[d] \in taken
        BY <1>4
      <3>1. d # c /\ pc[d] = "queued" /\ sem[d] \in held
        BY <1>1 DEF IInv, NobodyWaitsForNothing
      <3>2. CASE sem[d] = s
        <4>1. d \in Waiters(s, at)
          BY <3>2 DEF Waiters
        <4> QED BY <1>4, <3>2, <4>1
      <3>3. CASE sem[d] # s
        BY <3>1, <3>3
      <3> QED BY <3>2, <3>3
    <2>3. TypeOK'
      BY <1>2, <1>4 DEF IInv, TypeOK
    <2>4. ManagerInv' /\ FreshInv' /\ FoundInv' /\ HandlesInv' /\ NeverPanics'
      BY <1>1, <1>4 DEF IInv, ManagerInv, FreshInv, FoundInv, HandlesInv, NeverPanics, AtManager, InSection
    <2>5. OwnerInv' /\ UnitsInv' /\ TicketInv' /\ ArrivedInv' /\ NobodyWaitsForNothing' /\ ServedInOrder'
      BY <1>1, <1>4, <2>1, <2>2 DEF IInv, OwnerInv, UnitsInv, TicketInv, ArrivedInv, NobodyWaitsForNothing,
                                    ServedInOrder, InSection
    <2> QED BY <2>3, <2>4, <2>5 DEF IInv
  <1>5. ASSUME s \notin taken, NEW w \in Waiters(s, at), FirstOf(w, Waiters(s, at)),
               held' = taken \cup {s}, pc' = [at EXCEPT ![w] = "granted"]
        PROVE  IInv'
    <2>1. w \in Calls /\ w # c /\ pc[w] = "queued" /\ sem[w] = s /\ ticket[w] # 0
      BY <1>1 DEF Waiters, IInv, ArrivedInv
    <2>2. held' = held /\ pc[c] # "queued"
      BY <1>3, <1>5
    <2>3. pc'[w] = "granted" /\ pc'[c] = l /\ \A d \in Calls \ {c, w} : pc'[d] = pc[d]
      BY <1>1, <1>2, <1>5, <2>1
    <2>4. TypeOK'
      BY <1>2, <1>5, <2>2 DEF IInv, TypeOK, Places
    <2>5. ManagerInv' /\ FreshInv' /\ FoundInv' /\ HandlesInv' /\ NeverPanics'
      BY <2>1, <2>3 DEF IInv, ManagerInv, FreshInv, FoundInv, HandlesInv, NeverPanics, AtManager, InSection
    <2>6. \A d \in Calls \ {c} : Owner(d) => sem[d] # s
      BY <2>2 DEF IInv, OwnerInv, InSection
    <2>7. OwnerInv' /\ UnitsInv'
      BY <1>3, <2>1, <2>2, <2>3, <2>6 DEF IInv, OwnerInv, UnitsInv, InSection
    <2>8. TicketInv' /\ ArrivedInv' /\ NobodyWaitsForNothing'
      BY <2>1, <2>2, <2>3 DEF IInv, TicketInv, ArrivedInv, NobodyWaitsForNothing, InSection
    <2>9. ServedInOrder'
      <3> SUFFICES ASSUME NEW a \in Calls, NEW b \in Calls, pc'[a] = "queued", Owner(b)', sem[a] = sem[b]
                   PROVE  ticket[b] < ticket[a]
        BY DEF ServedInOrder
      <3>1. a \notin {c, w} /\ pc[a] = "queued"
        BY <2>3
      <3>2. CASE b = w
        <4>1. a \in Waiters(s, at)
          BY <1>1, <2>1, <3>1, <3>2 DEF Waiters
        <4>2. ticket[w] <= ticket[a] /\ ticket[w] # ticket[a]
          BY <1>5, <2>1, <3>1, <4>1 DEF FirstOf, IInv, TicketInv
        <4> QED BY <3>2, <4>2, <2>1 DEF IInv, TypeOK
      <3>3. CASE b # w
        BY <2>3, <3>1, <3>3 DEF IInv, ServedInOrder, InSection
      <3> QED BY <3>2, <3>3
    <2> QED BY <2>4, <2>5, <2>7, <2>8, <2>9 DEF IInv
  <1> QED BY <1>4, <1>5 DEF NotifyWaiters

LEMMA GiveUpStep ==
  ASSUME IInv, NEW c \in Calls, GiveUp(c) PROVE IInv'
  <1> DEFINE failed == [pc EXCEPT ![c] = "failed"]
  <1>1. UNCHANGED <<manager, made, handles, sem, arrivals, ticket, cancelled>>
    BY DEF GiveUp
  <1>2. CASE pc[c] = "granted" /\ NotifyWaiters(sem[c], held \ {sem[c]}, failed)
    BY <1>1, <1>2, NotifyStep
  <1>3. CASE pc[c] = "queued" /\ NotifyWaiters(sem[c], held, failed)
    BY <1>1, <1>3, NotifyStep
  <1>4. CASE pc[c] = "queued" /\ pc' = failed /\ held' = held
    <2>1. sem[c] \in held
      BY <1>4 DEF IInv, NobodyWaitsForNothing
    <2>2. NotifyWaiters(sem[c], held, failed)
      BY <1>4, <2>1 DEF NotifyWaiters
    <2> QED BY <1>1, <1>4, <2>2, NotifyStep
  <1> QED BY <1>2, <1>3, <1>4 DEF GiveUp, Goto

LEMMA ReleaseStep ==
  ASSUME IInv, NEW c \in Calls, Release(c) PROVE IInv'
  <1>1. /\ pc[c] = "releasing"
        /\ UNCHANGED <<manager, made, handles, sem, arrivals, ticket, cancelled>>
    BY DEF Release
  <1>2. sem[c] \in held
    BY <1>1 DEF IInv, OwnerInv, InSection
  <1>3. NotifyWaiters(sem[c], held \ {sem[c]}, [pc EXCEPT ![c] = "done"])
    BY <1>2 DEF Release
  <1> QED BY <1>1, <1>3, NotifyStep

LEMMA NextIInv == IInv /\ [Next]_vars => IInv'
  <1> SUFFICES ASSUME IInv, [Next]_vars PROVE IInv'
    OBVIOUS
  <1>1. ASSUME NEW c \in Calls, Step(c) \/ Cancel(c) PROVE IInv'
    BY <1>1, LockManagerStep, FindStep, CreateStep, RefindStep, AcquireStep, QuietStep,
       GiveUpStep, ReleaseStep DEF Step
  <1>2. CASE UNCHANGED vars
    BY <1>2 DEF vars, IInv, TypeOK, ManagerInv, FreshInv, FoundInv, HandlesInv, OwnerInv,
                UnitsInv, TicketInv, ArrivedInv, NobodyWaitsForNothing, ServedInOrder, NeverPanics
  <1> QED BY <1>1, <1>2 DEF Next, Done

THEOREM Inductive == Spec => []IInv
  BY InitIInv, NextIInv, PTL DEF Spec

(* However many calls come for however many handles, and whichever are     *)
(* cancelled, two are never in the section of one handle together.         *)
THEOREM SectionsAreExclusive == Spec => []MutualExclusion
  <1>1. IInv => MutualExclusion
    BY DEF IInv, FoundInv, OwnerInv, MutualExclusion, InSection
  <1> QED BY <1>1, Inductive, PTL

(* No wake-up is ever lost, and no earlier arrival is overtaken.           *)
THEOREM QueueIsFair == Spec => []WaitersAreServed
  <1>1. IInv => WaitersAreServed
    BY DEF IInv, WaitersAreServed
  <1> QED BY <1>1, Inductive, PTL

(* The release of a semaphore never panics.                                *)
THEOREM ReleasesSucceed == Spec => []NeverPanics
  <1>1. IInv => NeverPanics
    BY DEF IInv
  <1> QED BY <1>1, Inductive, PTL

(* Whoever waits, waits for a call that goes on.                           *)
THEOREM WaitsAreForSomeone == Spec => []NobodyIsStuck
  <1>1. IInv => NobodyIsStuck
    BY DEF IInv, ManagerInv, NobodyWaitsForNothing, UnitsInv, NobodyIsStuck
  <1> QED BY <1>1, Inductive, PTL

LEMMA CallStep ==
  IInv /\ [Next]_vars =>
    \A c \in Calls : pc'[c] = pc[c] \/ Position[pc'[c]] > Position[pc[c]]
  <1> SUFFICES ASSUME IInv, [Next]_vars, NEW c \in Calls
               PROVE  \/ pc'[c] = pc[c]
                      \/ pc[c] \in {"idle", "leaving"} /\ pc'[c] \in {"finding", "refinding"}
                           /\ (pc[c] = "leaving" => pc'[c] = "refinding")
                      \/ pc[c] = "finding" /\ pc'[c] \in {"acquiring", "creating"}
                      \/ pc[c] = "creating" /\ pc'[c] = "acquiring"
                      \/ pc[c] = "refinding" /\ pc'[c] \in {"releasing", "panicked"}
                      \/ pc[c] = "acquiring" /\ pc'[c] \in {"failed", "holding", "queued"}
                      \/ pc[c] = "queued" /\ pc'[c] \in {"granted", "failed"}
                      \/ pc[c] = "granted" /\ pc'[c] \in {"holding", "failed"}
                      \/ pc[c] = "holding" /\ pc'[c] = "leaving"
                      \/ pc[c] = "releasing" /\ pc'[c] \in {"done", "panicked"}
    BY DEF Position
  <1> USE DEF Goto, IInv, TypeOK
  <1>1. ASSUME NEW d \in Calls, LockManager(d) \/ Find(d) \/ Create(d) \/ Refind(d) \/ Acquire(d)
                                  \/ Wake(d) \/ Leave(d) \/ Cancel(d)
        PROVE  d = c \/ pc'[c] = pc[c]
    BY <1>1 DEF LockManager, Find, Create, Refind, Acquire, Wake, Leave, Cancel
  <1>2. CASE LockManager(c) \/ Find(c) \/ Create(c) \/ Refind(c)
    BY <1>2 DEF LockManager, Find, Create, Refind
  <1>3. CASE Acquire(c) \/ Wake(c) \/ Leave(c) \/ Cancel(c)
    BY <1>3 DEF Acquire, Wake, Leave, Cancel
  <1>4. ASSUME NEW d \in Calls, GiveUp(d) \/ Release(d)
        PROVE  \/ pc'[c] = pc[c]
               \/ pc[c] \in {"queued", "granted"} /\ pc'[c] = "failed"
               \/ pc[c] = "releasing" /\ pc'[c] \in {"done", "panicked"}
               \/ pc[c] = "queued" /\ pc'[c] = "granted"
    <2>1. ASSUME NEW s, NEW taken, NEW l \in {"failed", "done"},
                 NotifyWaiters(s, taken, [pc EXCEPT ![d] = l])
          PROVE  \/ c = d /\ pc'[c] = l
                 \/ c # d /\ pc'[c] = pc[c]
                 \/ c # d /\ pc[c] = "queued" /\ pc'[c] = "granted"
      BY <2>1 DEF NotifyWaiters, Waiters
    <2>2. CASE GiveUp(d)
      <3>1. \/ c = d /\ pc'[c] = "failed" /\ pc[c] \in {"queued", "granted"}
            \/ c # d /\ pc'[c] = pc[c]
            \/ c # d /\ pc[c] = "queued" /\ pc'[c] = "granted"
        BY <2>1, <2>2 DEF GiveUp
      <3> QED BY <3>1
    <2>3. CASE Release(d)
      BY <2>1, <2>3 DEF Release
    <2> QED BY <1>4, <2>2, <2>3
  <1>5. CASE Done \/ UNCHANGED vars
    BY <1>5 DEF Done, vars
  <1> QED BY <1>1, <1>2, <1>3, <1>4, <1>5 DEF Next, Step

(* No call takes a step twice.  With WaitsAreForSomeone and the fairness   *)
(* of FairSpec, whoever waits gets the semaphore or gives up.              *)
THEOREM CallsGetOn == Spec => CallsAdvance
  <1>1. IInv /\ [Next]_vars =>
          [\A c \in Calls : pc'[c] = pc[c] \/ Position[pc'[c]] > Position[pc[c]]]_vars
    BY CallStep
  <1> QED BY <1>1, Inductive, PTL DEF Spec, CallsAdvance
-------------------------------------------------------------------------------
(* The line that the calls stand in.                                       *)

LEMMA PlaceIs ==
  ASSUME IInv, NEW c \in Calls
  PROVE  /\ PlaceInLine(c) = "away" <=> ticket[c] = 0
         /\ PlaceInLine(c) = "waiting" <=> pc[c] = "queued"
         /\ PlaceInLine(c) = "served" <=> Owner(c)
         /\ PlaceInLine(c) = "gone" <=> ticket[c] # 0 /\ pc[c] # "queued" /\ ~Owner(c)
  BY DEF PlaceInLine, IInv, ArrivedInv, InSection

(* Whoever found a semaphore has it in common with those of its handle:    *)
(* they wait for it, and one of them is served when its unit is taken.     *)
LEMMA LineOfSemaphore ==
  ASSUME IInv, NEW c \in Calls, Found(c)
  PROVE  /\ Line!Waiting(c) = Waiters(sem[c], pc)
         /\ Line!Served(c) = {} <=> sem[c] \notin held
  <1>1. \A d \in Calls : Found(d) => (sem[c] = sem[d] <=> HandleOf[c] = HandleOf[d])
    BY CallsAssumption DEF IInv, FoundInv, HandlesInv
  <1>2. \A d \in Calls : d \in Line!Waiting(c) <=> HandleOf[d] = HandleOf[c] /\ pc[d] = "queued"
    BY PlaceIs DEF Line!Waiting
  <1>3. \A d \in Calls : d \in Line!Served(c) <=> HandleOf[d] = HandleOf[c] /\ Owner(d)
    BY PlaceIs DEF Line!Served
  <1>4. Line!Waiting(c) \subseteq Calls /\ Line!Served(c) \subseteq Calls
    BY DEF Line!Waiting, Line!Served
  <1>5. Line!Waiting(c) = Waiters(sem[c], pc)
    BY <1>1, <1>2, <1>4 DEF Waiters
  <1>6. Line!Served(c) = {} <=> sem[c] \notin held
    BY <1>1, <1>3, <1>4 DEF IInv, OwnerInv, UnitsInv
  <1> QED BY <1>5, <1>6

(* The steps that nobody in the line sees.                                 *)
LEMMA StepOutOfLine ==
  ASSUME IInv, IInv', NEW c \in Calls, ticket' = ticket, arrivals' = arrivals,
         \A d \in Calls \ {c} : pc'[d] = pc[d],
         \/ pc'[c] = pc[c]
         \/ ticket[c] = 0
         \/ Owner(c) /\ pc'[c] \in InSection
  PROVE  UNCHANGED Line!lineVars
  <1>1. \A d \in Calls : PlaceInLine(d)' = PlaceInLine(d)
    BY DEF PlaceInLine, InSection
  <1> QED BY <1>1 DEF Line!lineVars

LEMMA AcquireInLine ==
  ASSUME IInv, IInv', NEW c \in Calls, Acquire(c)
  PROVE  [Line!Next]_(Line!lineVars)
  <1>1. pc[c] = "acquiring" /\ ticket[c] = 0 /\ sem' = sem
    BY DEF Acquire, IInv, ArrivedInv
  <1>2. \A d \in Calls \ {c} : pc'[d] = pc[d]
    BY DEF Acquire, Goto, IInv, TypeOK
  <1>3. CASE UNCHANGED <<arrivals, ticket>>
    BY <1>1, <1>2, <1>3, StepOutOfLine
  <1>4. CASE /\ arrivals' = arrivals + 1 /\ ticket' = [ticket EXCEPT ![c] = arrivals + 1]
             /\ \/ /\ sem[c] \notin held /\ Waiters(sem[c], pc) = {}
                   /\ pc' = [pc EXCEPT ![c] = "holding"]
                \/ /\ sem[c] \in held \/ Waiters(sem[c], pc) # {}
                   /\ pc' = [pc EXCEPT ![c] = "queued"]
    <2>1. /\ ticket'[c] # 0 /\ \A d \in Calls \ {c} : ticket'[d] = ticket[d]
          /\ pc'[c] \in {"queued", "holding"}
      BY <1>4 DEF IInv, TypeOK
    <2>2. \A d \in Calls \ {c} : PlaceInLine(d)' = PlaceInLine(d)
      BY <1>2, <2>1 DEF PlaceInLine
    <2>3. PlaceInLine(c) = "away"
      BY <1>1, PlaceIs
    <2>4. CASE sem[c] \notin held /\ Waiters(sem[c], pc) = {} /\ pc' = [pc EXCEPT ![c] = "holding"]
      <3>1. Line!Waiting(c) \cup Line!Served(c) = {}
        BY <1>1, <2>4, LineOfSemaphore
      <3>2. pc'[c] = "holding"
        BY <2>4 DEF IInv, TypeOK
      <3>3. PlaceInLine(c)' = "served"
        BY <2>1, <3>2 DEF PlaceInLine, InSection
      <3> QED BY <1>4, <2>2, <2>3, <3>1, <3>3 DEF Line!Next, Line!Arrive
    <2>5. CASE /\ sem[c] \in held \/ Waiters(sem[c], pc) # {}
               /\ pc' = [pc EXCEPT ![c] = "queued"]
      <3>1. Line!Waiting(c) \cup Line!Served(c) # {}
        BY <1>1, <2>5, LineOfSemaphore
      <3>2. pc'[c] = "queued"
        BY <2>5 DEF IInv, TypeOK
      <3>3. PlaceInLine(c)' = "waiting"
        BY <2>1, <3>2 DEF PlaceInLine, InSection
      <3> QED BY <1>4, <2>2, <2>3, <3>1, <3>3 DEF Line!Next, Line!Arrive
    <2> QED BY <1>4, <2>4, <2>5
  <1> QED BY <1>3, <1>4 DEF Acquire, Goto

(* Whoever leaves the queue or the section leaves the line, and those that *)
(* notifyWaiters lets through are the next that are served.                *)
LEMMA NotifyInLine ==
  ASSUME IInv, NEW c \in Calls, NEW l \in {"failed", "done"},
         pc[c] \in {"queued", "granted", "releasing"},
         NotifyWaiters(sem[c], IF pc[c] = "queued" THEN held ELSE held \ {sem[c]},
                       [pc EXCEPT ![c] = l]),
         UNCHANGED <<arrivals, ticket>>
  PROVE  Line!Next
  <1> DEFINE s == sem[c]
             taken == IF pc[c] = "queued" THEN held ELSE held \ {s}
             at == [pc EXCEPT ![c] = l]
  <1>1. at[c] = l /\ \A d \in Calls \ {c} : at[d] = pc[d]
    BY DEF IInv, TypeOK
  <1>2. s \in held /\ ticket[c] # 0
    BY DEF IInv, NobodyWaitsForNothing, OwnerInv, ArrivedInv, InSection
  <1>3. Line!Waiting(c) = Waiters(s, pc)
    BY LineOfSemaphore DEF InSection
  <1>4. CASE pc[c] = "queued"
    <2>1. pc' = at
      BY <1>2, <1>4 DEF NotifyWaiters
    <2>2. PlaceInLine(c) = "waiting"
      BY <1>4, PlaceIs
    <2>3. PlaceInLine(c)' = "gone" /\ \A d \in Calls \ {c} : PlaceInLine(d)' = PlaceInLine(d)
      BY <1>1, <1>2, <2>1 DEF PlaceInLine, InSection
    <2> QED BY <2>2, <2>3 DEF Line!Next, Line!GiveUp
  <1>5. CASE pc[c] # "queued"
    <2>1. PlaceInLine(c) = "served" /\ s \notin taken
      BY <1>5, PlaceIs DEF InSection
    <2>2. Waiters(s, at) = Waiters(s, pc)
      BY <1>1, <1>5 DEF Waiters
    <2>3. CASE Waiters(s, at) = {} /\ pc' = at
      <3>1. PlaceInLine(c)' = "gone" /\ \A d \in Calls \ {c} : PlaceInLine(d)' = PlaceInLine(d)
        BY <1>1, <1>2, <2>3 DEF PlaceInLine, InSection
      <3>2. Line!Waiting(c) = {}
        BY <1>3, <2>2, <2>3
      <3> QED BY <2>1, <3>1, <3>2 DEF Line!Next, Line!Leave
    <2>4. ASSUME NEW w \in Waiters(s, at), FirstOf(w, Waiters(s, at)), pc' = [at EXCEPT ![w] = "granted"]
          PROVE  Line!Next
      <3>1. w \in Calls /\ w # c /\ pc[w] = "queued" /\ ticket[w] # 0
        BY <1>1, <1>5, <2>2, <2>4 DEF Waiters, IInv, ArrivedInv
      <3>2. pc'[w] = "granted" /\ pc'[c] = l /\ \A d \in Calls \ {c, w} : pc'[d] = pc[d]
        BY <1>1, <2>4, <3>1 DEF IInv, TypeOK
      <3>3. /\ PlaceInLine(c)' = "gone" /\ PlaceInLine(w)' = "served"
            /\ \A d \in Calls \ {c, w} : PlaceInLine(d)' = PlaceInLine(d)
        BY <1>2, <3>1, <3>2 DEF PlaceInLine, InSection
      <3>4. w \in Line!Waiting(c) /\ \A v \in Line!Waiting(c) : ticket[w] <= ticket[v]
        BY <1>3, <2>2, <2>4 DEF FirstOf
      <3>5. Line!Leave(c)
        BY <2>1, <3>1, <3>3, <3>4 DEF Line!Leave
      <3> QED BY <3>5 DEF Line!Next
    <2> QED BY <2>1, <2>3, <2>4 DEF NotifyWaiters
  <1> QED BY <1>4, <1>5

LEMMA GiveUpInLine ==
  ASSUME IInv, NEW c \in Calls, GiveUp(c) PROVE Line!Next
  <1> DEFINE failed == [pc EXCEPT ![c] = "failed"]
  <1>1. UNCHANGED <<arrivals, ticket>>
    BY DEF GiveUp
  <1>2. CASE pc[c] = "granted" /\ NotifyWaiters(sem[c], held \ {sem[c]}, failed)
    BY <1>1, <1>2, NotifyInLine
  <1>3. CASE pc[c] = "queued" /\ NotifyWaiters(sem[c], held, failed)
    BY <1>1, <1>3, NotifyInLine
  <1>4. CASE pc[c] = "queued" /\ pc' = failed /\ held' = held
    <2>1. NotifyWaiters(sem[c], held, failed)
      BY <1>4 DEF NotifyWaiters, IInv, NobodyWaitsForNothing
    <2> QED BY <1>1, <1>4, <2>1, NotifyInLine
  <1> QED BY <1>2, <1>3, <1>4 DEF GiveUp, Goto

LEMMA ReleaseInLine ==
  ASSUME IInv, NEW c \in Calls, Release(c) PROVE Line!Next
  <1>1. pc[c] = "releasing" /\ UNCHANGED <<arrivals, ticket>>
    BY DEF Release
  <1>2. NotifyWaiters(sem[c], held \ {sem[c]}, [pc EXCEPT ![c] = "done"])
    BY <1>1 DEF Release, IInv, OwnerInv, InSection
  <1> QED BY <1>1, <1>2, NotifyInLine

LEMMA QuietInLine ==
  ASSUME IInv, IInv', NEW c \in Calls,
         \/ LockManager(c) \/ Find(c) \/ Create(c) \/ Refind(c)
         \/ Wake(c) \/ Leave(c) \/ Cancel(c)
  PROVE  UNCHANGED Line!lineVars
  <1>1. UNCHANGED <<arrivals, ticket>>
    BY DEF LockManager, Find, Create, Refind, Wake, Leave, Cancel
  <1>2. \A d \in Calls \ {c} : pc'[d] = pc[d]
    BY DEF LockManager, Find, Create, Refind, Wake, Leave, Cancel, Goto, IInv, TypeOK
  <1>3. CASE LockManager(c) \/ Wake(c) \/ Leave(c) \/ Cancel(c)
    <2>1. \/ pc'[c] = pc[c] \/ ticket[c] = 0
          \/ Owner(c) /\ pc'[c] \in InSection
      BY <1>3 DEF LockManager, Wake, Leave, Cancel, Goto, IInv, TypeOK, ArrivedInv, InSection
    <2> QED BY <1>1, <1>2, <2>1, StepOutOfLine
  <1>4. CASE Find(c) \/ Create(c)
    <2>1. ticket[c] = 0
      BY <1>4 DEF Find, Create, IInv, ArrivedInv
    <2> QED BY <1>1, <1>2, <2>1, StepOutOfLine
  <1>5. CASE Refind(c)
    <2>1. pc[c] = "refinding" /\ handles[HandleOf[c]] # 0
      BY <1>5 DEF Refind, IInv, FoundInv, InSection
    <2>2. Owner(c) /\ pc'[c] = "releasing"
      BY <1>5, <2>1 DEF Refind, Goto, IInv, TypeOK, InSection
    <2> QED BY <1>1, <1>2, <2>2, StepOutOfLine DEF InSection
  <1> QED BY <1>3, <1>4, <1>5

LEMMA StepInLine ==
  ASSUME IInv, IInv', [Next]_vars PROVE [Line!Next]_(Line!lineVars)
  <1>1. ASSUME NEW c \in Calls, Step(c) \/ Cancel(c) PROVE [Line!Next]_(Line!lineVars)
    BY <1>1, AcquireInLine, GiveUpInLine, ReleaseInLine, QuietInLine DEF Step
  <1>2. CASE UNCHANGED vars
    BY <1>2 DEF vars, Line!lineVars, PlaceInLine
  <1> QED BY <1>1, <1>2 DEF Next, Done

LEMMA InitInLine == Init => Line!Init
  BY DEF Init, Line!Init, PlaceInLine

(* The manager and its semaphores implement a line per handle, for any     *)
(* calls and handles: nobody is overtaken, one is served at a time, and    *)
(* what one leaves is at once the next one's.                              *)
THEOREM SemaphoreIsALine == Spec => KeepsLine
  BY InitInLine, StepInLine, Inductive, PTL DEF Spec, KeepsLine, Line!Spec
===============================================================================
