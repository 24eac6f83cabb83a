----------------------------- MODULE ChatsProofs ------------------------------
(***************************************************************************)
(* The chats of the page, for any number of turns, chats and messages.  A  *)
(* turn adds its question and its reply to the chat it was begun in, so    *)
(* each message of a list has the home of its turn: no message is in two   *)
(* chats, and the order within a chat (InOrder) can be argued chat by chat *)
(* and step by step: a message is added at the end, the last of them go,   *)
(* one goes, one is edited.  The list in memory and the stored one are     *)
(* each in this order, and they differ only while the page is to be        *)
(* reloaded or has no chats; the rest of the invariant says how.           *)
(***************************************************************************)
EXTENDS Chats, SequenceTheorems, FiniteSetTheorems, WellFoundedInduction, NaturalsInduction, TLAPS

Names == [role : {"user", "assistant"}, turn : Turns]
Book == [id : Nat, messages : Seq(Message)]

Has(cs, n) == \E i \in 1..Len(cs) : n \in NamesIn(cs[i].messages)
IdsIn(cs) == {cs[i].id : i \in 1..Len(cs)}

(* What the order of messages is judged by. *)
Now == [at |-> at, home |-> home, past |-> past, made |-> made, removed |-> removed,
        edited |-> edited]

(* A message of chat c: its turn is at home there and has got so far, it   *)
(* has the text it was edited to, and its question was not sent with it.   *)
Placed(c, m, s) ==
  /\ s.home[m.turn] = c
  /\ s.at[m.turn] # "idle" /\ s.at[m.first] # "idle"
  /\ Name(m) \in s.edited => m.edited
  /\ m.role = "assistant" => s.at[m.turn] = "done"
  /\ m.role = "user" => \A i \in 1..Len(s.past[m.turn]) :
                          s.past[m.turn][i].role = "user" => s.past[m.turn][i].first # m.first

(* A reply is after its question.                                          *)
Follows(msgs, k, s) ==
  msgs[k].role = "assistant" =>
    \/ QuestionOf(msgs[k].turn) \in s.removed
    \/ \E j \in 1..k - 1 : Name(msgs[j]) = QuestionOf(msgs[k].turn)

(* No message is there twice, and none asks what another does.             *)
Apart(m1, m2) ==
  /\ Name(m1) # Name(m2)
  /\ m1.role = "user" /\ m2.role = "user" => m1.first # m2.first

InOrder(c, msgs, s) ==
  /\ msgs \in Seq(Message)
  /\ \A k \in 1..Len(msgs) : Placed(c, msgs[k], s) /\ Follows(msgs, k, s)
  /\ \A j, k \in 1..Len(msgs) : j # k => Apart(msgs[j], msgs[k])

(* So are those of a list of chats, of which each is there once.           *)
ListInOrder(cs, s) ==
  /\ cs \in Seq(Book)
  /\ \A i \in 1..Len(cs) : cs[i].id \in 1..s.made /\ InOrder(cs[i].id, cs[i].messages, s)
  /\ \A i, j \in 1..Len(cs) : i # j => cs[i].id # cs[j].id

(* s2 comes after s: turns have gone on, and messages were removed.        *)
Later(s, s2) ==
  /\ s.made \in Nat /\ s2.made \in Nat /\ s.made <= s2.made
  /\ s.removed \subseteq s2.removed /\ s2.edited = s.edited
  /\ \A t \in Turns :
       /\ s.at[t] # "idle" => s2.at[t] # "idle" /\ s2.home[t] = s.home[t] /\ s2.past[t] = s.past[t]
       /\ s.at[t] = "done" => s2.at[t] = "done"
-------------------------------------------------------------------------------
(* Messages.                                                               *)

LEMMA MessageIs ==
  ASSUME NEW m \in Message
  PROVE  m.role \in {"user", "assistant"} /\ m.turn \in Turns /\ m.first \in Turns /\ Name(m) \in Names
  BY DEF Message, Name, Names

LEMMA NamesAre ==
  ASSUME NEW n \in Names
  PROVE  n.turn \in Turns /\ n \in {QuestionOf(n.turn), ReplyOf(n.turn)}
  BY DEF Names, QuestionOf, ReplyOf

LEMMA NameIs ==
  ASSUME NEW m, NEW t
  PROVE  /\ Name(m) = QuestionOf(t) <=> m.role = "user" /\ m.turn = t
         /\ Name(m) = ReplyOf(t) <=> m.role = "assistant" /\ m.turn = t
         /\ QuestionOf(t).role = "user" /\ QuestionOf(t).turn = t
         /\ ReplyOf(t).role = "assistant" /\ ReplyOf(t).turn = t
         /\ Name(m).role = m.role /\ Name(m).turn = m.turn
  BY DEF Name, QuestionOf, ReplyOf

LEMMA NewMessages ==
  ASSUME NEW t \in Turns, NEW f \in Turns
  PROVE  /\ Question(t, f) \in Message /\ Reply(t) \in Message
         /\ Name(Question(t, f)) = QuestionOf(t) /\ Name(Reply(t)) = ReplyOf(t)
         /\ Question(t, f).role = "user" /\ Question(t, f).turn = t /\ Question(t, f).first = f
         /\ Reply(t).role = "assistant" /\ Reply(t).turn = t /\ Reply(t).first = t
  BY DEF Question, Reply, Message, Name, QuestionOf, ReplyOf

LEMMA InOrderLater ==
  ASSUME NEW c, NEW msgs, NEW s, NEW s2, InOrder(c, msgs, s), Later(s, s2)
  PROVE  InOrder(c, msgs, s2)
  <1>1. msgs \in Seq(Message) /\ \A j, k \in 1..Len(msgs) : j # k => Apart(msgs[j], msgs[k])
    BY DEF InOrder
  <1>2. ASSUME NEW k \in 1..Len(msgs) PROVE Placed(c, msgs[k], s2) /\ Follows(msgs, k, s2)
    <2>1. msgs[k] \in Message /\ Placed(c, msgs[k], s) /\ Follows(msgs, k, s)
      BY <1>1 DEF InOrder
    <2>2. msgs[k].turn \in Turns /\ msgs[k].first \in Turns
      BY <2>1, MessageIs
    <2>3. Placed(c, msgs[k], s2)
      BY <2>1, <2>2 DEF Later, Placed
    <2>4. Follows(msgs, k, s2)
      BY <2>1 DEF Later, Follows
    <2> QED
      BY <2>3, <2>4
  <1> QED
    BY <1>1, <1>2 DEF InOrder

(* A message that is new to the chat. *)
LEMMA InOrderAppend ==
  ASSUME NEW c, NEW msgs, NEW s, InOrder(c, msgs, s), NEW m \in Message,
         Name(m) \notin NamesIn(msgs),
         s.home[m.turn] = c, s.at[m.turn] # "idle", s.at[m.first] # "idle",
         Name(m) \notin s.edited,
         m.role = "user" =>
           /\ \A i \in 1..Len(s.past[m.turn]) :
                s.past[m.turn][i].role = "user" => s.past[m.turn][i].first # m.first
           /\ \A i \in 1..Len(msgs) : msgs[i].role = "user" => msgs[i].first # m.first,
         m.role = "assistant" =>
           s.at[m.turn] = "done" /\ (QuestionOf(m.turn) \in s.removed \cup NamesIn(msgs))
  PROVE  /\ InOrder(c, Append(msgs, m), s)
         /\ NamesIn(Append(msgs, m)) = NamesIn(msgs) \cup {Name(m)}
  <1> DEFINE new == Append(msgs, m)  n == Len(msgs)
  <1>1. msgs \in Seq(Message) /\ n \in Nat
    BY DEF InOrder
  <1>2. /\ new \in Seq(Message) /\ Len(new) = n + 1 /\ new[n + 1] = m
        /\ \A k \in 1..n : new[k] = msgs[k]
    BY <1>1, AppendProperties
  <1> HIDE DEF new
  <1>3. NamesIn(new) = NamesIn(msgs) \cup {Name(m)}
    BY <1>1, <1>2 DEF NamesIn
  <1>4. \A k \in 1..n : Apart(msgs[k], m) /\ Apart(m, msgs[k])
    BY <1>1 DEF NamesIn, Apart
  <1>5. \A j, k \in 1..Len(new) : j # k => Apart(new[j], new[k])
    BY <1>1, <1>2, <1>4 DEF InOrder
  <1>6. Follows(new, n + 1, s) /\ Placed(c, m, s)
    BY <1>1, <1>2 DEF NamesIn, Follows, Placed
  <1>7. \A k \in 1..n : Follows(new, k, s)
    BY <1>1, <1>2 DEF InOrder, Follows
  <1> QED
    BY <1>1, <1>2, <1>3, <1>5, <1>6, <1>7 DEF InOrder, new

(* Those before one of them. *)
LEMMA InOrderBefore ==
  ASSUME NEW c, NEW msgs, NEW s, InOrder(c, msgs, s), NEW k \in 1..Len(msgs)
  PROVE  /\ InOrder(c, SubSeq(msgs, 1, k - 1), s)
         /\ NamesIn(SubSeq(msgs, 1, k - 1)) \subseteq NamesIn(msgs)
         /\ \A i \in 1..Len(SubSeq(msgs, 1, k - 1)) : i < k /\ SubSeq(msgs, 1, k - 1)[i] = msgs[i]
         /\ Name(msgs[k]) \notin NamesIn(SubSeq(msgs, 1, k - 1))
  <1> DEFINE new == SubSeq(msgs, 1, k - 1)
  <1>1. msgs \in Seq(Message) /\ Len(msgs) \in Nat
    BY DEF InOrder
  <1>2. new \in Seq(Message) /\ Len(new) = k - 1 /\ \A i \in 1..k - 1 : new[i] = msgs[i]
    BY <1>1
  <1> HIDE DEF new
  <1>3. ASSUME NEW i \in 1..k - 1 PROVE Follows(new, i, s)
    <2>1. i \in 1..Len(msgs) /\ \A j \in 1..i - 1 : j \in 1..k - 1 /\ new[j] = msgs[j]
      BY <1>1, <1>2
    <2>2. Follows(msgs, i, s)
      BY <2>1 DEF InOrder
    <2> QED
      BY <1>2, <2>1, <2>2 DEF Follows
  <1>4. NamesIn(new) \subseteq NamesIn(msgs) /\ Name(msgs[k]) \notin NamesIn(new)
    <2>1. \A i \in 1..k - 1 : i \in 1..Len(msgs) /\ i # k /\ new[i] = msgs[i]
      BY <1>1, <1>2
    <2>2. \A i \in 1..k - 1 : Name(msgs[i]) # Name(msgs[k])
      BY <2>1 DEF InOrder, Apart
    <2> QED
      BY <1>2, <2>1, <2>2 DEF NamesIn
  <1> QED
    BY <1>1, <1>2, <1>3, <1>4 DEF InOrder, new

LEMMA RemoveAtIs ==
  ASSUME NEW S, NEW msgs \in Seq(S), NEW k \in 1..Len(msgs)
  PROVE  /\ RemoveAt(msgs, k) \in Seq(S) /\ Len(RemoveAt(msgs, k)) = Len(msgs) - 1
         /\ \A i \in 1..Len(msgs) - 1 : RemoveAt(msgs, k)[i] = IF i < k THEN msgs[i] ELSE msgs[i + 1]
  <1> DEFINE a == SubSeq(msgs, 1, k - 1)  b == SubSeq(msgs, k + 1, Len(msgs))
  <1>1. /\ a \in Seq(S) /\ Len(a) = k - 1 /\ \A i \in 1..k - 1 : a[i] = msgs[i]
        /\ b \in Seq(S) /\ Len(b) = Len(msgs) - k /\ \A i \in 1..Len(b) : b[i] = msgs[k + i]
    BY SMTT(30)
  <1>2. RemoveAt(msgs, k) = a \o b
    BY DEF RemoveAt
  <1> HIDE DEF a, b
  <1>3. /\ a \o b \in Seq(S) /\ Len(a \o b) = Len(msgs) - 1
        /\ \A i \in 1..Len(msgs) - 1 : (a \o b)[i] = IF i <= k - 1 THEN a[i] ELSE b[i - (k - 1)]
    BY <1>1, ConcatProperties
  <1>4. \A i \in 1..Len(msgs) - 1 : i > k - 1 => i - (k - 1) \in 1..Len(b) /\ k + (i - (k - 1)) = i + 1
    BY <1>1
  <1> QED
    BY <1>1, <1>2, <1>3, <1>4

(* The places of what is left, one by one. *)
LEMMA RemoveAtKeeps ==
  ASSUME NEW S, NEW msgs \in Seq(S), NEW k \in 1..Len(msgs)
  PROVE  /\ \A i \in 1..Len(RemoveAt(msgs, k)) : \E j \in 1..Len(msgs) : j # k /\ RemoveAt(msgs, k)[i] = msgs[j]
         /\ \A j \in 1..Len(msgs) : j # k => \E i \in 1..Len(RemoveAt(msgs, k)) : RemoveAt(msgs, k)[i] = msgs[j]
  <1> DEFINE new == RemoveAt(msgs, k)
  <1>0. /\ Len(msgs) \in Nat /\ Len(new) = Len(msgs) - 1
        /\ \A i \in 1..Len(msgs) - 1 : new[i] = IF i < k THEN msgs[i] ELSE msgs[i + 1]
    BY RemoveAtIs
  <1> HIDE DEF new
  <1>1. \A i \in 1..Len(new) : \E j \in 1..Len(msgs) : j # k /\ new[i] = msgs[j]
    <2> TAKE i \in 1..Len(new)
    <2>1. CASE i < k
      BY <1>0, <2>1
    <2>2. CASE i >= k
      <3>1. i + 1 \in 1..Len(msgs) /\ i + 1 # k /\ new[i] = msgs[i + 1]
        BY <1>0, <2>2
      <3> QED
        BY <3>1
    <2> QED
      BY <1>0, <2>1, <2>2
  <1>2. ASSUME NEW j \in 1..Len(msgs), j # k PROVE \E i \in 1..Len(new) : new[i] = msgs[j]
    <2>1. CASE j < k
      BY <1>0, <2>1
    <2>2. CASE j > k
      <3>1. j - 1 \in 1..Len(new) /\ new[j - 1] = msgs[j]
        BY <1>0, <2>2
      <3> QED
        BY <3>1
    <2> QED
      BY <1>0, <1>2, <2>1, <2>2
  <1> QED
    BY <1>1, <1>2 DEF new

(* All but one of them. *)
LEMMA InOrderDrop ==
  ASSUME NEW c, NEW msgs, NEW s, InOrder(c, msgs, s), NEW k \in 1..Len(msgs),
         Name(msgs[k]) \in s.removed
  PROVE  /\ InOrder(c, RemoveAt(msgs, k), s)
         /\ NamesIn(RemoveAt(msgs, k)) = NamesIn(msgs) \ {Name(msgs[k])}
  <1> DEFINE new == RemoveAt(msgs, k)  n == Len(msgs)
  <1>1. msgs \in Seq(Message) /\ n \in Nat
    BY DEF InOrder
  <1>2. /\ new \in Seq(Message) /\ Len(new) = n - 1
        /\ \A i \in 1..n - 1 : new[i] = IF i < k THEN msgs[i] ELSE msgs[i + 1]
    BY <1>1, RemoveAtIs
  <1>3. /\ \A i \in 1..Len(new) : \E j \in 1..n : j # k /\ new[i] = msgs[j]
        /\ \A j \in 1..n : j # k => \E i \in 1..Len(new) : new[i] = msgs[j]
    BY <1>1, RemoveAtKeeps
  <1> HIDE DEF new
  <1>4. NamesIn(new) = NamesIn(msgs) \ {Name(msgs[k])}
    <2>1. \A j \in 1..n : j # k => Name(msgs[j]) # Name(msgs[k])
      BY DEF InOrder, Apart
    <2> QED
      BY <1>3, <2>1 DEF NamesIn
  <1>5. \A i, j \in 1..Len(new) : i # j => Apart(new[i], new[j])
    <2> TAKE i, j \in 1..Len(new)
    <2> DEFINE a == IF i < k THEN i ELSE i + 1  b == IF j < k THEN j ELSE j + 1
    <2>1. a \in 1..n /\ b \in 1..n /\ new[i] = msgs[a] /\ new[j] = msgs[b] /\ (i # j => a # b)
      BY <1>1, <1>2, SMTT(30)
    <2> HIDE DEF a, b
    <2> QED
      BY <2>1 DEF InOrder
  <1>6. \A i \in 1..Len(new) : Follows(new, i, s)
    <2> SUFFICES ASSUME NEW i \in 1..Len(new), new[i].role = "assistant",
                        QuestionOf(new[i].turn) \notin s.removed
                 PROVE  \E j \in 1..i - 1 : Name(new[j]) = QuestionOf(new[i].turn)
      BY DEF Follows
    <2> DEFINE a == IF i < k THEN i ELSE i + 1
    <2>1. a \in 1..n /\ new[i] = msgs[a]
      BY <1>1, <1>2
    <2>2. PICK q \in 1..a - 1 : Name(msgs[q]) = QuestionOf(new[i].turn)
      <3> HIDE DEF a
      <3> QED
        BY <2>1 DEF InOrder, Follows
    <2>3. q # k
      BY <2>2
    <2>4. CASE q < k
      <3>1. q \in 1..i - 1 /\ new[q] = msgs[q]
        BY <1>1, <1>2, <2>2, <2>4
      <3> QED
        BY <2>2, <3>1
    <2>5. CASE q > k
      <3>1. q - 1 \in 1..i - 1 /\ new[q - 1] = msgs[q]
        <4>1. i >= k
          BY <2>2, <2>5
        <4> QED
          BY <1>1, <1>2, <2>2, <2>5, <4>1
      <3> QED
        BY <2>2, <3>1
    <2> QED
      BY <2>2, <2>3, <2>4, <2>5
  <1>7. \A i \in 1..Len(new) : Placed(c, new[i], s)
    BY <1>3 DEF InOrder
  <1> QED
    BY <1>2, <1>4, <1>5, <1>6, <1>7 DEF InOrder, new

LEMMA EditedIs ==
  ASSUME NEW m \in Message, NEW new, new = [m EXCEPT !.edited = TRUE]
  PROVE  /\ new \in Message /\ new.edited
         /\ new.role = m.role /\ new.turn = m.turn /\ new.first = m.first
  BY DEF Message

(* One of them is edited. *)
LEMMA InOrderEdit ==
  ASSUME NEW c, NEW msgs, NEW s, InOrder(c, msgs, s), NEW k \in 1..Len(msgs),
         NEW s2, s2.edited = s.edited \cup {Name(msgs[k])},
         s2.at = s.at, s2.home = s.home, s2.past = s.past, s2.removed = s.removed
  PROVE  /\ InOrder(c, [msgs EXCEPT ![k].edited = TRUE], s2)
         /\ NamesIn([msgs EXCEPT ![k].edited = TRUE]) = NamesIn(msgs)
  <1> DEFINE new == [msgs EXCEPT ![k].edited = TRUE]  n == Len(msgs)
  <1>1. msgs \in Seq(Message) /\ n \in Nat
    BY DEF InOrder
  <1> DEFINE e == [msgs[k] EXCEPT !.edited = TRUE]
  <1>0. e \in Message
    <2>1. msgs[k] \in Message
      BY <1>1
    <2> QED
      BY <2>1, EditedIs
  <1>2. new \in Seq(Message) /\ Len(new) = n /\ new[k] = e /\ \A i \in 1..n : i # k => new[i] = msgs[i]
    <2>1. new = [msgs EXCEPT ![k] = e]
      OBVIOUS
    <2> HIDE DEF new, e
    <2> QED
      BY <1>0, <1>1, <2>1
  <1> HIDE DEF new
  <1>3. /\ new[k].role = msgs[k].role /\ new[k].turn = msgs[k].turn /\ new[k].first = msgs[k].first
        /\ new[k].edited
    <2>1. msgs[k] \in Message
      BY <1>1
    <2> QED
      BY <1>2, <2>1, EditedIs
  <1>4. \A i \in 1..n : /\ new[i].role = msgs[i].role /\ new[i].turn = msgs[i].turn
                        /\ new[i].first = msgs[i].first /\ Name(new[i]) = Name(msgs[i])
    BY <1>2, <1>3 DEF Name
  <1>5. NamesIn(new) = NamesIn(msgs)
    BY <1>2, <1>4 DEF NamesIn
  <1>6. \A i \in 1..n : i # k => Name(msgs[i]) # Name(msgs[k])
    BY DEF InOrder, Apart
  <1>7. \A i \in 1..n : Placed(c, new[i], s2)
    <2> TAKE i \in 1..n
    <2>1. Placed(c, msgs[i], s)
      BY DEF InOrder
    <2>2. Name(new[i]) \in s2.edited => new[i].edited
      BY <1>2, <1>3, <1>4, <1>6, <2>1 DEF Placed
    <2> QED
      BY <1>4, <2>1, <2>2 DEF Placed
  <1>8. \A i \in 1..n : Follows(new, i, s2)
    BY <1>4 DEF InOrder, Follows
  <1>9. \A i, j \in 1..n : i # j => Apart(new[i], new[j])
    BY <1>4 DEF InOrder, Apart
  <1> QED
    BY <1>2, <1>5, <1>7, <1>8, <1>9 DEF InOrder, new
-------------------------------------------------------------------------------
(* Lists of chats.                                                         *)

LEMMA ListLater ==
  ASSUME NEW cs, NEW s, NEW s2, ListInOrder(cs, s), Later(s, s2)
  PROVE  ListInOrder(cs, s2)
  <1>1. \A i \in 1..Len(cs) : InOrder(cs[i].id, cs[i].messages, s2)
    BY InOrderLater DEF ListInOrder
  <1>2. \A i \in 1..Len(cs) : cs[i].id \in 1..s2.made
    BY DEF ListInOrder, Later
  <1> QED
    BY <1>1, <1>2 DEF ListInOrder

(* The messages that are in a list. *)
LEMMA HasIs ==
  ASSUME NEW cs, NEW s, ListInOrder(cs, s), NEW i \in 1..Len(cs), NEW n \in NamesIn(cs[i].messages)
  PROVE  /\ n \in Names /\ s.home[n.turn] = cs[i].id /\ s.at[n.turn] # "idle"
         /\ n.role = "assistant" => s.at[n.turn] = "done"
  <1>1. PICK k \in 1..Len(cs[i].messages) : n = Name(cs[i].messages[k])
    BY DEF NamesIn
  <1> DEFINE m == cs[i].messages[k]
  <1>2. m \in Message /\ Placed(cs[i].id, m, s)
    BY DEF ListInOrder, InOrder
  <1> HIDE DEF m
  <1>3. n = Name(m)
    BY <1>1 DEF m
  <1> QED
    BY <1>2, <1>3, MessageIs, NameIs DEF Placed

(* A chat has other messages. *)
OthersInOrder(cs, p, s) == \A i \in 1..Len(cs) : i # p => InOrder(cs[i].id, cs[i].messages, s)

LEMMA ListPutOne ==
  ASSUME NEW cs, NEW s, NEW s2, ListInOrder(cs, s), NEW p \in 1..Len(cs), s2.made = s.made,
         OthersInOrder(cs, p, s2), NEW msgs, InOrder(cs[p].id, msgs, s2), NEW new, new = Put(cs, cs[p].id, msgs)
  PROVE  /\ ListInOrder(new, s2) /\ Len(new) = Len(cs) /\ IdsIn(new) = IdsIn(cs) /\ new # <<>>
         /\ \A n : Has(new, n) <=> n \in NamesIn(msgs) \/ (Has(cs, n) /\ n \notin NamesIn(cs[p].messages))
  <1>1. /\ cs \in Seq(Book) /\ Len(cs) \in Nat /\ msgs \in Seq(Message)
        /\ \A i \in 1..Len(cs) : cs[i] \in Book /\ (cs[i].id = cs[p].id <=> i = p)
    BY DEF ListInOrder, InOrder
  <1> DEFINE e == [cs[p] EXCEPT !.messages = msgs]
  <1>2. e \in Book /\ e.id = cs[p].id /\ e.messages = msgs
    BY <1>1 DEF Book
  <1>3. new = [i \in 1..Len(cs) |-> IF i = p THEN e ELSE cs[i]]
    BY <1>1 DEF Put
  <1> HIDE DEF e
  <1>4. /\ new \in Seq(Book) /\ Len(new) = Len(cs) /\ new[p] = e
        /\ \A i \in 1..Len(cs) : i # p => new[i] = cs[i]
    BY <1>1, <1>2, <1>3
  <1>5. \A i \in 1..Len(cs) : new[i].id = cs[i].id
    BY <1>2, <1>4
  <1>6. \A i \in 1..Len(cs) : InOrder(new[i].id, new[i].messages, s2)
    BY <1>2, <1>4 DEF OthersInOrder
  <1>7. ListInOrder(new, s2)
    BY <1>4, <1>5, <1>6 DEF ListInOrder
  <1>8. IdsIn(new) = IdsIn(cs) /\ new # <<>>
    BY <1>1, <1>4, <1>5 DEF IdsIn
  <1>9. \A n : \A i \in 1..Len(cs) : i # p /\ n \in NamesIn(cs[i].messages) => n \notin NamesIn(cs[p].messages)
    BY <1>1, HasIs
  <1>10. ASSUME NEW n PROVE Has(new, n) <=> n \in NamesIn(msgs) \/ (Has(cs, n) /\ n \notin NamesIn(cs[p].messages))
    <2>1. Has(new, n) <=> n \in NamesIn(msgs) \/ \E i \in 1..Len(cs) : i # p /\ n \in NamesIn(cs[i].messages)
      BY <1>2, <1>4 DEF Has
    <2>2. Has(cs, n) /\ n \notin NamesIn(cs[p].messages) <=>
            \E i \in 1..Len(cs) : i # p /\ n \in NamesIn(cs[i].messages)
      BY <1>9 DEF Has
    <2> QED
      BY <2>1, <2>2
  <1> QED
    BY <1>4, <1>7, <1>8, <1>10

LEMMA ListPut ==
  ASSUME NEW cs, NEW s, ListInOrder(cs, s), NEW p \in 1..Len(cs),
         NEW msgs, InOrder(cs[p].id, msgs, s), NEW new, new = Put(cs, cs[p].id, msgs)
  PROVE  /\ ListInOrder(new, s) /\ Len(new) = Len(cs) /\ IdsIn(new) = IdsIn(cs) /\ new # <<>>
         /\ \A n : Has(new, n) <=> n \in NamesIn(msgs) \/ (Has(cs, n) /\ n \notin NamesIn(cs[p].messages))
  <1>1. OthersInOrder(cs, p, s)
    BY DEF ListInOrder, OthersInOrder
  <1> QED
    BY <1>1, ListPutOne

(* A message is added to a chat. *)
LEMMA AddIsPut ==
  ASSUME NEW cs \in Seq(Book), NEW p \in 1..Len(cs), NEW m,
         \A i \in 1..Len(cs) : cs[i].id = cs[p].id => i = p
  PROVE  /\ AddMessage(cs, cs[p].id, m) = Put(cs, cs[p].id, Append(cs[p].messages, m))
         /\ \A msgs : AddMessage(Put(cs, cs[p].id, msgs), cs[p].id, m) = Put(cs, cs[p].id, Append(msgs, m))
  <1>0. \A i \in 1..Len(cs) : cs[i] \in Book
    OBVIOUS
  <1>1. \A i \in 1..Len(cs) : cs[i] \in [id : Nat, messages : Seq(Message)]
    BY <1>0 DEF Book
  <1>2. AddMessage(cs, cs[p].id, m) = Put(cs, cs[p].id, Append(cs[p].messages, m))
    BY <1>1 DEF AddMessage, Put
  <1>3. ASSUME NEW msgs
        PROVE  AddMessage(Put(cs, cs[p].id, msgs), cs[p].id, m) = Put(cs, cs[p].id, Append(msgs, m))
    <2> DEFINE new == Put(cs, cs[p].id, msgs)
    <2>1. /\ new \in Seq([id : Nat, messages : {msgs} \cup Seq(Message)]) /\ Len(new) = Len(cs)
          /\ \A i \in 1..Len(cs) : new[i] = IF cs[i].id = cs[p].id THEN [cs[i] EXCEPT !.messages = msgs] ELSE cs[i]
      BY <1>1 DEF Put
    <2>2. \A i \in 1..Len(cs) : new[i].id = cs[i].id
      BY <1>1, <2>1
    <2> HIDE DEF new
    <2>3. \A i \in 1..Len(cs) : cs[i].id = cs[p].id =>
            [new[i] EXCEPT !.messages = Append(@, m)] = [cs[i] EXCEPT !.messages = Append(msgs, m)]
      BY <1>1, <2>1
    <2>4. AddMessage(new, cs[p].id, m) = Put(cs, cs[p].id, Append(msgs, m))
      <3> DEFINE row == [i \in 1..Len(cs) |-> IF cs[i].id = cs[p].id
                                             THEN [cs[i] EXCEPT !.messages = Append(msgs, m)] ELSE cs[i]]
      <3>1. Put(cs, cs[p].id, Append(msgs, m)) = row
        BY DEF Put
      <3>2. AddMessage(new, cs[p].id, m) = row
        BY <2>1, <2>2, <2>3 DEF AddMessage
      <3> QED
        BY <3>1, <3>2
    <2> QED
      BY <2>4 DEF new
  <1> QED
    BY <1>2, <1>3

LEMMA AddToNone ==
  ASSUME NEW cs \in Seq(Book), NEW c, c \notin IdsIn(cs), NEW m
  PROVE  AddMessage(cs, c, m) = cs
  BY DEF AddMessage, IdsIn

(* A chat is deleted. *)
LEMMA ListDrop ==
  ASSUME NEW cs, NEW s, ListInOrder(cs, s), NEW p \in 1..Len(cs), NEW new, new = RemoveAt(cs, p)
  PROVE  /\ ListInOrder(new, s) /\ IdsIn(new) = IdsIn(cs) \ {cs[p].id}
         /\ \A n : Has(new, n) <=> Has(cs, n) /\ n \notin NamesIn(cs[p].messages)
  <1>1. cs \in Seq(Book) /\ Len(cs) \in Nat /\ \A i \in 1..Len(cs) : cs[i].id = cs[p].id <=> i = p
    BY DEF ListInOrder
  <1>2. /\ new \in Seq(Book) /\ Len(new) = Len(cs) - 1
        /\ \A i \in 1..Len(cs) - 1 : new[i] = IF i < p THEN cs[i] ELSE cs[i + 1]
    BY <1>1, RemoveAtIs
  <1>3. /\ \A i \in 1..Len(new) : \E j \in 1..Len(cs) : j # p /\ new[i] = cs[j]
        /\ \A j \in 1..Len(cs) : j # p => \E i \in 1..Len(new) : new[i] = cs[j]
    BY <1>1, RemoveAtKeeps
  <1>4. ASSUME NEW i \in 1..Len(new), NEW j \in 1..Len(new), i # j PROVE new[i].id # new[j].id
    <2> DEFINE a == IF i < p THEN i ELSE i + 1  b == IF j < p THEN j ELSE j + 1
    <2>1. a \in 1..Len(cs) /\ b \in 1..Len(cs) /\ new[i] = cs[a] /\ new[j] = cs[b] /\ a # b
      BY <1>1, <1>2, <1>4
    <2> HIDE DEF a, b
    <2> QED
      BY <2>1 DEF ListInOrder
  <1>5. ListInOrder(new, s)
    BY <1>2, <1>3, <1>4 DEF ListInOrder
  <1>6. IdsIn(new) = IdsIn(cs) \ {cs[p].id}
    <2>0. \A j \in 1..Len(cs) : cs[j].id \in IdsIn(cs)
      BY DEF IdsIn
    <2>1. ASSUME NEW i \in 1..Len(new) PROVE new[i].id \in IdsIn(cs) \ {cs[p].id}
      <3>1. PICK j \in 1..Len(cs) : j # p /\ new[i] = cs[j]
        BY <1>3
      <3>2. cs[j].id # cs[p].id
        BY <1>1, <3>1
      <3>3. new[i].id = cs[j].id
        BY <3>1
      <3> QED
        BY <2>0, <3>2, <3>3
    <2>2. \A j \in 1..Len(cs) : j # p => cs[j].id \in IdsIn(new)
      BY <1>3 DEF IdsIn
    <2>3. IdsIn(new) \subseteq IdsIn(cs) \ {cs[p].id}
      BY <2>1 DEF IdsIn
    <2>4. IdsIn(cs) \ {cs[p].id} \subseteq IdsIn(new)
      <3> SUFFICES ASSUME NEW j \in 1..Len(cs), cs[j].id # cs[p].id PROVE cs[j].id \in IdsIn(new)
        BY DEF IdsIn
      <3> QED
        BY <2>2
    <2> QED
      BY <2>3, <2>4
  <1>7. \A n : \A i \in 1..Len(cs) : i # p /\ n \in NamesIn(cs[i].messages) => n \notin NamesIn(cs[p].messages)
    BY <1>1, HasIs
  <1>8. ASSUME NEW n PROVE Has(new, n) <=> Has(cs, n) /\ n \notin NamesIn(cs[p].messages)
    <2>1. Has(new, n) <=> \E i \in 1..Len(cs) : i # p /\ n \in NamesIn(cs[i].messages)
      BY <1>3 DEF Has
    <2> QED
      BY <1>7, <2>1 DEF Has
  <1> QED
    BY <1>5, <1>6, <1>8

(* A chat is made, before the others or behind them. *)
LEMMA ListMake ==
  ASSUME NEW cs, NEW s, ListInOrder(cs, s), NEW c \in 1..s.made, c \notin IdsIn(cs), s.made \in Nat,
         NEW new, new \in {<<[id |-> c, messages |-> <<>>]>> \o cs, Append(cs, [id |-> c, messages |-> <<>>])}
  PROVE  /\ ListInOrder(new, s) /\ IdsIn(new) = IdsIn(cs) \cup {c} /\ new # <<>>
         /\ \A n : Has(new, n) <=> Has(cs, n)
  <1> DEFINE e == [id |-> c, messages |-> <<>>]
  <1>1. cs \in Seq(Book) /\ Len(cs) \in Nat
    BY DEF ListInOrder
  <1>2. e \in Book /\ e.id = c /\ e.messages = <<>> /\ NamesIn(e.messages) = {} /\ InOrder(c, e.messages, s)
    BY DEF Book, NamesIn, InOrder
  <1> HIDE DEF e
  <1>3. PICK d \in {0, 1}, p \in 1..Len(cs) + 1 :
          /\ new \in Seq(Book) /\ Len(new) = Len(cs) + 1
          /\ p = IF d = 1 THEN 1 ELSE Len(cs) + 1
          /\ new[p] = e /\ \A i \in 1..Len(cs) : i + d # p /\ new[i + d] = cs[i]
    <2>1. CASE new = <<e>> \o cs
      <3>1. <<e>> \in Seq(Book) /\ Len(<<e>>) = 1 /\ <<e>>[1] = e
        BY <1>2
      <3>2. /\ new \in Seq(Book) /\ Len(new) = Len(cs) + 1 /\ new[1] = e
            /\ \A i \in 1..Len(cs) : i + 1 # 1 /\ new[i + 1] = cs[i]
        BY <1>1, <2>1, <3>1
      <3> QED
        BY <1>1, <3>2
    <2>2. CASE new = Append(cs, e)
      <3>1. /\ new \in Seq(Book) /\ Len(new) = Len(cs) + 1 /\ new[Len(cs) + 1] = e
            /\ \A i \in 1..Len(cs) : i + 0 # Len(cs) + 1 /\ new[i + 0] = cs[i]
        BY <1>1, <1>2, <2>2, AppendProperties
      <3> QED
        BY <1>1, <3>1
    <2> QED
      BY <2>1, <2>2 DEF e
  <1>4. \A k \in 1..Len(new) : k = p \/ \E i \in 1..Len(cs) : k = i + d
    <2> TAKE k \in 1..Len(new)
    <2>1. k # p => k - d \in 1..Len(cs) /\ k = (k - d) + d
      BY <1>1, <1>3
    <2> QED
      BY <2>1
  <1>5. \A i \in 1..Len(cs) : i + d \in 1..Len(new) /\ cs[i].id # c
    BY <1>1, <1>3 DEF IdsIn
  <1>6. ListInOrder(new, s)
    <2>1. ASSUME NEW k \in 1..Len(new)
          PROVE  new[k].id \in 1..s.made /\ InOrder(new[k].id, new[k].messages, s)
      <3>1. CASE k = p
        BY <1>2, <1>3, <3>1
      <3>2. CASE k # p
        <4>1. PICK i \in 1..Len(cs) : new[k] = cs[i]
          BY <1>3, <1>4, <3>2
        <4> QED
          BY <4>1 DEF ListInOrder
      <3> QED
        BY <3>1, <3>2
    <2>2. ASSUME NEW k \in 1..Len(new), NEW l \in 1..Len(new), k # l PROVE new[k].id # new[l].id
      <3>1. CASE k = p
        <4>1. PICK j \in 1..Len(cs) : l = j + d
          BY <1>4, <2>2, <3>1
        <4> QED
          BY <1>2, <1>3, <1>5, <3>1, <4>1
      <3>2. CASE l = p
        <4>1. PICK i \in 1..Len(cs) : k = i + d
          BY <1>4, <2>2, <3>2
        <4> QED
          BY <1>2, <1>3, <1>5, <3>2, <4>1
      <3>3. CASE k # p /\ l # p
        <4>1. PICK i \in 1..Len(cs), j \in 1..Len(cs) : k = i + d /\ l = j + d
          BY <1>4, <3>3
        <4>2. i # j /\ new[k] = cs[i] /\ new[l] = cs[j]
          BY <1>3, <2>2, <4>1
        <4> QED
          BY <4>2 DEF ListInOrder
      <3> QED
        BY <3>1, <3>2, <3>3
    <2> QED
      BY <1>3, <2>1, <2>2 DEF ListInOrder
  <1>7. IdsIn(new) = IdsIn(cs) \cup {c} /\ new # <<>>
    <2>1. \A k \in 1..Len(new) : new[k].id \in IdsIn(cs) \cup {c}
      BY <1>2, <1>3, <1>4 DEF IdsIn
    <2>2. p \in 1..Len(new) /\ new[p].id = c
      BY <1>1, <1>2, <1>3
    <2>3. \A i \in 1..Len(cs) : i + d \in 1..Len(new) /\ new[i + d].id = cs[i].id
      BY <1>3, <1>5
    <2>4. IdsIn(new) \subseteq IdsIn(cs) \cup {c}
      BY <2>1 DEF IdsIn
    <2>5. c \in IdsIn(new) /\ IdsIn(cs) \subseteq IdsIn(new)
      BY <2>2, <2>3 DEF IdsIn
    <2>6. new # <<>>
      BY <1>1, <1>3
    <2> QED
      BY <2>4, <2>5, <2>6
  <1>8. \A n : Has(new, n) <=> Has(cs, n)
    <2>1. \A n : n \notin NamesIn(new[p].messages)
      BY <1>2, <1>3
    <2>2. \A i \in 1..Len(cs) : i + d \in 1..Len(new) /\ new[i + d] = cs[i]
      BY <1>3, <1>5
    <2>3. \A k \in 1..Len(new) : k = p \/ \E i \in 1..Len(cs) : new[k] = cs[i]
      BY <1>3, <1>4
    <2> QED
      BY <2>1, <2>2, <2>3 DEF Has
  <1> QED
    BY <1>6, <1>7, <1>8
-------------------------------------------------------------------------------
(* The invariant.                                                          *)

ChatsTypes ==
  /\ at \in [Turns -> {"idle", "token", "reply", "done", "failed"}]
  /\ home \in [Turns -> Nat] /\ past \in [Turns -> Seq(Message)] /\ made \in Nat \ {0}

ListsInOrder == ListInOrder(chats, Now) /\ ListInOrder(saved, Now)

(* What was removed or edited was there.                                   *)
ChangesAreOfTurns ==
  /\ \A n \in removed : /\ n \in Names /\ at[n.turn] # "idle"
                        /\ n.role = "assistant" => at[n.turn] = "done"
  /\ \A n \in edited : n \in Names /\ n.role = "user" /\ at[n.turn] # "idle"

(* A question is there, always while its turn is under way, and a reply.   *)
Asked ==
  \A t \in Turns : /\ at[t] # "idle" /\ (~reset \/ at[t] \in InFlight)
                   /\ QuestionOf(t) \notin removed
                   => Has(chats, QuestionOf(t))
Answered ==
  ~reset => \A t \in Turns : at[t] = "done" /\ ReplyOf(t) \notin removed => Has(chats, ReplyOf(t))

(* What is there is stored, and what was removed is not.                   *)
Stored == chats # <<>> => \A n \in Names \ removed : Has(chats, n) => Has(saved, n)
SavedClean == ~reset /\ ~late /\ chats # <<>> => \A n \in removed : ~Has(saved, n)
Clean == ~reset /\ ~late /\ ~unloading => \A n \in removed : ~Has(chats, n)
Kept == ~late => imported \subseteq IdsIn(saved) /\ (~unloading => imported \subseteq IdsIn(chats))

ChatsInv ==
  /\ ChatsTypes /\ ListsInOrder /\ ChangesAreOfTurns /\ Asked /\ Answered /\ Stored
  /\ SavedClean /\ Clean /\ Kept

LEMMA ChatsInitInv == Init => ChatsInv
  <1> SUFFICES ASSUME Init PROVE ChatsInv
    OBVIOUS
  <1> USE BoundsAssumption DEF Init
  <1>1. /\ chats = <<[id |-> 1, messages |-> <<>>]>> /\ saved = chats /\ Len(chats) = 1
        /\ chats[1].id = 1 /\ chats[1].messages = <<>>
    BY DEF SampleChat
  <1>2. ChatsTypes
    BY DEF ChatsTypes
  <1>3. ListInOrder(chats, Now)
    <2>1. SampleChat \in Book /\ chats = <<SampleChat>> /\ SampleChat = [id |-> 1, messages |-> <<>>]
      BY DEF SampleChat, Book
    <2>2. chats \in Seq(Book)
      BY <2>1
    <2>3. \A i \in 1..Len(chats) : i = 1
      BY <1>1
    <2>4. InOrder(1, <<>>, Now)
      BY DEF InOrder
    <2>5. 1 \in 1..Now.made
      BY DEF Now
    <2> QED
      BY <1>1, <2>2, <2>3, <2>4, <2>5 DEF ListInOrder
  <1>4. \A t \in Turns : at[t] = "idle"
    OBVIOUS
  <1> QED
    BY <1>1, <1>2, <1>3, <1>4 DEF ChatsInv, ListsInOrder, ChangesAreOfTurns, Asked, Answered, Stored,
       SavedClean, Clean, Kept

(* Nothing of this is about what page is shown. *)
LEMMA ViewStep ==
  ASSUME ChatsInv, UNCHANGED <<chats, saved, at, home, past, made, unloading, imported, late, removed, edited, reset>>
  PROVE  ChatsInv'
  BY DEF ChatsInv, ChatsTypes, ListsInOrder, ChangesAreOfTurns, Asked, Answered, Stored, SavedClean,
     Clean, Kept, Now

(* The place of a chat. *)
LEMMA PositionIs ==
  ASSUME ListsInOrder, NEW c, HasChat(c)
  PROVE  /\ Position(c) \in 1..Len(chats) /\ chats[Position(c)].id = c
         /\ MessagesOf(c) = chats[Position(c)].messages /\ InOrder(c, MessagesOf(c), Now)
         /\ chats # <<>> /\ \A i \in 1..Len(chats) : chats[i].id = c => i = Position(c)
  <1>1. Position(c) \in WithId(chats, c)
    BY DEF HasChat, Position
  <1>2. Position(c) \in 1..Len(chats) /\ chats[Position(c)].id = c
    BY <1>1 DEF WithId
  <1> QED
    BY <1>2 DEF MessagesOf, ListsInOrder, ListInOrder

LEMMA NoPosition ==
  ASSUME NEW c, ~HasChat(c)
  PROVE  c \notin IdsIn(chats)
  BY DEF HasChat, WithId, IdsIn

(* The list is changed while the page is to stay. *)
LEMMA SetKeeps ==
  ASSUME ChatsInv, NEW cs, SetChats(cs), ListInOrder(cs, Now'), ListInOrder(saved, Now'),
         ~unloading, UNCHANGED <<unloading, late, reset>>,
         ~reset /\ ~late => \A n \in removed' : ~Has(cs, n),
         ~late => imported' \subseteq IdsIn(cs)
  PROVE  ListsInOrder' /\ Stored' /\ SavedClean' /\ Clean' /\ Kept'
  <1>1. chats' = cs
    BY DEF SetChats
  <1>2. CASE cs # <<>>
    BY <1>1, <1>2 DEF SetChats, ListsInOrder, Stored, SavedClean, Clean, Kept
  <1>3. CASE cs = <<>>
    <2>1. saved' = saved
      BY <1>3 DEF SetChats
    <2>2. IdsIn(cs) = {}
      BY <1>3 DEF IdsIn
    <2> QED
      BY <1>1, <1>3, <2>1, <2>2 DEF ListsInOrder, Stored, SavedClean, Clean, Kept
  <1> QED
    BY <1>2, <1>3

LEMMA CreateStep ==
  ASSUME ChatsInv, ~unloading, CreateNewChat
  PROVE  ChatsInv'
  <1> USE DEF ChatsInv, CreateNewChat, turnVars
  <1> DEFINE cs == <<[id |-> made + 1, messages |-> <<>>]>> \o chats
  <1>1. Later(Now, Now') /\ ChatsTypes'
    BY DEF Later, Now, ChatsTypes
  <1>2. ListInOrder(chats, Now') /\ ListInOrder(saved, Now')
    BY <1>1, ListLater DEF ListsInOrder
  <1>3. made + 1 \in 1..Now'.made /\ Now'.made \in Nat /\ made + 1 \notin IdsIn(chats)
    BY DEF Now, ListsInOrder, ListInOrder, IdsIn, ChatsTypes
  <1>4. /\ ListInOrder(cs, Now') /\ IdsIn(cs) = IdsIn(chats) \cup {made + 1}
        /\ \A n : Has(cs, n) <=> Has(chats, n)
    <2> HIDE DEF CreateNewChat
    <2> QED
      BY <1>2, <1>3, ListMake
  <1>5. SetChats(cs) /\ chats' = cs
    BY DEF SetChats
  <1> HIDE DEF cs
  <1>6. ListsInOrder' /\ Stored' /\ SavedClean' /\ Clean' /\ Kept'
    BY <1>2, <1>4, <1>5, SetKeeps DEF Clean, Kept
  <1>7. Asked' /\ Answered' /\ ChangesAreOfTurns'
    BY <1>4, <1>5 DEF Asked, Answered, ChangesAreOfTurns
  <1> QED
    BY <1>1, <1>6, <1>7

LEMMA DeleteChatStep ==
  ASSUME ChatsInv, ~unloading, NEW c, DeleteChat(c)
  PROVE  ChatsInv'
  <1> USE DEF ChatsInv
  <1> DEFINE p == Position(c)  cs == RemoveAt(chats, p)  gone == NamesIn(MessagesOf(c))
  <1>0. /\ HasChat(c) /\ SetChats(cs) /\ removed' = removed \cup gone /\ imported' = imported \ {c}
        /\ UNCHANGED <<at, home, past, made, unloading, late, edited, reset>>
    BY DEF DeleteChat, turnVars
  <1>1. p \in 1..Len(chats) /\ chats[p].id = c /\ gone = NamesIn(chats[p].messages)
    BY <1>0, PositionIs
  <1> HIDE DEF gone, p
  <1>2. Later(Now, Now') /\ ChatsTypes'
    BY <1>0 DEF Later, Now, ChatsTypes
  <1>3. ListInOrder(chats, Now') /\ ListInOrder(saved, Now')
    BY <1>2, ListLater DEF ListsInOrder
  <1>4. /\ ListInOrder(cs, Now') /\ IdsIn(cs) = IdsIn(chats) \ {c}
        /\ \A n : Has(cs, n) <=> Has(chats, n) /\ n \notin gone
    BY <1>1, <1>3, ListDrop
  <1>5. chats' = cs
    BY <1>0 DEF SetChats
  <1> HIDE DEF cs
  <1>6. ListsInOrder' /\ Stored' /\ SavedClean' /\ Clean' /\ Kept'
    BY <1>0, <1>3, <1>4, <1>5, SetKeeps DEF Clean, Kept
  <1>7. Asked' /\ Answered'
    BY <1>0, <1>4, <1>5 DEF Asked, Answered
  <1>8. ChangesAreOfTurns'
    <2>1. \A n \in gone : n \in Names /\ at[n.turn] # "idle" /\ (n.role = "assistant" => at[n.turn] = "done")
      BY <1>1, HasIs DEF ListsInOrder, Now
    <2> QED
      BY <1>0, <2>1 DEF ChangesAreOfTurns
  <1> QED
    BY <1>2, <1>6, <1>7, <1>8

(* A question is asked after the messages before it in the chat. *)
LEMMA StartStep ==
  ASSUME ChatsInv, ~unloading, UNCHANGED <<unloading>>, Usable, NEW t \in Turns, NEW f \in Turns, NEW before,
         InOrder(activeChat, before, Now), NamesIn(before) \subseteq NamesIn(MessagesOf(activeChat)),
         f = t \/ at[f] # "idle",
         \A i \in 1..Len(before) : before[i].role = "user" => before[i].first # f,
         removed' = removed \cup (NamesIn(MessagesOf(activeChat)) \ NamesIn(before)),
         Start(t, f, before)
  PROVE  ChatsInv'
  <1> USE DEF ChatsInv
  <1> DEFINE c == activeChat  p == Position(c)  q == Question(t, f)  msgs == Append(before, q)
             cs == Put(chats, c, msgs)  here == NamesIn(MessagesOf(c))
  <1>0. /\ at[t] = "idle" /\ at' = [at EXCEPT ![t] = "token"] /\ home' = [home EXCEPT ![t] = c]
        /\ past' = [past EXCEPT ![t] = before]
        /\ SetChats(AddMessage(Put(chats, c, before), c, q))
        /\ UNCHANGED <<made, unloading, late, edited, reset, imported>>
    BY DEF Start
  <1>1. /\ p \in 1..Len(chats) /\ chats[p].id = c /\ here = NamesIn(chats[p].messages)
        /\ \A i \in 1..Len(chats) : chats[i].id = c => i = p
    BY PositionIs DEF Usable
  <1> HIDE DEF p
  <1>2. c \in Nat /\ chats \in Seq(Book)
    BY <1>1 DEF ListsInOrder, ListInOrder, Now, ChatsTypes
  <1>3. before \in Seq(Message)
    BY DEF InOrder
  <1>4. ChatsTypes'
    BY <1>0, <1>2, <1>3 DEF ChatsTypes
  <1>5. Later(Now, Now')
    BY <1>0 DEF Later, Now, ChatsTypes
  <1>6. ListInOrder(chats, Now') /\ ListInOrder(saved, Now') /\ InOrder(c, before, Now')
    BY <1>5, ListLater, InOrderLater DEF ListsInOrder
  <1>7. \A n \in here : n \in Names /\ home[n.turn] = c /\ at[n.turn] # "idle" /\ (n.role = "assistant" => at[n.turn] = "done")
    BY <1>1, HasIs DEF ListsInOrder, Now
  <1>8. QuestionOf(t) \notin here /\ QuestionOf(t).turn = t
    BY <1>0, <1>7, NameIs
  <1>9. InOrder(c, msgs, Now') /\ NamesIn(msgs) = NamesIn(before) \cup {QuestionOf(t)}
    <2>1. /\ q \in Message /\ Name(q) = QuestionOf(t) /\ q.role = "user" /\ q.turn = t /\ q.first = f
      BY NewMessages
    <2>2. Name(q) \notin NamesIn(before) /\ Name(q) \notin edited
      BY <1>0, <1>8, <2>1 DEF ChangesAreOfTurns
    <2>3. /\ Now'.home[t] = c /\ Now'.at[t] # "idle" /\ Now'.at[f] # "idle" /\ Now'.past[t] = before
          /\ Now'.edited = edited
      BY <1>0 DEF Now, ChatsTypes
    <2> HIDE DEF q
    <2> QED
      BY <1>6, <2>1, <2>2, <2>3, InOrderAppend
  <1>10. SetChats(cs) /\ chats' = cs
    BY <1>0, <1>1, <1>2, AddIsPut DEF SetChats
  <1>12. removed' = removed \cup (here \ NamesIn(before)) /\ NamesIn(before) \subseteq here
    OBVIOUS
  <1> HIDE DEF here, msgs, q
  <1>11. /\ ListInOrder(cs, Now') /\ IdsIn(cs) = IdsIn(chats)
         /\ \A n : Has(cs, n) <=> n \in NamesIn(msgs) \/ (Has(chats, n) /\ n \notin here)
    BY <1>1, <1>6, <1>9, ListPut
  <1> HIDE DEF cs
  <1>13. ListsInOrder' /\ Stored' /\ SavedClean' /\ Clean' /\ Kept'
    <2>1. QuestionOf(t) \notin removed'
      BY <1>0, <1>8, <1>12 DEF ChangesAreOfTurns
    <2>2. ~reset /\ ~late => \A n \in removed' : ~Has(cs, n)
      <3>1. \A n \in here : Has(chats, n)
        BY <1>1 DEF Has
      <3>2. \A n \in removed : n # QuestionOf(t)
        BY <1>0, <1>8 DEF ChangesAreOfTurns
      <3> QED
        BY <1>8, <1>9, <1>11, <1>12, <3>1, <3>2 DEF Clean
    <2>3. ~late => imported' \subseteq IdsIn(cs)
      BY <1>0, <1>11 DEF Kept
    <2> QED
      BY <1>0, <1>6, <1>10, <1>11, <2>2, <2>3, SetKeeps
  <1>14. \A n : Has(chats, n) /\ n \notin removed' => Has(cs, n)
    BY <1>9, <1>11, <1>12
  <1>15. Asked'
    BY <1>0, <1>9, <1>10, <1>11, <1>12, <1>14 DEF Asked, ChatsTypes, InFlight
  <1>16. Answered'
    BY <1>0, <1>10, <1>12, <1>14 DEF Answered, ChatsTypes
  <1>17. ChangesAreOfTurns'
    BY <1>0, <1>7, <1>12 DEF ChangesAreOfTurns, ChatsTypes
  <1> QED
    BY <1>4, <1>13, <1>15, <1>16, <1>17

LEMMA SendStep ==
  ASSUME ChatsInv, ~unloading, UNCHANGED <<unloading>>, NEW t \in Turns, Send(t)
  PROVE  ChatsInv'
  <1> DEFINE msgs == MessagesOf(activeChat)
  <1>1. Usable /\ Start(t, t, msgs) /\ at[t] = "idle" /\ removed' = removed
    BY DEF Send, Start
  <1>2. InOrder(activeChat, msgs, Now)
    BY <1>1, PositionIs DEF ChatsInv, Usable
  <1> HIDE DEF msgs
  <1>3. \A i \in 1..Len(msgs) : at[msgs[i].first] # "idle"
    BY <1>2 DEF InOrder, Placed, Now
  <1>4. \A i \in 1..Len(msgs) : msgs[i].first # t
    BY <1>1, <1>3
  <1>5. removed' = removed \cup (NamesIn(msgs) \ NamesIn(msgs))
    BY <1>1
  <1> QED
    BY <1>1, <1>2, <1>4, <1>5, StartStep DEF msgs

(* A set of places in a list has a last one. *)
LEMMA LastOf ==
  ASSUME NEW n \in Nat, NEW S \in SUBSET (1..n), NEW e \in S
  PROVE  \E i \in S : \A j \in S : j <= i
  <1> DEFINE R == OpToRel(<, Nat)
             T == {k \in Nat : \E i \in S : k = n - i}
  <1>1. IsWellFoundedOn(R, Nat)
    BY NatLessThanWellFounded
  <1>2. T \subseteq Nat /\ T # {}
    <2>1. n - e \in T
      OBVIOUS
    <2> QED
      BY <2>1
  <1>3. PICK x \in T : \A y \in T : ~(<<y, x>> \in R)
    <2> HIDE DEF R, T
    <2> QED
      BY <1>1, <1>2, WFMin
  <1>4. \A y \in T : ~(y < x)
    <2>1. \A y \in T : <<y, x>> \in Nat \X Nat
      BY <1>2
    <2> HIDE DEF T
    <2> QED
      BY <1>3, <2>1 DEF OpToRel
  <1>5. PICK i \in S : x = n - i
    OBVIOUS
  <1>6. \A j \in S : n - j \in T
    OBVIOUS
  <1>7. \A j \in S : ~(n - j < n - i)
    BY <1>4, <1>5, <1>6
  <1> HIDE DEF T, R
  <1> QED
    BY <1>7

LEMMA LastQuestionIs ==
  ASSUME NEW msgs \in Seq(Message), NEW e \in 1..Len(msgs), msgs[e].role = "user"
  PROVE  LastQuestion(msgs) \in 1..Len(msgs) /\ msgs[LastQuestion(msgs)].role = "user"
  <1> DEFINE S == {i \in 1..Len(msgs) : msgs[i].role = "user"}
  <1>1. Len(msgs) \in Nat /\ S \in SUBSET (1..Len(msgs)) /\ e \in S
    OBVIOUS
  <1>2. PICK k \in S : \A j \in S : j <= k
    <2> HIDE DEF S
    <2> QED
      BY <1>1, LastOf
  <1>3. \A j \in k + 1..Len(msgs) : j \in 1..Len(msgs) /\ ~(j <= k)
    BY <1>2
  <1>4. k \in 1..Len(msgs) /\ msgs[k].role = "user" /\ \A j \in k + 1..Len(msgs) : msgs[j].role # "user"
    BY <1>2, <1>3
  <1> QED
    BY <1>4 DEF LastQuestion

LEMMA RegenerateStep ==
  ASSUME ChatsInv, ~unloading, UNCHANGED <<unloading>>, NEW t \in Turns, Regenerate(t)
  PROVE  ChatsInv'
  <1> DEFINE msgs == MessagesOf(activeChat)  k == LastQuestion(msgs)  before == BeforeQuestion(msgs)
             f == msgs[k].first
  <1>1. /\ Usable /\ \E i \in 1..Len(msgs) : msgs[i].role = "user"
        /\ Start(t, f, before) /\ removed' = removed \cup (NamesIn(msgs) \ NamesIn(before))
    BY DEF Regenerate
  <1>2. InOrder(activeChat, msgs, Now) /\ msgs \in Seq(Message)
    BY <1>1, PositionIs DEF ChatsInv, Usable, InOrder
  <1>3. before = SubSeq(msgs, 1, k - 1)
    BY DEF BeforeQuestion
  <1> HIDE DEF msgs, before
  <1>4. k \in 1..Len(msgs) /\ msgs[k].role = "user"
    BY <1>1, <1>2, LastQuestionIs
  <1> HIDE DEF k
  <1>5. /\ InOrder(activeChat, before, Now) /\ NamesIn(before) \subseteq NamesIn(msgs)
        /\ \A i \in 1..Len(before) : i < k /\ before[i] = msgs[i]
    BY <1>2, <1>3, <1>4, InOrderBefore
  <1>6. f \in Turns /\ at[f] # "idle"
    BY <1>2, <1>4, MessageIs DEF InOrder, Placed, Now
  <1>7. \A i \in 1..Len(before) : before[i].role = "user" => before[i].first # f
    <2> TAKE i \in 1..Len(before)
    <2>1. i \in 1..Len(msgs) /\ i # k
      BY <1>2, <1>4, <1>5
    <2> QED
      BY <1>2, <1>4, <1>5, <2>1 DEF InOrder, Apart
  <1> QED
    BY <1>1, <1>5, <1>6, <1>7, StartStep DEF msgs

LEMMA UpdateStep ==
  ASSUME ChatsInv, ~unloading, NEW i, UpdateMessage(i)
  PROVE  ChatsInv'
  <1> USE DEF ChatsInv
  <1> DEFINE c == activeChat  p == Position(c)  msgs == MessagesOf(c)
             new == [msgs EXCEPT ![i].edited = TRUE]  cs == Put(chats, c, new)
  <1>0. /\ i \in 1..Len(msgs) /\ msgs[i].role = "user" /\ edited' = edited \cup {Name(msgs[i])}
        /\ SetChats(cs) /\ Usable
        /\ UNCHANGED <<at, home, past, made, unloading, late, removed, reset, imported>>
    BY DEF UpdateMessage, turnVars
  <1>1. /\ p \in 1..Len(chats) /\ chats[p].id = c /\ msgs = chats[p].messages /\ chats # <<>>
        /\ InOrder(c, msgs, Now) /\ \A j \in 1..Len(chats) : chats[j].id = c => j = p
    BY <1>0, PositionIs DEF Usable
  <1> HIDE DEF p, msgs
  <1>2. Name(msgs[i]) \in NamesIn(msgs)
    BY <1>0 DEF NamesIn
  <1>3. ChatsTypes'
    BY <1>0 DEF ChatsTypes
  <1>4. /\ Now'.edited = Now.edited \cup {Name(msgs[i])} /\ Now'.at = Now.at /\ Now'.home = Now.home
        /\ Now'.past = Now.past /\ Now'.removed = Now.removed /\ Now'.made = Now.made
    BY <1>0 DEF Now
  <1>5. InOrder(c, new, Now') /\ NamesIn(new) = NamesIn(msgs)
    <2>1. \A s, s2 : /\ InOrder(c, msgs, s) /\ s2.edited = s.edited \cup {Name(msgs[i])}
                     /\ s2.at = s.at /\ s2.home = s.home /\ s2.past = s.past /\ s2.removed = s.removed
                     => InOrder(c, new, s2) /\ NamesIn(new) = NamesIn(msgs)
      BY <1>0, InOrderEdit
    <2> HIDE DEF new
    <2> QED
      BY <1>1, <1>4, <2>1
  <1> HIDE DEF new
  <1>12. ASSUME NEW j \in 1..Len(chats), j # p PROVE InOrder(chats[j].id, chats[j].messages, Now')
    <2> DEFINE other == chats[j].messages
    <2>1. InOrder(chats[j].id, other, Now)
      BY DEF ListsInOrder, ListInOrder
    <2>2. Name(msgs[i]) \notin NamesIn(other)
      BY <1>1, <1>2, <1>12, HasIs DEF ListsInOrder
    <2> HIDE DEF other
    <2>3. \A k \in 1..Len(other) : Name(other[k]) # Name(msgs[i])
      BY <2>2 DEF NamesIn
    <2>4. \A k \in 1..Len(other) : Placed(chats[j].id, other[k], Now') /\ Follows(other, k, Now')
      BY <1>4, <2>1, <2>3 DEF InOrder, Placed, Follows
    <2> QED
      BY <2>1, <2>4 DEF InOrder, other
  <1>6. /\ cs # <<>> /\ ListInOrder(cs, Now') /\ IdsIn(cs) = IdsIn(chats)
        /\ \A n : Has(cs, n) <=> Has(chats, n)
    <2>0. OthersInOrder(chats, p, Now')
      BY <1>12 DEF OthersInOrder
    <2>1. /\ cs # <<>> /\ ListInOrder(cs, Now') /\ IdsIn(cs) = IdsIn(chats)
          /\ \A n : Has(cs, n) <=> n \in NamesIn(new) \/ (Has(chats, n) /\ n \notin NamesIn(msgs))
      BY <1>1, <1>4, <1>5, <2>0, ListPutOne DEF ListsInOrder
    <2>2. \A n \in NamesIn(msgs) : Has(chats, n)
      BY <1>1 DEF Has
    <2> QED
      BY <1>5, <2>1, <2>2
  <1>7. chats' = cs /\ saved' = cs
    BY <1>0, <1>6 DEF SetChats
  <1> HIDE DEF cs
  <1>8. ListsInOrder' /\ Asked' /\ Answered' /\ Stored' /\ SavedClean' /\ Clean' /\ Kept'
    BY <1>0, <1>6, <1>7 DEF ListsInOrder, Asked, Answered, Stored, SavedClean, Clean, Kept
  <1>9. ChangesAreOfTurns'
    <2>1. /\ Name(msgs[i]) \in Names /\ at[Name(msgs[i]).turn] # "idle"
      BY <1>1, <1>2, HasIs DEF ListsInOrder, Now
    <2> QED
      BY <1>0, <2>1, NameIs DEF ChangesAreOfTurns
  <1> QED
    BY <1>3, <1>8, <1>9

LEMMA DeleteMessageStep ==
  ASSUME ChatsInv, ~unloading, NEW i, DeleteMessage(i)
  PROVE  ChatsInv'
  <1> USE DEF ChatsInv
  <1> DEFINE c == activeChat  p == Position(c)  msgs == MessagesOf(c)  gone == Name(msgs[i])
             new == RemoveAt(msgs, i)  cs == Put(chats, c, new)
  <1>0. /\ i \in 1..Len(msgs) /\ removed' = removed \cup {gone} /\ SetChats(cs) /\ Usable
        /\ UNCHANGED <<at, home, past, made, unloading, late, edited, reset, imported>>
    BY DEF DeleteMessage, turnVars
  <1>1. /\ p \in 1..Len(chats) /\ chats[p].id = c /\ msgs = chats[p].messages /\ InOrder(c, msgs, Now)
    BY <1>0, PositionIs DEF Usable
  <1> HIDE DEF p, msgs
  <1>2. gone \in NamesIn(msgs)
    BY <1>0 DEF NamesIn
  <1>3. Later(Now, Now') /\ ChatsTypes' /\ gone \in Now'.removed
    BY <1>0 DEF Later, Now, ChatsTypes
  <1>4. ListInOrder(chats, Now') /\ ListInOrder(saved, Now') /\ InOrder(c, msgs, Now')
    BY <1>1, <1>3, ListLater, InOrderLater DEF ListsInOrder
  <1>5. InOrder(c, new, Now') /\ NamesIn(new) = NamesIn(msgs) \ {gone}
    BY <1>0, <1>3, <1>4, InOrderDrop
  <1> HIDE DEF new
  <1>6. /\ ListInOrder(cs, Now') /\ IdsIn(cs) = IdsIn(chats)
        /\ \A n : Has(cs, n) <=> n \in NamesIn(new) \/ (Has(chats, n) /\ n \notin NamesIn(msgs))
    BY <1>1, <1>4, <1>5, ListPut
  <1>7. \A n : Has(cs, n) <=> Has(chats, n) /\ n # gone
    <2>1. \A n \in NamesIn(msgs) : Has(chats, n)
      BY <1>1 DEF Has
    <2> QED
      BY <1>2, <1>5, <1>6, <2>1
  <1>8. chats' = cs
    BY <1>0 DEF SetChats
  <1> HIDE DEF cs, gone
  <1>9. ListsInOrder' /\ Stored' /\ SavedClean' /\ Clean' /\ Kept'
    BY <1>0, <1>4, <1>6, <1>7, SetKeeps DEF Clean, Kept
  <1>10. Asked' /\ Answered'
    BY <1>0, <1>7, <1>8 DEF Asked, Answered
  <1>11. ChangesAreOfTurns'
    <2>1. gone \in Names /\ at[gone.turn] # "idle" /\ (gone.role = "assistant" => at[gone.turn] = "done")
      BY <1>1, <1>2, HasIs DEF ListsInOrder, Now
    <2> QED
      BY <1>0, <2>1 DEF ChangesAreOfTurns
  <1> QED
    BY <1>3, <1>9, <1>10, <1>11

LEMMA WaitStep ==
  ASSUME ChatsInv, NEW t \in Turns, GotToken(t) \/ Fail(t)
  PROVE  ChatsInv'
  <1> USE DEF ChatsInv
  <1>1. PICK l \in {"reply", "failed"} :
          /\ at[t] \in InFlight /\ at' = [at EXCEPT ![t] = l]
          /\ UNCHANGED <<chats, saved, home, past, made, unloading, imported, late, removed, edited, reset>>
    BY DEF GotToken, Fail, End, chatVars, pastVars, InFlight
  <1>2. /\ at' \in [Turns -> {"idle", "token", "reply", "done", "failed"}]
        /\ \A u \in Turns : /\ at'[u] = "idle" <=> at[u] = "idle"
                            /\ at'[u] = "done" <=> at[u] = "done"
                            /\ at'[u] \in InFlight => at[u] \in InFlight
    BY <1>1 DEF ChatsTypes, InFlight
  <1>3. ChatsTypes' /\ Later(Now, Now')
    BY <1>1, <1>2 DEF ChatsTypes, Later, Now
  <1>4. ListsInOrder'
    BY <1>1, <1>3, ListLater DEF ListsInOrder
  <1>5. Asked' /\ Answered'
    BY <1>1, <1>2 DEF Asked, Answered
  <1>6. ChangesAreOfTurns'
    BY <1>1, <1>2, NamesAre DEF ChangesAreOfTurns
  <1> QED
    BY <1>1, <1>3, <1>4, <1>5, <1>6 DEF Stored, SavedClean, Clean, Kept

LEMMA ReplyStep ==
  ASSUME ChatsInv, NEW t \in Turns, GotReply(t), UNCHANGED unloading
  PROVE  ChatsInv'
  <1> USE DEF ChatsInv
  <1> DEFINE c == home[t]  p == Position(c)  r == Reply(t)  here == MessagesOf(c)
             msgs == Append(here, r)  cs == Put(chats, c, msgs)
  <1>0. /\ at[t] = "reply" /\ at' = [at EXCEPT ![t] = "done"] /\ SetChats(AddMessage(chats, c, r))
        /\ late' = (late \/ (unloading /\ chats # <<>>))
        /\ removed' = IF HasChat(c) THEN removed ELSE removed \cup {ReplyOf(t)}
        /\ UNCHANGED <<home, past, made, unloading, edited, reset, imported>>
    BY NewMessages DEF GotReply, End
  <1>1. /\ at' \in [Turns -> {"idle", "token", "reply", "done", "failed"}]
        /\ \A u \in Turns : /\ at'[u] = "idle" <=> at[u] = "idle"
                            /\ at'[u] = "done" <=> at[u] = "done" \/ u = t
                            /\ at'[u] \in InFlight => at[u] \in InFlight
    BY <1>0 DEF ChatsTypes, InFlight
  <1>2. ChatsTypes' /\ Later(Now, Now')
    BY <1>0, <1>1 DEF ChatsTypes, Later, Now
  <1>3. ListInOrder(chats, Now') /\ ListInOrder(saved, Now')
    BY <1>2, ListLater DEF ListsInOrder
  <1>4. /\ ReplyOf(t) \notin removed /\ ~Has(chats, ReplyOf(t))
        /\ ReplyOf(t) \in Names /\ ReplyOf(t).turn = t /\ ReplyOf(t).role = "assistant"
        /\ \A u : QuestionOf(u) # ReplyOf(t) /\ (ReplyOf(u) = ReplyOf(t) => u = t)
    <2>1. /\ ReplyOf(t).turn = t /\ ReplyOf(t).role = "assistant" /\ ReplyOf(t) \in Names
          /\ \A u : QuestionOf(u) # ReplyOf(t) /\ (ReplyOf(u) = ReplyOf(t) => u = t)
      BY DEF ReplyOf, QuestionOf, Names
    <2>2. ReplyOf(t) \notin removed
      BY <1>0, <2>1 DEF ChangesAreOfTurns
    <2>3. ~Has(chats, ReplyOf(t))
      BY <1>0, <2>1, HasIs DEF Has, ListsInOrder, Now
    <2> QED
      BY <2>1, <2>2, <2>3
  <1>5. ChangesAreOfTurns'
    BY <1>0, <1>1, <1>4, NamesAre DEF ChangesAreOfTurns
  <1>6. CASE HasChat(c)
    <2>1. /\ p \in 1..Len(chats) /\ chats[p].id = c /\ here = chats[p].messages /\ InOrder(c, here, Now)
          /\ \A i \in 1..Len(chats) : chats[i].id = c => i = p
      BY <1>6, PositionIs
    <2> HIDE DEF p, here
    <2>2. InOrder(c, here, Now')
      BY <1>2, <2>1, InOrderLater
    <2>3. \A n \in NamesIn(here) : Has(chats, n)
      BY <2>1 DEF Has
    <2>4. QuestionOf(t) \in removed \cup NamesIn(here)
      <3> SUFFICES ASSUME QuestionOf(t) \notin removed PROVE QuestionOf(t) \in NamesIn(here)
        OBVIOUS
      <3>1. Has(chats, QuestionOf(t))
        BY <1>0 DEF Asked, InFlight
      <3>2. PICK i \in 1..Len(chats) : QuestionOf(t) \in NamesIn(chats[i].messages)
        BY <3>1 DEF Has
      <3>3. QuestionOf(t).turn = t /\ Now.home[t] = c
        BY NameIs DEF Now
      <3>4. chats[i].id = c
        BY <3>2, <3>3, HasIs DEF ListsInOrder
      <3> QED
        BY <2>1, <3>2, <3>4
    <2>5. InOrder(c, msgs, Now') /\ NamesIn(msgs) = NamesIn(here) \cup {ReplyOf(t)}
      <3>1. /\ r \in Message /\ Name(r) = ReplyOf(t) /\ r.role = "assistant" /\ r.turn = t /\ r.first = t
        BY NewMessages
      <3>2. Name(r) \notin NamesIn(here) /\ Name(r) \notin edited
        BY <1>4, <2>3, <3>1 DEF ChangesAreOfTurns
      <3>3. /\ Now'.home[t] = c /\ Now'.at[t] = "done" /\ Now'.edited = edited /\ Now'.removed = removed
        BY <1>0, <1>1, <1>6 DEF Now
      <3> HIDE DEF r
      <3> QED
        BY <2>2, <2>4, <3>1, <3>2, <3>3, InOrderAppend
    <2>6. chats \in Seq(Book)
      BY DEF ListsInOrder, ListInOrder
    <2>7. AddMessage(chats, c, r) = cs
      BY <2>1, <2>6, AddIsPut
    <2> HIDE DEF c, r, msgs
    <2>8. /\ ListInOrder(cs, Now') /\ IdsIn(cs) = IdsIn(chats) /\ cs # <<>>
          /\ \A n : Has(cs, n) <=> n \in NamesIn(msgs) \/ (Has(chats, n) /\ n \notin NamesIn(here))
      BY <1>3, <2>1, <2>5, ListPut
    <2>9. chats' = cs /\ saved' = cs /\ removed' = removed /\ chats # <<>>
      BY <1>0, <1>6, <2>7, <2>8, PositionIs DEF SetChats
    <2>10. \A n : Has(cs, n) <=> Has(chats, n) \/ n = ReplyOf(t)
      BY <2>3, <2>5, <2>8
    <2> HIDE DEF cs
    <2>11. Asked' /\ Answered'
      BY <1>0, <1>1, <2>9, <2>10 DEF Asked, Answered
    <2>12. ListsInOrder' /\ Stored'
      BY <2>8, <2>9 DEF ListsInOrder, Stored
    <2>13. SavedClean' /\ Clean' /\ Kept'
      BY <1>0, <1>4, <2>8, <2>9, <2>10 DEF SavedClean, Clean, Kept
    <2> QED
      BY <1>2, <1>5, <2>11, <2>12, <2>13
  <1>7. CASE ~HasChat(c)
    <2>1. chats \in Seq(Book)
      BY DEF ListsInOrder, ListInOrder
    <2>2. AddMessage(chats, c, r) = chats
      BY <1>7, <2>1, NoPosition, AddToNone
    <2>3. /\ chats' = chats /\ saved' = (IF chats # <<>> THEN chats ELSE saved)
          /\ removed' = removed \cup {ReplyOf(t)}
      BY <1>0, <1>7, <2>2 DEF SetChats
    <2>4. ListsInOrder' /\ Stored'
      BY <1>3, <2>3 DEF ListsInOrder, Stored
    <2>5. Asked' /\ Answered'
      BY <1>0, <1>1, <2>3 DEF Asked, Answered
    <2>6. (~late' => ~late) /\ (~late' /\ chats # <<>> => ~unloading /\ saved' = chats)
      BY <1>0, <2>3
    <2>9. \A n \in removed' : n \in removed \/ ~Has(chats, n)
      BY <1>4, <2>3
    <2>10. Clean'
      BY <1>0, <2>3, <2>6, <2>9 DEF Clean
    <2>7. SavedClean' /\ Clean'
      <3>1. SUFFICES ASSUME ~reset', ~late', chats' # <<>>, NEW n \in removed' PROVE ~Has(saved', n)
        BY <2>10 DEF SavedClean
      <3>2. ~reset /\ ~late /\ ~unloading /\ saved' = chats
        BY <1>0, <2>3, <2>6, <3>1
      <3> QED
        BY <2>9, <3>2 DEF Clean
    <2>8. Kept'
      <3>1. CASE chats # <<>>
        BY <1>0, <2>3, <2>6, <3>1 DEF Kept
      <3>2. CASE chats = <<>>
        BY <1>0, <2>3, <2>6, <3>2 DEF Kept
      <3> QED
        BY <3>1, <3>2
    <2> QED
      BY <1>2, <1>5, <2>4, <2>5, <2>7, <2>8
  <1> QED
    BY <1>6, <1>7

LEMMA ImportStep ==
  ASSUME ChatsInv, ImportChats
  PROVE  ChatsInv'
  <1> USE DEF ChatsInv
  <1>0. /\ saved' = Append(saved, [id |-> made + 1, messages |-> <<>>]) /\ made' = made + 1
        /\ imported' = imported \cup {made + 1} /\ unloading' = TRUE
        /\ UNCHANGED <<chats, at, home, past, late, removed, edited, reset>>
    BY DEF ImportChats, ChangeSaved, turnVars
  <1>1. Later(Now, Now') /\ ChatsTypes'
    BY <1>0 DEF Later, Now, ChatsTypes
  <1>2. ListInOrder(chats, Now') /\ ListInOrder(saved, Now')
    BY <1>1, ListLater DEF ListsInOrder
  <1>3. made + 1 \in 1..Now'.made /\ Now'.made \in Nat /\ made + 1 \notin IdsIn(saved)
    BY <1>0 DEF Now, ListsInOrder, ListInOrder, IdsIn, ChatsTypes
  <1>4. /\ ListInOrder(saved', Now') /\ IdsIn(saved') = IdsIn(saved) \cup {made + 1}
        /\ \A n : Has(saved', n) <=> Has(saved, n)
    BY <1>0, <1>2, <1>3, ListMake
  <1> QED
    BY <1>0, <1>1, <1>2, <1>4 DEF ListsInOrder, Asked, Answered, ChangesAreOfTurns, Stored, SavedClean,
       Clean, Kept

LEMMA ClearStep ==
  ASSUME ChatsInv, ClearAllChats
  PROVE  ChatsInv'
  <1> USE DEF ChatsInv
  <1> DEFINE gone == {n \in Names : Has(chats, n) \/ Has(saved, n)}
  <1>0. /\ saved' = <<>> /\ imported' = {} /\ unloading' = TRUE
        /\ removed' = removed \cup (UNION {NamesIn(chats[i].messages) : i \in DOMAIN chats})
                              \cup (UNION {NamesIn(saved[i].messages) : i \in DOMAIN saved})
        /\ UNCHANGED <<chats, at, home, past, made, late, edited, reset>>
    BY DEF ClearAllChats, ChangeSaved, turnVars
  <1>1. \A n \in gone : at[n.turn] # "idle" /\ (n.role = "assistant" => at[n.turn] = "done")
    BY HasIs DEF Has, ListsInOrder, Now
  <1>2. removed' = removed \cup gone
    <2>1. chats \in Seq(Book) /\ saved \in Seq(Book)
      BY DEF ListsInOrder, ListInOrder
    <2>2. \A n : Has(chats, n) \/ Has(saved, n) => n \in Names
      BY HasIs DEF Has, ListsInOrder
    <2>0. DOMAIN chats = 1..Len(chats) /\ DOMAIN saved = 1..Len(saved)
      BY <2>1
    <2>5. \A n : n \in removed' <=> \/ n \in removed
                                    \/ \E i \in DOMAIN chats : n \in NamesIn(chats[i].messages)
                                    \/ \E i \in DOMAIN saved : n \in NamesIn(saved[i].messages)
      BY <1>0
    <2>3. \A n : n \in removed' <=> n \in removed \/ Has(chats, n) \/ Has(saved, n)
      BY <2>0, <2>5 DEF Has
    <2>4. \A n : n \in removed' <=> n \in removed \cup gone
      BY <2>2, <2>3
    <2> QED
      BY <2>4
  <1> HIDE DEF gone
  <1>3. Later(Now, Now') /\ ChatsTypes'
    BY <1>0, <1>2 DEF Later, Now, ChatsTypes
  <1>4. ListInOrder(chats, Now')
    BY <1>3, ListLater DEF ListsInOrder
  <1>5. ListInOrder(<<>>, Now') /\ \A n : ~Has(<<>>, n)
    <2>1. <<>> \in Seq(Book) /\ Len(<<>>) = 0
      OBVIOUS
    <2> QED
      BY <2>1 DEF ListInOrder, Has
  <1>6. ListsInOrder' /\ SavedClean' /\ Clean' /\ Kept'
    BY <1>0, <1>4, <1>5 DEF ListsInOrder, SavedClean, Clean, Kept
  <1>7. Stored' /\ Asked' /\ Answered'
    BY <1>0, <1>2 DEF Stored, Asked, Answered, gone
  <1>8. ChangesAreOfTurns'
    BY <1>0, <1>1, <1>2 DEF ChangesAreOfTurns, gone
  <1> QED
    BY <1>3, <1>6, <1>7, <1>8

LEMMA ReloadStep ==
  ASSUME ChatsInv, Reload
  PROVE  ChatsInv'
  <1> USE DEF ChatsInv
  <1>0. /\ chats' = IF saved = <<>> THEN <<SampleChat>> ELSE saved
        /\ saved' = chats' /\ unloading' = FALSE /\ reset' = (reset \/ chats = <<>>)
        /\ at' = [t \in Turns |-> IF at[t] \in InFlight THEN "failed" ELSE at[t]]
        /\ UNCHANGED <<home, past, made, imported, late, removed, edited>>
    BY DEF Reload
  <1>1. /\ at' \in [Turns -> {"idle", "token", "reply", "done", "failed"}]
        /\ \A u \in Turns : /\ at'[u] = "idle" <=> at[u] = "idle"
                            /\ at'[u] = "done" <=> at[u] = "done"
                            /\ at'[u] \notin InFlight
    BY <1>0 DEF ChatsTypes, InFlight
  <1>2. ChatsTypes' /\ Later(Now, Now')
    BY <1>0, <1>1 DEF ChatsTypes, Later, Now
  <1>3. ListInOrder(saved, Now')
    BY <1>2, ListLater DEF ListsInOrder
  <1>4. /\ ListInOrder(<<SampleChat>>, Now') /\ <<SampleChat>> # <<>>
        /\ \A n : ~Has(<<SampleChat>>, n)
    <2>1. /\ SampleChat \in Book /\ SampleChat.id = 1 /\ SampleChat.messages = <<>>
          /\ NamesIn(SampleChat.messages) = {}
      BY DEF SampleChat, Book, NamesIn
    <2>2. <<SampleChat>> \in Seq(Book) /\ Len(<<SampleChat>>) = 1 /\ <<SampleChat>>[1] = SampleChat
      BY <2>1
    <2>3. InOrder(1, <<>>, Now')
      BY DEF InOrder
    <2>4. 1 \in 1..Now'.made
      BY <1>0 DEF Now, ChatsTypes
    <2>5. \A i \in 1..Len(<<SampleChat>>) : i = 1
      BY <2>2
    <2> DEFINE cs == <<SampleChat>>
    <2> HIDE DEF cs
    <2>6. ListInOrder(cs, Now')
      BY <2>1, <2>2, <2>3, <2>4, <2>5 DEF ListInOrder, cs
    <2>7. \A n : ~Has(cs, n)
      BY <2>1, <2>2, <2>5 DEF Has, cs
    <2> QED
      BY <2>2, <2>6, <2>7 DEF cs
  <1>5. ListsInOrder'
    BY <1>0, <1>3, <1>4 DEF ListsInOrder
  <1>6. \A n : ~Has(<<>>, n) /\ IdsIn(<<>>) = {}
    BY DEF Has, IdsIn
  <1>7. \A n \in Names : Has(chats', n) <=> Has(saved, n)
    BY <1>0, <1>4, <1>6
  <1>8. ~reset' => /\ ~reset /\ chats # <<>>
                   /\ \A n \in Names \ removed : Has(chats, n) => Has(chats', n)
    BY <1>0, <1>7 DEF Stored
  <1>9. Asked' /\ Answered'
    <2>1. \A t \in Turns : QuestionOf(t) \in Names /\ ReplyOf(t) \in Names
      BY DEF QuestionOf, ReplyOf, Names
    <2> QED
      BY <1>0, <1>1, <1>8, <2>1 DEF Asked, Answered
  <1>10. ChangesAreOfTurns'
    BY <1>0, <1>1, NamesAre DEF ChangesAreOfTurns
  <1>11. Clean' /\ SavedClean' /\ Stored'
    BY <1>0, <1>7, <1>8 DEF Clean, SavedClean, Stored, ChangesAreOfTurns
  <1>12. Kept'
    BY <1>0, <1>6 DEF Kept
  <1> QED
    BY <1>2, <1>5, <1>9, <1>10, <1>11, <1>12

LEMMA ChatsInductive == Spec => []ChatsInv
  <1>1. ASSUME ChatsInv, [Next]_vars PROVE ChatsInv'
    <2>1. CASE UNCHANGED vars \/ Done
      BY <1>1, <2>1, ViewStep DEF vars, Done
    <2>2. CASE ~unloading /\ SidebarStep
      <3>1. CASE Leave \/ \E c \in Ids : SelectChat(c)
        BY <1>1, <3>1, ViewStep DEF Leave, SelectChat, chatVars, turnVars, pastVars
      <3> QED
        BY <1>1, <2>2, <3>1, CreateStep, DeleteChatStep DEF SidebarStep
    <2>3. CASE ~unloading /\ SettingsStep
      <3>1. CASE Back
        BY <1>1, <3>1, ViewStep DEF Back, chatVars, turnVars, pastVars
      <3> QED
        BY <1>1, <2>3, <3>1, ImportStep, ClearStep DEF SettingsStep
    <2>4. CASE ~unloading /\ InterfaceStep
      <3>1. ASSUME NEW t \in Turns, Send(t) \/ Regenerate(t) PROVE UNCHANGED unloading
        BY <3>1 DEF Send, Regenerate, Start
      <3> QED
        BY <1>1, <2>4, <3>1, SendStep, RegenerateStep, UpdateStep, DeleteMessageStep DEF InterfaceStep
    <2>5. CASE Reload
      BY <1>1, <2>5, ReloadStep
    <2>6. CASE \E t \in Turns : GotToken(t) \/ GotReply(t) \/ Fail(t)
      <3>1. ASSUME NEW t \in Turns, GotReply(t) PROVE UNCHANGED unloading
        BY <3>1 DEF GotReply, End
      <3> QED
        BY <1>1, <2>6, <3>1, WaitStep, ReplyStep
    <2> QED
      BY <1>1, <2>1, <2>2, <2>3, <2>4, <2>5, <2>6 DEF Next
  <1> QED
    BY <1>1, ChatsInitInv, PTL DEF Spec
-------------------------------------------------------------------------------
(* What a user may count on.                                               *)

LEMMA PlacesAre ==
  ASSUME NEW n
  PROVE  \A p : p \in Places(n) <=>
           \E i \in 1..Len(chats) : \E k \in 1..Len(chats[i].messages) :
             p = <<i, k>> /\ Name(chats[i].messages[k]) = n
  BY DEF Places

LEMMA PlacesHas ==
  ASSUME NEW n
  PROVE  Places(n) = {} <=> ~Has(chats, n)
  <1>1. ASSUME Has(chats, n) PROVE Places(n) # {}
    <2>1. PICK i \in 1..Len(chats) : \E k \in 1..Len(chats[i].messages) : Name(chats[i].messages[k]) = n
      BY <1>1 DEF Has, NamesIn
    <2>2. PICK k \in 1..Len(chats[i].messages) : Name(chats[i].messages[k]) = n
      BY <2>1
    <2>3. <<i, k>> \in Places(n)
      BY <2>2, PlacesAre
    <2> QED
      BY <2>3
  <1>2. ASSUME NEW p \in Places(n) PROVE Has(chats, n)
    BY PlacesAre DEF Has, NamesIn
  <1> QED
    BY <1>1, <1>2

(* No message is in two places. *)
LEMMA PlaceIsOne ==
  ASSUME ListsInOrder, NEW n, Has(chats, n)
  PROVE  \E p : Places(n) = {p}
  <1>0. PICK i \in 1..Len(chats) : \E k \in 1..Len(chats[i].messages) :
          Name(chats[i].messages[k]) = n
    BY DEF Has, NamesIn
  <1>1. PICK k \in 1..Len(chats[i].messages) : Name(chats[i].messages[k]) = n
    BY <1>0
  <1>2. ASSUME NEW j \in 1..Len(chats), NEW l \in 1..Len(chats[j].messages), Name(chats[j].messages[l]) = n
        PROVE  j = i /\ l = k
    <2>1. n \in NamesIn(chats[i].messages) /\ n \in NamesIn(chats[j].messages)
      BY <1>1, <1>2 DEF NamesIn
    <2>2. chats[j].id = chats[i].id
      BY <2>1, HasIs DEF ListsInOrder
    <2>3. j = i
      BY <2>2 DEF ListsInOrder, ListInOrder
    <2> DEFINE msgs == chats[i].messages
    <2>4. InOrder(chats[i].id, msgs, Now) /\ k \in 1..Len(msgs) /\ l \in 1..Len(msgs)
          /\ Name(msgs[k]) = Name(msgs[l])
      BY <1>1, <1>2, <2>3 DEF ListsInOrder, ListInOrder
    <2> HIDE DEF msgs
    <2>5. l = k
      BY <2>4 DEF InOrder, Apart
    <2> QED
      BY <2>3, <2>5
  <1>3. <<i, k>> \in Places(n)
    BY <1>1, PlacesAre
  <1>4. ASSUME NEW p \in Places(n) PROVE p = <<i, k>>
    <2>1. PICK j \in 1..Len(chats) : \E l \in 1..Len(chats[j].messages) :
            p = <<j, l>> /\ Name(chats[j].messages[l]) = n
      BY PlacesAre
    <2> QED
      BY <1>2, <2>1
  <1>5. Places(n) = {<<i, k>>}
    BY <1>3, <1>4
  <1> QED
    BY <1>5

(* A reply is in the chat its question was asked in, and after it, unless  *)
(* the user has removed the question: whatever chat or page is shown when  *)
(* it comes, and whatever other turns go on (ChatInterface.tsx).           *)
THEOREM RepliesGoHome == Spec => []ReplyGoesHome
  <1>1. ASSUME ChatsInv PROVE ReplyGoesHome
    <2> SUFFICES ASSUME NEW t \in Turns, NEW p \in Places(ReplyOf(t))
                 PROVE  /\ chats[p[1]].id = home[t]
                        /\ QuestionOf(t) \notin removed =>
                             \E q \in Places(QuestionOf(t)) : q[1] = p[1] /\ q[2] < p[2]
      BY DEF ReplyGoesHome
    <2>0. PICK i \in 1..Len(chats) : \E k \in 1..Len(chats[i].messages) :
            p = <<i, k>> /\ Name(chats[i].messages[k]) = ReplyOf(t)
      BY PlacesAre
    <2>1. PICK k \in 1..Len(chats[i].messages) : p = <<i, k>> /\ Name(chats[i].messages[k]) = ReplyOf(t)
      BY <2>0
    <2> DEFINE msgs == chats[i].messages
    <2>2. InOrder(chats[i].id, msgs, Now)
      BY <1>1 DEF ChatsInv, ListsInOrder, ListInOrder
    <2>3. msgs[k].role = "assistant" /\ msgs[k].turn = t /\ k \in 1..Len(msgs)
      BY <2>1, NameIs
    <2>4. chats[i].id = home[t] /\ Follows(msgs, k, Now)
      <3> HIDE DEF msgs
      <3> QED
        BY <2>2, <2>3 DEF InOrder, Placed, Now
    <2>5. ASSUME QuestionOf(t) \notin removed
          PROVE  \E q \in Places(QuestionOf(t)) : q[1] = p[1] /\ q[2] < p[2]
      <3>1. PICK j \in 1..k - 1 : Name(msgs[j]) = QuestionOf(t)
        <4> HIDE DEF msgs
        <4> QED
          BY <2>3, <2>4, <2>5 DEF Follows, Now
      <3>2. j \in 1..Len(msgs) /\ j < k
        <4>1. Len(msgs) \in Nat
          BY <2>2 DEF InOrder
        <4> HIDE DEF msgs
        <4> QED
          BY <2>3, <4>1
      <3>3. <<i, j>> \in Places(QuestionOf(t))
        BY <3>1, <3>2, PlacesAre
      <3> QED
        BY <2>1, <3>2, <3>3
    <2> QED
      BY <2>1, <2>4, <2>5
  <1> QED
    BY <1>1, ChatsInductive, PTL

(* What was asked and answered is in one place, or the user has removed it *)
(* or its chat, across page changes, concurrent turns and restarts         *)
(* (useChats.ts, ChatInterface.tsx).                                       *)
THEOREM NothingGetsLost == Spec => []NothingIsLost
  <1>1. ASSUME ChatsInv PROVE NothingIsLost
    <2>1. ASSUME NEW n, Has(chats, n) PROVE Cardinality(Places(n)) = 1
      BY <1>1, <2>1, PlaceIsOne, FS_Singleton DEF ChatsInv
    <2> QED
      BY <1>1, <2>1 DEF ChatsInv, NothingIsLost, Asked, Answered
  <1> QED
    BY <1>1, ChatsInductive, PTL

(* What the user removed or edited stays so, and what he imported, but for *)
(* a page left without chats and a reply that comes while the page is      *)
(* about to be reloaded (useChats.ts, SettingsPage.tsx).                   *)
THEOREM ChangesWillStay == Spec => []ChangesStay
  <1>1. ASSUME ChatsInv PROVE ChangesStay
    <2>1. ~reset /\ ~late /\ ~unloading => \A n \in removed : Places(n) = {}
      BY <1>1, PlacesHas DEF ChatsInv, Clean
    <2>2. ASSUME NEW n \in edited, NEW p \in Places(n) PROVE chats[p[1]].messages[p[2]].edited
      <3>0. PICK i \in 1..Len(chats) : \E k \in 1..Len(chats[i].messages) :
              p = <<i, k>> /\ Name(chats[i].messages[k]) = n
        BY PlacesAre
      <3>1. PICK k \in 1..Len(chats[i].messages) : p = <<i, k>> /\ Name(chats[i].messages[k]) = n
        BY <3>0
      <3>2. Placed(chats[i].id, chats[i].messages[k], Now)
        BY <1>1 DEF ChatsInv, ListsInOrder, ListInOrder, InOrder
      <3> QED
        BY <3>1, <3>2 DEF Placed, Now
    <2>3. ASSUME ~late, NEW c \in imported PROVE WithId(saved, c) # {}
      BY <1>1, <2>3 DEF ChatsInv, Kept, IdsIn, WithId
    <2> QED
      BY <2>1, <2>2, <2>3 DEF ChangesStay
  <1> QED
    BY <1>1, ChatsInductive, PTL

(* The question of a turn is not among the messages sent before it, also   *)
(* when it is asked once more (handleRegenerateResponse).                  *)
THEOREM NothingAskedTwice == Spec => []AskedOnce
  <1>1. ASSUME ChatsInv PROVE AskedOnce
    <2> SUFFICES ASSUME NEW t \in Turns, NEW q \in Places(QuestionOf(t)),
                        NEW i \in 1..Len(past[t]), past[t][i].role = "user"
                 PROVE  past[t][i].first # chats[q[1]].messages[q[2]].first
      BY DEF AskedOnce
    <2>0. PICK j \in 1..Len(chats) : \E k \in 1..Len(chats[j].messages) :
            q = <<j, k>> /\ Name(chats[j].messages[k]) = QuestionOf(t)
      BY PlacesAre
    <2>1. PICK k \in 1..Len(chats[j].messages) : q = <<j, k>> /\ Name(chats[j].messages[k]) = QuestionOf(t)
      BY <2>0
    <2> DEFINE m == chats[j].messages[k]
    <2>2. Placed(chats[j].id, m, Now) /\ m = chats[q[1]].messages[q[2]] /\ Name(m) = QuestionOf(t)
      BY <1>1, <2>1 DEF ChatsInv, ListsInOrder, ListInOrder, InOrder
    <2> HIDE DEF m
    <2>3. m.role = "user" /\ m.turn = t
      BY <2>2, NameIs
    <2> QED
      BY <2>2, <2>3 DEF Placed, Now
  <1> QED
    BY <1>1, ChatsInductive, PTL
===============================================================================
