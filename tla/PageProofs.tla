------------------------------ MODULE PageProofs ------------------------------
(***************************************************************************)
(* The page, for any number of chats, messages and texts, of notices,      *)
(* places, pictures and users.  An editor is of the text its draft was     *)
(* begun on, for the rendering that follows each handler puts the drafts   *)
(* right: the argument is one lemma on it (RenderedKeeps) and, for each    *)
(* handler, what it leaves as it was.  A notice that is shown is the last, *)
(* and those that were there when it came still have a time-out to come; a *)
(* place shows the picture of no user but the one there is: the effect     *)
(* that is not cleaned up always waits for the picture of the user there   *)
(* is.  An image is in one place, for the places share none and a file     *)
(* moves whole: the sequences that hold images hold each once, a batch     *)
(* that ends gives its images to one place.  The search for images in a    *)
(* text that opens none finds the whole ones only (WholeOnly), so it       *)
(* filters, and filters compose.                                           *)
(***************************************************************************)
EXTENDS Page, SequenceTheorems, FiniteSetTheorems, WellFoundedInduction, NaturalsInduction, TLAPS

-------------------------------------------------------------------------------
(* The editors.                                                            *)

AllTexts == Texts \cup Drafts \cup {Blank, WelcomeTitle, NewTitle}
AllMessages == UserMessages \cup Answers
Editor == [open : BOOLEAN, text : AllTexts, over : AllTexts]

(* The types the argument needs. *)
EditorTypes ==
  /\ chats \in Seq(Chats) /\ messages \in [Chats -> Seq(AllMessages)]
  /\ title \in [Chats -> AllTexts] /\ content \in [AllMessages -> AllTexts]
  /\ titleEditor \in Editor /\ editors \in [AllMessages -> Editor]
  /\ shown \in BOOLEAN

(* The messages of all chats are known: a new one is on no page.           *)
OnlyKnown == \A c \in Chats : Range(messages[c]) \subseteq used

EditorInv == EditorTypes /\ OnlyKnown /\ DraftsGoHome

LEMMA RangeOf ==
  ASSUME NEW S, NEW s \in Seq(S)
  PROVE  /\ Range(s) \subseteq S /\ Editors!Range(s) = Range(s)
         /\ \A x \in S : Append(s, x) \in Seq(S) /\ Range(Append(s, x)) = Range(s) \cup {x}
         /\ \A x \in S : <<x>> \o s \in Seq(S)
         /\ \A k \in 1..Len(s) : SubSeq(s, 1, k - 1) \in Seq(S) /\ Range(SubSeq(s, 1, k - 1)) \subseteq Range(s)
  <1>1. Range(s) \subseteq S /\ Editors!Range(s) = Range(s)
    BY DEF Range, Editors!Range
  <1>2. ASSUME NEW x \in S
        PROVE  Append(s, x) \in Seq(S) /\ Range(Append(s, x)) = Range(s) \cup {x} /\ <<x>> \o s \in Seq(S)
    <2>1. /\ Append(s, x) \in Seq(S) /\ Len(Append(s, x)) = Len(s) + 1
          /\ \A i \in 1..Len(s) : Append(s, x)[i] = s[i]
          /\ Append(s, x)[Len(s) + 1] = x
      BY AppendProperties
    <2>2. Range(Append(s, x)) = Range(s) \cup {x}
      BY <2>1 DEF Range
    <2> QED
      BY <2>1, <2>2
  <1>3. ASSUME NEW k \in 1..Len(s)
        PROVE  SubSeq(s, 1, k - 1) \in Seq(S) /\ Range(SubSeq(s, 1, k - 1)) \subseteq Range(s)
    <2> DEFINE t == SubSeq(s, 1, k - 1)
    <2>1. t \in Seq(S) /\ Len(t) = k - 1 /\ \A i \in 1..Len(t) : t[i] = s[i]
      OBVIOUS
    <2> HIDE DEF t
    <2>2. Range(t) \subseteq Range(s)
      BY <2>1 DEF Range
    <2> QED
      BY <2>1, <2>2 DEF t
  <1> QED
    BY <1>1, <1>2, <1>3

(* What is left of a sequence. *)
LEMMA RangeWithout ==
  ASSUME NEW S, NEW s \in Seq(S), NEW x
  PROVE  Editors!Without(s, x) \in Seq(S) /\ Range(Editors!Without(s, x)) \subseteq Range(s)
  <1>1. CASE x \notin Editors!Range(s)
    BY <1>1 DEF Editors!Without
  <1>2. CASE x \in Editors!Range(s)
    <2>1. PICK k \in 1..Len(s) : Editors!Without(s, x) = SubSeq(s, 1, k - 1) \o SubSeq(s, k + 1, Len(s))
      <3> DEFINE k == CHOOSE i \in DOMAIN s : s[i] = x
      <3>1. k \in 1..Len(s)
        BY <1>2 DEF Editors!Range
      <3> HIDE DEF k
      <3>2. Editors!Without(s, x) = Editors!RemoveAt(s, k)
        BY <1>2 DEF Editors!Without, k
      <3> QED
        BY <3>1, <3>2 DEF Editors!RemoveAt
    <2> DEFINE a == SubSeq(s, 1, k - 1)  b == SubSeq(s, k + 1, Len(s))
    <2>2. /\ a \in Seq(S) /\ b \in Seq(S)
          /\ \A i \in 1..Len(a) : a[i] \in Range(s)
          /\ \A i \in 1..Len(b) : b[i] \in Range(s)
      BY DEF Range
    <2> HIDE DEF a, b
    <2>3. a \o b \in Seq(S) /\ Range(a \o b) \subseteq Range(s)
      BY <2>2 DEF Range
    <2> QED
      BY <2>1, <2>3 DEF a, b
  <1> QED
    BY <1>1, <1>2

(* A set of places in a list has a last one. *)
LEMMA LastOf ==
  ASSUME NEW n \in Nat, NEW S \in SUBSET (1..n), NEW e \in S
  PROVE  \E i \in S : \A j \in S : j <= i
  <1> DEFINE R == OpToRel(<, Nat)
             T == {k \in Nat : \E i \in S : k = n - i}
  <1>1. IsWellFoundedOn(R, Nat)
    BY NatLessThanWellFounded
  <1>2. T \subseteq Nat /\ T # {}
    <2>1. n - e \in T
      OBVIOUS
    <2> QED
      BY <2>1
  <1>3. PICK x \in T : \A y \in T : ~(<<y, x>> \in R)
    <2> HIDE DEF R, T
    <2> QED
      BY <1>1, <1>2, WFMin
  <1>4. \A y \in T : ~(y < x)
    <2>1. \A y \in T : <<y, x>> \in Nat \X Nat
      BY <1>2
    <2> HIDE DEF T
    <2> QED
      BY <1>3, <2>1 DEF OpToRel
  <1>5. PICK i \in S : x = n - i
    OBVIOUS
  <1>6. \A j \in S : n - j \in T
    OBVIOUS
  <1>7. \A j \in S : ~(n - j < n - i)
    BY <1>4, <1>5, <1>6
  <1> HIDE DEF T, R
  <1> QED
    BY <1>7

LEMMA ChatIsOne ==
  ASSUME EditorTypes
  PROVE  /\ Editors!Chat # Nil => Editors!Chat \in Chats
         /\ Editors!ShownTitle \in AllTexts
         /\ Editors!OnPage \subseteq AllMessages
         /\ Editors!OnPage = IF Editors!Chat = Nil THEN {} ELSE Range(messages[Editors!Chat])
  <1>1. Editors!Chat # Nil => Editors!Chat \in Chats
    BY RangeOf DEF EditorTypes, Editors!Chat
  <1>2. Editors!ShownTitle \in AllTexts
    BY <1>1 DEF EditorTypes, AllTexts, Editors!ShownTitle
  <1>3. Editors!Chat # Nil => /\ Range(messages[Editors!Chat]) \subseteq AllMessages
                              /\ Editors!Range(messages[Editors!Chat]) = Range(messages[Editors!Chat])
    BY <1>1, RangeOf DEF EditorTypes
  <1> QED
    BY <1>1, <1>2, <1>3 DEF Editors!OnPage

LEMMA EditorsInitInv == Editors!Init => EditorInv
  <1> SUFFICES ASSUME Editors!Init PROVE EditorInv
    OBVIOUS
  <1> USE PageAssumption DEF Editors!Init
  <1>1. EditorTypes
    BY DEF EditorTypes, Editor, AllTexts, AllMessages, Editors!Messages, Editors!Closed
  <1>2. \A c \in Chats : Range(messages[c]) = {}
    BY DEF Range
  <1>3. Editors!Chat = Welcome /\ Editors!ShownTitle = WelcomeTitle
    BY DEF Editors!Chat, Editors!ShownTitle, Editors!Range
  <1>4. Editors!OnPage = {}
    BY <1>1, <1>2, <1>3, ChatIsOne
  <1> QED
    BY <1>1, <1>2, <1>3, <1>4 DEF EditorInv, OnlyKnown, DraftsGoHome, Editors!DraftsGoHome, Editors!Closed

(* The effects that follow a handler put the drafts right. *)
LEMMA RenderedKeeps ==
  ASSUME EditorInv,
         chats' \in Seq(Chats), messages' \in [Chats -> Seq(AllMessages)],
         title' \in [Chats -> AllTexts], content' \in [AllMessages -> AllTexts],
         shown' \in BOOLEAN, OnlyKnown',
         NEW te \in Editor, te.over = titleEditor.over,
         NEW es \in [AllMessages -> Editor],
         \A m \in Editors!OnPage \cap Editors!OnPage' : es[m].over = content'[m],
         Editors!Rendered(te, es)
  PROVE  EditorInv'
  <1> USE DEF Editor, Editors!Closed
  <1>1. (Editors!ShownTitle \in AllTexts)' /\ (Editors!OnPage \subseteq AllMessages)'
    <2>1. /\ (Editors!Chat # Nil => Editors!Chat \in Chats)'
      BY RangeOf DEF Editors!Chat
    <2>2. (Editors!ShownTitle \in AllTexts)'
      BY <2>1 DEF AllTexts, Editors!ShownTitle
    <2>3. (Editors!OnPage \subseteq AllMessages)'
      <3>1. ASSUME NEW c \in Chats PROVE Editors!Range(messages'[c]) \subseteq AllMessages
        BY RangeOf
      <3> QED
        BY <2>1, <3>1 DEF Editors!OnPage
    <2> QED
      BY <2>2, <2>3
  <1>2. titleEditor' \in Editor
    BY <1>1 DEF Editors!Rendered
  <1>3. editors' \in [AllMessages -> Editor]
    BY DEF Editors!Rendered, Editors!Messages, AllMessages
  <1>4. shown' => titleEditor'.over = Editors!ShownTitle'
    BY DEF Editors!Rendered, EditorInv, DraftsGoHome, Editors!DraftsGoHome
  <1>5. \A m \in Editors!OnPage' : editors'[m].over = content'[m]
    BY <1>1 DEF Editors!Rendered, Editors!Messages, AllMessages
  <1> QED
    BY <1>2, <1>3, <1>4, <1>5 DEF EditorInv, EditorTypes, DraftsGoHome, Editors!DraftsGoHome


(* A message is added, to a chat that may be gone. *)
LEMMA AddKeeps ==
  ASSUME EditorInv, NEW c, NEW m \in AllMessages \ used, NEW text \in AllTexts,
         NEW before, c \in Chats => before \in Seq(AllMessages) /\ Range(before) \subseteq used,
         Editors!Add(c, m, text, before)
  PROVE  /\ messages' \in [Chats -> Seq(AllMessages)] /\ title' \in [Chats -> AllTexts]
         /\ content' \in [AllMessages -> AllTexts]
         /\ OnlyKnown'
         /\ \A n \in Editors!OnPage : content'[n] = content[n]
  <1> USE DEF EditorInv, EditorTypes
  <1>1. used' = used \cup {m} /\ content' = [content EXCEPT ![m] = text]
    BY DEF Editors!Add
  <1>2. \A n \in Editors!OnPage : content'[n] = content[n]
    BY <1>1, ChatIsOne DEF OnlyKnown
  <1>3. CASE c \notin Editors!Range(chats)
    <2>1. UNCHANGED <<messages, title>>
      BY <1>3 DEF Editors!Add
    <2> QED
      BY <1>1, <1>2, <2>1 DEF OnlyKnown
  <1>4. CASE c \in Editors!Range(chats)
    <2>1. c \in Chats
      BY <1>4, RangeOf
    <2>2. /\ messages' = [messages EXCEPT ![c] = Append(before, m)]
          /\ title' = [title EXCEPT ![c] = IF before = <<>> THEN text ELSE @]
      BY <1>4 DEF Editors!Add
    <2>3. Append(before, m) \in Seq(AllMessages) /\ Range(Append(before, m)) = Range(before) \cup {m}
      BY <2>1, RangeOf
    <2> QED
      BY <1>1, <1>2, <2>1, <2>2, <2>3 DEF OnlyKnown
  <1> QED
    BY <1>3, <1>4

(* The title editor. *)
LEMMA TitleStep ==
  ASSUME EditorInv,
         \/ Editors!StartTitle \/ Editors!SaveTitle \/ Editors!CancelTitle
         \/ \E text \in Drafts : Editors!TypeTitle(text)
  PROVE  EditorInv'
  <1> USE DEF EditorInv, EditorTypes, Editor, AllTexts, Editors!bookVars, Editors!pageVars
  <1>1. CASE Editors!StartTitle
    BY <1>1 DEF Editors!StartTitle, OnlyKnown, DraftsGoHome, Editors!DraftsGoHome, Editors!ShownTitle,
       Editors!OnPage, Editors!Chat
  <1>2. ASSUME NEW text \in Drafts, Editors!TypeTitle(text) PROVE EditorInv'
    BY <1>2 DEF Editors!TypeTitle, OnlyKnown, DraftsGoHome, Editors!DraftsGoHome, Editors!ShownTitle,
       Editors!OnPage, Editors!Chat
  <1>3. CASE Editors!CancelTitle
    <2>1. titleEditor' \in Editor
      BY <1>3, ChatIsOne DEF Editors!CancelTitle, Editors!Closed
    <2> QED
      BY <1>3, <2>1 DEF Editors!CancelTitle, Editors!Closed, OnlyKnown, DraftsGoHome,
         Editors!DraftsGoHome, Editors!ShownTitle, Editors!OnPage, Editors!Chat
  <1>4. CASE Editors!SaveTitle
    <2> DEFINE te == [titleEditor EXCEPT !.open = FALSE]
    <2>1. te \in Editor /\ te.over = titleEditor.over
      OBVIOUS
    <2>2. title' \in [Chats -> AllTexts]
      BY <1>4, ChatIsOne DEF Editors!SaveTitle
    <2>3. UNCHANGED <<chats, messages, content, used, shown>> /\ Editors!Rendered(te, editors)
      BY <1>4 DEF Editors!SaveTitle
    <2>4. \A m \in Editors!OnPage : editors[m].over = content'[m]
      BY <2>3 DEF DraftsGoHome, Editors!DraftsGoHome
    <2>5. OnlyKnown'
      BY <2>3 DEF OnlyKnown
    <2> HIDE DEF te
    <2> QED
      BY <2>1, <2>2, <2>3, <2>4, <2>5, RenderedKeeps DEF EditorInv
  <1> QED
    BY <1>1, <1>2, <1>3, <1>4

(* The editor of a message. *)
LEMMA EditStep ==
  ASSUME EditorInv, NEW m \in AllMessages,
         \/ Editors!StartEdit(m) \/ Editors!SaveEdit(m) \/ Editors!CancelEdit(m)
         \/ Editors!AskDelete(m) \/ \E text \in Drafts : Editors!TypeEdit(m, text)
  PROVE  EditorInv'
  <1> USE DEF EditorInv, EditorTypes, Editor, AllTexts, Editors!bookVars, Editors!pageVars
  <1>1. UNCHANGED <<chats, active, title, messages, used, shown, titleEditor>>
    BY DEF Editors!StartEdit, Editors!SaveEdit, Editors!CancelEdit, Editors!AskDelete, Editors!TypeEdit
  <1>2. OnlyKnown' /\ Editors!ShownTitle' = Editors!ShownTitle /\ Editors!OnPage' = Editors!OnPage
    BY <1>1 DEF OnlyKnown, Editors!ShownTitle, Editors!OnPage, Editors!Chat
  <1>3. SUFFICES /\ editors' \in [AllMessages -> Editor] /\ content' \in [AllMessages -> AllTexts]
                 /\ \A n \in Editors!OnPage : editors'[n].over = content'[n]
    BY <1>1, <1>2 DEF DraftsGoHome, Editors!DraftsGoHome
  <1>4. Editors!OnPage \subseteq AllMessages
    BY ChatIsOne
  <1>5. \A n \in Editors!OnPage : editors[n].over = content[n]
    BY DEF DraftsGoHome, Editors!DraftsGoHome
  <1>6. CASE Editors!StartEdit(m)
    <2>1. content' = content /\ editors' = [editors EXCEPT ![m].open = TRUE]
      BY <1>6 DEF Editors!StartEdit
    <2>2. editors' \in [AllMessages -> Editor]
      BY <2>1
    <2>3. \A n \in AllMessages : editors'[n].over = editors[n].over
      BY <2>1
    <2> QED
      BY <1>4, <1>5, <2>1, <2>2, <2>3
  <1>10. CASE Editors!AskDelete(m)
    BY <1>5, <1>10 DEF Editors!AskDelete
  <1>7. ASSUME NEW text \in Drafts, Editors!TypeEdit(m, text)
        PROVE  /\ editors' \in [AllMessages -> Editor] /\ content' \in [AllMessages -> AllTexts]
               /\ \A n \in Editors!OnPage : editors'[n].over = content'[n]
    <2>1. /\ m \in AllMessages /\ content' = content
          /\ editors' = [editors EXCEPT ![m].text = text]
      BY <1>7 DEF Editors!TypeEdit
    <2>2. editors' \in [AllMessages -> Editor]
      BY <2>1
    <2>3. \A n \in AllMessages : editors'[n].over = editors[n].over
      BY <2>1
    <2> QED
      BY <1>4, <1>5, <2>1, <2>2, <2>3
  <1>8. CASE Editors!SaveEdit(m)
    <2> DEFINE text == editors[m].text
    <2>1. text \in AllTexts /\ m \in Editors!OnPage
      BY <1>8 DEF Editors!SaveEdit
    <2>2. CASE text # Blank
      <3>1. /\ content' = [content EXCEPT ![m] = text]
            /\ editors' = [editors EXCEPT ![m] = [open |-> FALSE, text |-> text, over |-> text]]
        BY <1>8, <2>2 DEF Editors!SaveEdit, Editors!Closed
      <3> HIDE DEF text
      <3> QED
        BY <1>4, <1>5, <2>1, <3>1
    <2>3. CASE text = Blank
      <3>1. editors' = [editors EXCEPT ![m].open = FALSE] /\ UNCHANGED content
        BY <1>8, <2>3 DEF Editors!SaveEdit
      <3> QED
        BY <1>4, <1>5, <3>1
    <2> QED
      BY <2>2, <2>3
  <1>9. CASE Editors!CancelEdit(m)
    BY <1>4, <1>5, <1>9 DEF Editors!CancelEdit, Editors!Closed
  <1> QED
    BY <1>6, <1>7, <1>8, <1>9, <1>10

(* A turn asks, or is answered. *)
LEMMA TurnStep ==
  ASSUME EditorInv,
         \/ \E m \in UserMessages : Editors!Regenerate(m) \/ \E text \in Texts : Editors!SendMessage(m, text)
         \/ \E t \in turns, m \in Answers, text \in Texts : Editors!Answer(t, m, text)
         \/ \E t \in turns : Editors!Fail(t)
  PROVE  EditorInv'
  <1> USE DEF EditorInv, EditorTypes
  <1>0. titleEditor.over = titleEditor.over /\ \A m \in Editors!OnPage : editors[m].over = content[m]
    BY DEF DraftsGoHome, Editors!DraftsGoHome
  <1>1. ASSUME NEW m \in UserMessages, NEW text \in AllTexts, NEW before \in Seq(AllMessages),
               Range(before) \subseteq used, Editors!Ask(m, text, before)
        PROVE  EditorInv'
    <2>1. /\ m \in AllMessages \ used /\ Editors!Add(Editors!Chat, m, text, before)
          /\ UNCHANGED <<chats, shown>> /\ Editors!Rendered(titleEditor, editors)
      BY <1>1 DEF Editors!Ask, AllMessages
    <2>2. /\ messages' \in [Chats -> Seq(AllMessages)] /\ title' \in [Chats -> AllTexts]
          /\ content' \in [AllMessages -> AllTexts] /\ OnlyKnown'
          /\ \A n \in Editors!OnPage : content'[n] = content[n]
      BY <1>1, <2>1, AddKeeps
    <2> QED
      BY <1>0, <2>1, <2>2, RenderedKeeps
  <1>2. ASSUME NEW m \in UserMessages, NEW text \in Texts, Editors!SendMessage(m, text) PROVE EditorInv'
    <2>1. Editors!Chat \in Chats
      BY <1>2, ChatIsOne DEF Editors!SendMessage
    <2> QED
      BY <1>1, <1>2, <2>1 DEF Editors!SendMessage, AllTexts, OnlyKnown
  <1>3. ASSUME NEW m \in UserMessages, Editors!Regenerate(m) PROVE EditorInv'
    <2> DEFINE book == messages[Editors!Chat]
    <2>1. Editors!Chat \in Chats /\ book \in Seq(AllMessages)
      BY <1>3, ChatIsOne DEF Editors!Regenerate
    <2> DEFINE asked == {i \in DOMAIN book : book[i] \in UserMessages}
               k == CHOOSE i \in asked : \A j \in asked : j <= i
    <2>2. asked # {} /\ Editors!Ask(m, content[book[k]], SubSeq(book, 1, k - 1))
      BY <1>3 DEF Editors!Regenerate
    <2>0. asked \subseteq 1..Len(book)
      BY <2>1
    <2>5. k \in asked
      <3>1. Len(book) \in Nat /\ asked \in SUBSET (1..Len(book)) /\ \E e \in asked : TRUE
        BY <2>0, <2>1, <2>2
      <3> HIDE DEF asked, book
      <3>2. \E i \in asked : \A j \in asked : j <= i
        BY <3>1, LastOf
      <3> QED
        BY <3>2
    <2>3. k \in 1..Len(book) /\ content[book[k]] \in AllTexts
      BY <2>0, <2>1, <2>5
    <2> HIDE DEF book, k
    <2>4. SubSeq(book, 1, k - 1) \in Seq(AllMessages) /\ Range(SubSeq(book, 1, k - 1)) \subseteq used
      BY <2>1, <2>3, RangeOf DEF OnlyKnown, book
    <2> QED
      BY <1>1, <2>2, <2>3, <2>4
  <1>4. ASSUME NEW t \in turns, NEW m \in Answers, NEW text \in Texts, Editors!Answer(t, m, text)
        PROVE  EditorInv'
    <2>1. /\ m \in AllMessages \ used /\ Editors!Add(t.chat, m, text, messages[t.chat])
          /\ UNCHANGED <<chats, shown>> /\ Editors!Rendered(titleEditor, editors)
      BY <1>4 DEF Editors!Answer, AllMessages
    <2>2. text \in AllTexts
      BY DEF AllTexts
    <2>3. /\ messages' \in [Chats -> Seq(AllMessages)] /\ title' \in [Chats -> AllTexts]
          /\ content' \in [AllMessages -> AllTexts] /\ OnlyKnown'
          /\ \A n \in Editors!OnPage : content'[n] = content[n]
      BY <2>1, <2>2, AddKeeps DEF OnlyKnown
    <2> QED
      BY <1>0, <2>1, <2>3, RenderedKeeps
  <1>5. ASSUME NEW t \in turns, Editors!Fail(t) PROVE EditorInv'
    BY <1>5 DEF Editors!Fail, Editors!bookVars, OnlyKnown, DraftsGoHome, Editors!DraftsGoHome,
       Editors!ShownTitle, Editors!OnPage, Editors!Chat
  <1> QED
    BY <1>2, <1>3, <1>4, <1>5

(* The sidebar, the pages, and a deletion. *)
LEMMA PageStep ==
  ASSUME EditorInv,
         \/ \E delete \in BOOLEAN : Editors!AnswerDelete(delete)
         \/ \E c \in Chats : Editors!SelectChat(c) \/ Editors!CreateNewChat(c) \/ Editors!DeleteChat(c)
         \/ Editors!Leave \/ Editors!Back
  PROVE  EditorInv'
  <1> USE DEF EditorInv, EditorTypes
  <1>0. titleEditor.over = titleEditor.over /\ \A m \in Editors!OnPage : editors[m].over = content[m]
    BY DEF DraftsGoHome, Editors!DraftsGoHome
  <1>1. ASSUME NEW delete \in BOOLEAN, Editors!AnswerDelete(delete) PROVE EditorInv'
    <2>1. UNCHANGED <<chats, title, content, used, shown>> /\ Editors!Rendered(titleEditor, editors)
      BY <1>1 DEF Editors!AnswerDelete
    <2>2. messages' \in [Chats -> Seq(AllMessages)] /\ OnlyKnown'
      <3>1. \A c \in Chats : messages'[c] \in Seq(AllMessages) /\ Range(messages'[c]) \subseteq used
        <4> TAKE c \in Chats
        <4>1. messages'[c] \in {messages[c], Editors!Without(messages[c], asking)}
          BY <1>1 DEF Editors!AnswerDelete
        <4>2. messages[c] \in Seq(AllMessages) /\ Range(messages[c]) \subseteq used
          BY DEF OnlyKnown
        <4>3. /\ Editors!Without(messages[c], asking) \in Seq(AllMessages)
              /\ Range(Editors!Without(messages[c], asking)) \subseteq Range(messages[c])
          BY <4>2, RangeWithout
        <4> QED
          BY <4>1, <4>2, <4>3
      <3>2. messages' \in [Chats -> Seq(AllMessages)]
        BY <1>1, <3>1 DEF Editors!AnswerDelete
      <3> QED
        BY <2>1, <3>1, <3>2 DEF OnlyKnown
    <2> QED
      BY <1>0, <2>1, <2>2, RenderedKeeps
  <1>2. ASSUME NEW c \in Chats, Editors!SelectChat(c) PROVE EditorInv'
    <2>1. /\ UNCHANGED <<chats, title, messages, content, used>> /\ shown' = TRUE
          /\ Editors!Rendered(titleEditor, editors)
      BY <1>2 DEF Editors!SelectChat, Editors!Show
    <2> QED
      BY <1>0, <2>1, RenderedKeeps DEF OnlyKnown
  <1>3. ASSUME NEW c \in Chats, Editors!CreateNewChat(c) PROVE EditorInv'
    <2>1. /\ chats' = <<c>> \o chats /\ used' = used \cup {c} /\ title' = [title EXCEPT ![c] = NewTitle]
          /\ UNCHANGED <<messages, content>> /\ shown' = TRUE /\ Editors!Rendered(titleEditor, editors)
      BY <1>3 DEF Editors!CreateNewChat, Editors!Show
    <2>2. chats' \in Seq(Chats) /\ title' \in [Chats -> AllTexts] /\ OnlyKnown'
      BY <2>1, RangeOf DEF OnlyKnown, AllTexts
    <2> QED
      BY <1>0, <2>1, <2>2, RenderedKeeps
  <1>4. ASSUME NEW c \in Chats, Editors!DeleteChat(c) PROVE EditorInv'
    <2>1. /\ chats' = Editors!Without(chats, c) /\ UNCHANGED <<title, messages, content, used, shown>>
          /\ Editors!Rendered(titleEditor, editors)
      BY <1>4 DEF Editors!DeleteChat, Editors!pageVars
    <2>2. chats' \in Seq(Chats) /\ OnlyKnown'
      BY <2>1, RangeWithout DEF OnlyKnown
    <2> QED
      BY <1>0, <2>1, <2>2, RenderedKeeps
  <1>5. CASE Editors!Leave \/ Editors!Back
    <2>1. /\ UNCHANGED <<chats, title, messages, content, used>> /\ shown' \in BOOLEAN
          /\ Editors!Rendered(titleEditor, editors)
      BY <1>5 DEF Editors!Leave, Editors!Back, Editors!Show, Editors!bookVars
    <2> QED
      BY <1>0, <2>1, RenderedKeeps DEF OnlyKnown
  <1> QED
    BY <1>1, <1>2, <1>3, <1>4, <1>5

LEMMA EditorsInductive == Editors!Spec => []EditorInv
  <1>1. EditorInv /\ UNCHANGED Editors!vars => EditorInv'
    BY DEF EditorInv, EditorTypes, Editors!vars, OnlyKnown, DraftsGoHome, Editors!DraftsGoHome,
       Editors!ShownTitle, Editors!OnPage, Editors!Chat
  <1>2. EditorInv /\ Editors!Next => EditorInv'
    BY TitleStep, EditStep, TurnStep, PageStep DEF Editors!Next, Editors!Messages, AllMessages
  <1> QED
    BY <1>1, <1>2, EditorsInitInv, PTL DEF Editors!Spec

(* An editor saves over the text its draft was begun on, and no other      *)
(* (ChatInterface.tsx, ChatMessage.tsx).                                   *)
THEOREM DraftsFindHome == Editors!Spec => []DraftsGoHome
  <1>1. EditorInv => DraftsGoHome
    BY DEF EditorInv
  <1> QED
    BY <1>1, EditorsInductive, PTL
-------------------------------------------------------------------------------
(* The composer.                                                           *)

Sending == [text : Typed \cup {<<>>}, images : Seq(Images)]
Disjoint(s, t) == \A x \in s : x \notin t
Once(s) == \A i, j \in 1..Len(s) : i # j => s[i] # s[j]
Held(b) == Range(left[b]) \cup Range(read[b])
SentIn(n) == Range(sent[n].images)

ComposerTypes ==
  /\ message \in Typed \cup {<<>>} /\ attachments \in Seq(Images) /\ queued \in Seq(Images)
  /\ left \in [Batches -> Seq(Images)] /\ read \in [Batches -> Seq(Images)]
  /\ reader \in [Batches -> Nat] /\ mounts \in Nat \ {0}
  /\ sent \in Seq(Sending)

(* A batch that is not at work has nothing to read. *)
AtWork == \A b \in Batches : /\ reader[b] = 0 => left[b] = <<>>
                             /\ left[b] = <<>> => read[b] = <<>>

EachOnce ==
  /\ Once(attachments) /\ Once(queued)
  /\ \A b \in Batches : Once(left[b]) /\ Once(read[b]) /\ Disjoint(Range(left[b]), Range(read[b]))
  /\ \A n \in 1..Len(sent) : Once(sent[n].images)

(* The images on their way into the input or there, and all that are gone. *)
InHand == Range(attachments) \cup Range(queued)
Gone == discarded \cup lost

(* No image is with two batches or messages, or here and there.            *)
Apart ==
  /\ \A b, c \in Batches : b # c => Disjoint(Held(b), Held(c))
  /\ \A m, n \in 1..Len(sent) : m # n => Disjoint(SentIn(m), SentIn(n))
  /\ \A b \in Batches : \A n \in 1..Len(sent) : Disjoint(Held(b), SentIn(n))
  /\ \A b \in Batches : Disjoint(Held(b), InHand) /\ Disjoint(Held(b), Gone)
  /\ \A n \in 1..Len(sent) : Disjoint(SentIn(n), InHand) /\ Disjoint(SentIn(n), Gone)
  /\ Disjoint(InHand, Gone)
  /\ Disjoint(Range(attachments), Range(queued)) /\ Disjoint(discarded, lost)

Somewhere(f) == \/ \E b \in Batches : f \in Held(b)
                \/ \E n \in 1..Len(sent) : f \in SentIn(n)
                \/ f \in InHand \/ f \in Gone

AllThere == \A f : f \in given <=> Somewhere(f)

ImagesInv == ComposerTypes /\ AtWork /\ EachOnce /\ Apart /\ AllThere

LEMMA ElementsOf ==
  ASSUME NEW S, NEW s \in Seq(S)
  PROVE  /\ Range(s) \subseteq S /\ Composer!Range(s) = Range(s)
         /\ \A x : x \in Range(s) <=> \E i \in 1..Len(s) : x = s[i]
         /\ Range(<<>>) = {} /\ Once(<<>>) /\ <<>> \in Seq(S)
  BY DEF Range, Composer!Range, Once

LEMMA ElementsOfAppend ==
  ASSUME NEW S, NEW s \in Seq(S), NEW x \in S
  PROVE  /\ Append(s, x) \in Seq(S) /\ Range(Append(s, x)) = Range(s) \cup {x}
         /\ Once(s) /\ x \notin Range(s) => Once(Append(s, x))
  <1>1. /\ Append(s, x) \in Seq(S) /\ Len(Append(s, x)) = Len(s) + 1
        /\ \A i \in 1..Len(s) : Append(s, x)[i] = s[i]
        /\ Append(s, x)[Len(s) + 1] = x
    BY AppendProperties
  <1> DEFINE t == Append(s, x)
  <1> HIDE DEF t
  <1>2. Range(t) = Range(s) \cup {x}
    BY <1>1 DEF Range, t
  <1>3. ASSUME Once(s), x \notin Range(s) PROVE Once(t)
    BY <1>1, <1>3 DEF Once, Range, t
  <1> QED
    BY <1>1, <1>2, <1>3 DEF t

LEMMA ElementsOfTail ==
  ASSUME NEW S, NEW s \in Seq(S), s # <<>>
  PROVE  /\ Tail(s) \in Seq(S) /\ Head(s) \in S /\ Range(s) = Range(Tail(s)) \cup {Head(s)}
         /\ Once(s) => Once(Tail(s)) /\ Head(s) \notin Range(Tail(s))
         /\ Tail(s) = <<>> <=> ~(Len(s) > 1)
  <1>1. /\ Tail(s) \in Seq(S) /\ Head(s) \in S /\ Head(s) = s[1] /\ Len(Tail(s)) = Len(s) - 1
        /\ \A i \in 1..Len(s) - 1 : Tail(s)[i] = s[i + 1]
        /\ Len(s) \in Nat /\ Len(s) > 0
    BY HeadTailProperties
  <1> DEFINE t == Tail(s)
  <1> HIDE DEF t
  <1>2. /\ t \in Seq(S) /\ Len(t) = Len(s) - 1 /\ \A i \in 1..Len(s) - 1 : t[i] = s[i + 1]
    BY <1>1 DEF t
  <1>3. Range(s) = Range(t) \cup {s[1]}
    <2>1. ASSUME NEW i \in 1..Len(s) PROVE s[i] \in Range(t) \cup {s[1]}
      <3>1. CASE i = 1
        BY <3>1
      <3>2. CASE i # 1
        <4>1. i - 1 \in 1..Len(t) /\ t[i - 1] = s[i]
          BY <1>1, <1>2, <3>2
        <4> QED
          BY <1>2, <4>1, ElementsOf
      <3> QED
        BY <3>1, <3>2
    <2>2. ASSUME NEW i \in 1..Len(t) PROVE t[i] \in Range(s)
      <3>1. i + 1 \in 1..Len(s) /\ t[i] = s[i + 1]
        BY <1>1, <1>2
      <3> QED
        BY <3>1, ElementsOf
    <2>3. s[1] \in Range(s)
      BY <1>1, ElementsOf
    <2>4. Range(s) \subseteq Range(t) \cup {s[1]}
      BY <2>1, ElementsOf
    <2>5. Range(t) \subseteq Range(s)
      BY <1>2, <2>2, ElementsOf
    <2> QED
      BY <2>3, <2>4, <2>5
  <1>4. ASSUME Once(s) PROVE Once(t) /\ s[1] \notin Range(t)
    <2>1. ASSUME NEW i \in 1..Len(t), NEW j \in 1..Len(t), i # j PROVE t[i] # t[j]
      <3>1. i + 1 \in 1..Len(s) /\ j + 1 \in 1..Len(s) /\ i + 1 # j + 1
        BY <1>1, <1>2, <2>1
      <3> QED
        BY <1>1, <1>2, <1>4, <3>1 DEF Once
    <2>2. ASSUME NEW i \in 1..Len(t) PROVE t[i] # s[1]
      <3>1. i + 1 \in 1..Len(s) /\ 1 \in 1..Len(s) /\ i + 1 # 1
        BY <1>1, <1>2
      <3> QED
        BY <1>1, <1>2, <1>4, <3>1 DEF Once
    <2>3. s[1] \notin Range(t)
      BY <1>2, <2>2, ElementsOf
    <2> QED
      BY <2>1, <2>3 DEF Once
  <1>5. t = <<>> <=> ~(Len(s) > 1)
    BY <1>1, <1>2
  <1> QED
    BY <1>1, <1>2, <1>3, <1>4, <1>5 DEF t

LEMMA ElementsOfConcat ==
  ASSUME NEW S, NEW s \in Seq(S), NEW t \in Seq(S)
  PROVE  /\ s \o t \in Seq(S) /\ Range(s \o t) = Range(s) \cup Range(t)
         /\ Once(s) /\ Once(t) /\ Disjoint(Range(s), Range(t)) => Once(s \o t)
  <1> DEFINE u == s \o t
  <1>1. /\ u \in Seq(S) /\ Len(u) = Len(s) + Len(t) /\ Len(s) \in Nat /\ Len(t) \in Nat
        /\ \A i \in 1..Len(s) : u[i] = s[i]
        /\ \A i \in 1..Len(t) : u[Len(s) + i] = t[i]
    BY ConcatProperties
  <1> HIDE DEF u
  <1>2. \A i \in 1..Len(u) : i \in 1..Len(s) \/ (i - Len(s) \in 1..Len(t) /\ u[i] = t[i - Len(s)])
    <2> TAKE i \in 1..Len(u)
    <2>1. CASE i > Len(s)
      <3>1. i - Len(s) \in 1..Len(t) /\ Len(s) + (i - Len(s)) = i
        BY <1>1, <2>1
      <3> QED
        BY <1>1, <3>1
    <2> QED
      BY <1>1, <2>1
  <1>3. Range(u) = Range(s) \cup Range(t)
    <2>1. ASSUME NEW i \in 1..Len(u) PROVE u[i] \in Range(s) \cup Range(t)
      <3>1. CASE i \in 1..Len(s)
        BY <1>1, <3>1, ElementsOf
      <3>2. CASE i - Len(s) \in 1..Len(t) /\ u[i] = t[i - Len(s)]
        BY <3>2, ElementsOf
      <3> QED
        BY <1>2, <3>1, <3>2
    <2>2. ASSUME NEW i \in 1..Len(s) PROVE s[i] \in Range(u)
      <3>1. i \in 1..Len(u) /\ u[i] = s[i]
        BY <1>1
      <3> QED
        BY <1>1, <3>1, ElementsOf
    <2>3. ASSUME NEW i \in 1..Len(t) PROVE t[i] \in Range(u)
      <3>1. Len(s) + i \in 1..Len(u) /\ u[Len(s) + i] = t[i]
        BY <1>1
      <3> QED
        BY <1>1, <3>1, ElementsOf
    <2>4. Range(u) \subseteq Range(s) \cup Range(t)
      BY <1>1, <2>1, ElementsOf
    <2>5. Range(s) \subseteq Range(u)
      BY <2>2, ElementsOf
    <2>6. Range(t) \subseteq Range(u)
      BY <2>3, ElementsOf
    <2> QED
      BY <2>4, <2>5, <2>6
  <1>4. ASSUME Once(s), Once(t), Disjoint(Range(s), Range(t)) PROVE Once(u)
    <2> SUFFICES ASSUME NEW i \in 1..Len(u), NEW j \in 1..Len(u), i < j PROVE u[i] # u[j]
      BY <1>1 DEF Once
    <2>1. \A k \in 1..Len(s) : s[k] \in Range(s)
      BY DEF Range
    <2>2. \A k \in 1..Len(t) : t[k] \in Range(t)
      BY DEF Range
    <2>3. CASE j \in 1..Len(s)
      BY <1>1, <1>4, <2>3 DEF Once
    <2>4. CASE i \in 1..Len(s) /\ j \notin 1..Len(s)
      BY <1>1, <1>2, <1>4, <2>1, <2>2, <2>4 DEF Disjoint
    <2>5. CASE i \notin 1..Len(s)
      <3>1. j \notin 1..Len(s)
        BY <1>1, <2>5
      <3>2. /\ i - Len(s) \in 1..Len(t) /\ u[i] = t[i - Len(s)]
            /\ j - Len(s) \in 1..Len(t) /\ u[j] = t[j - Len(s)]
        BY <1>2, <2>5, <3>1
      <3>3. i - Len(s) # j - Len(s)
        BY <1>1
      <3> QED
        BY <1>4, <3>2, <3>3 DEF Once
    <2> QED
      BY <1>1, <2>3, <2>4, <2>5
  <1> QED
    BY <1>1, <1>3, <1>4 DEF u

LEMMA ElementsOfRemoveAt ==
  ASSUME NEW S, NEW s \in Seq(S), NEW k \in 1..Len(s), Once(s)
  PROVE  /\ Composer!RemoveAt(s, k) \in Seq(S) /\ Once(Composer!RemoveAt(s, k))
         /\ Range(Composer!RemoveAt(s, k)) = Range(s) \ {s[k]}
  <1> DEFINE a == SubSeq(s, 1, k - 1)  b == SubSeq(s, k + 1, Len(s))  u == a \o b
  <1>1. /\ a \in Seq(S) /\ Len(a) = k - 1 /\ \A i \in 1..k - 1 : a[i] = s[i]
        /\ b \in Seq(S) /\ Len(b) = Len(s) - k /\ \A i \in 1..Len(b) : b[i] = s[k + i]
        /\ Len(s) \in Nat
    OBVIOUS
  <1>2. Composer!RemoveAt(s, k) = u
    BY DEF Composer!RemoveAt
  <1> HIDE DEF a, b
  <1>2a. /\ \A i \in 1..Len(a) : i \in 1..Len(s) /\ i # k /\ a[i] = s[i]
         /\ \A i \in 1..Len(b) : k + i \in 1..Len(s) /\ k + i # k /\ b[i] = s[k + i]
         /\ \A i \in 1..Len(a) : \A j \in 1..Len(b) : i # k + j
    BY <1>1
  <1>3. Once(a) /\ Once(b) /\ Disjoint(Range(a), Range(b))
    <2>1. Once(a)
      BY <1>2a DEF Once
    <2>2. ASSUME NEW i \in 1..Len(b), NEW j \in 1..Len(b), i # j PROVE b[i] # b[j]
      <3>1. k + i # k + j
        BY <1>1, <2>2
      <3> QED
        BY <1>2a, <3>1 DEF Once
    <2>3. \A i \in 1..Len(a) : \A j \in 1..Len(b) : a[i] # b[j]
      BY <1>2a DEF Once
    <2>4. Once(b)
      BY <2>2 DEF Once
    <2>5. Disjoint(Range(a), Range(b))
      BY <1>1, <2>3, ElementsOf DEF Disjoint
    <2> QED
      BY <2>1, <2>4, <2>5
  <1>4. u \in Seq(S) /\ Range(u) = Range(a) \cup Range(b) /\ Once(u)
    <2> HIDE DEF u
    <2> QED
      BY <1>1, <1>3, ElementsOfConcat DEF u
  <1>5. Range(a) \cup Range(b) = Range(s) \ {s[k]}
    <2>1. ASSUME NEW i \in 1..Len(a) PROVE a[i] \in Range(s) \ {s[k]}
      <3>1. s[i] # s[k]
        BY <1>2a DEF Once
      <3> QED
        BY <1>2a, <3>1, ElementsOf
    <2>2. ASSUME NEW i \in 1..Len(b) PROVE b[i] \in Range(s) \ {s[k]}
      <3>1. s[k + i] # s[k]
        BY <1>2a DEF Once
      <3> QED
        BY <1>2a, <3>1, ElementsOf
    <2>3. Range(a) \subseteq Range(s) \ {s[k]}
      BY <1>1, <2>1, ElementsOf
    <2>4. Range(b) \subseteq Range(s) \ {s[k]}
      BY <1>1, <2>2, ElementsOf
    <2>5. ASSUME NEW i \in 1..Len(s), i # k PROVE s[i] \in Range(a) \cup Range(b)
      <3>1. CASE i < k
        <4>1. i \in 1..Len(a) /\ a[i] = s[i]
          BY <1>1, <3>1
        <4> QED
          BY <1>1, <4>1, ElementsOf
      <3>2. CASE i > k
        <4>1. i - k \in 1..Len(b) /\ k + (i - k) = i
          BY <1>1, <3>2
        <4>2. b[i - k] = s[i]
          BY <1>2a, <4>1
        <4> QED
          BY <1>1, <4>1, <4>2, ElementsOf
      <3> QED
        BY <1>1, <2>5, <3>1, <3>2
    <2>6. Range(s) \ {s[k]} \subseteq Range(a) \cup Range(b)
      BY <2>5, ElementsOf
    <2> QED
      BY <2>3, <2>4, <2>6
  <1> QED
    BY <1>2, <1>4, <1>5

LEMMA Empty ==
  /\ \A S : <<>> \in Seq(S)
  /\ Range(<<>>) = {} /\ Once(<<>>) /\ Len(<<>>) = 0
  BY DEF Range, Once

LEMMA FilesInit ==
  ASSUME Composer!Init
  PROVE  ImagesInv
  BY Empty DEF Composer!Init, ImagesInv, ComposerTypes, AtWork, EachOnce, Apart, AllThere,
               Somewhere, Held, SentIn, InHand, Gone, Disjoint

LEMMA FilesGiven ==
  ASSUME ImagesInv, NEW b \in Batches, NEW images \in Composer!ImageLists, NEW others \in SUBSET Others,
         Composer!HandleFiles(b, images, others)
  PROVE  ImagesInv'
  <1>1. images \in Seq(Images) /\ Once(images)
    <2>1. CASE images = <<>>
      BY <2>1, Empty
    <2>2. CASE \E f \in Images : images = <<f>>
      BY <2>2 DEF Once
    <2>3. CASE images \in Images \X Images /\ images[1] # images[2]
      <3>1. PICK f \in Images, g \in Images : images = <<f, g>>
        BY <2>3
      <3>2. f # g
        BY <2>3, <3>1
      <3>3. images \in Seq(Images) /\ Len(images) = 2 /\ images[1] = f /\ images[2] = g
        BY <3>1
      <3> QED
        BY <3>2, <3>3 DEF Once
    <2> QED
      BY <2>1, <2>2, <2>3 DEF Composer!ImageLists
  <1>2. /\ \A S : <<>> \in Seq(S)
        /\ Range(<<>>) = {} /\ Once(<<>>)
    BY Empty
  <1>3. /\ left' = [left EXCEPT ![b] = images] /\ read' = read
        /\ reader' = [reader EXCEPT ![b] = IF images # <<>> THEN mounts ELSE 0]
        /\ reader[b] = 0 /\ (Range(images) \cup others) \cap given = {}
        /\ given' = given \cup Range(images) \cup others
        /\ discarded' = discarded \cup others
        /\ message' = message /\ attachments' = attachments /\ queued' = queued
        /\ mounts' = mounts /\ sent' = sent /\ lost' = lost
    BY <1>1, ElementsOf DEF Composer!HandleFiles
  <1>4. Range(images) \cap others = {}
    BY <1>1, ElementsOf, PageAssumption
  <1>5. left[b] = <<>> /\ read[b] = <<>>
    BY <1>3 DEF ImagesInv, AtWork
  <1>6. ComposerTypes'
    BY <1>1, <1>3 DEF ImagesInv, ComposerTypes
  <1>7. AtWork'
    BY <1>3, <1>5 DEF ImagesInv, ComposerTypes, AtWork
  <1>8. EachOnce'
    <2>1. /\ Once(left'[b]) /\ Once(read'[b]) /\ Disjoint(Range(left'[b]), Range(read'[b]))
      BY <1>1, <1>2, <1>3, <1>5 DEF ImagesInv, ComposerTypes, Disjoint
    <2>2. \A c \in Batches : c # b => left'[c] = left[c] /\ read'[c] = read[c]
      BY <1>3 DEF ImagesInv, ComposerTypes
    <2> QED
      BY <1>3, <2>1, <2>2 DEF ImagesInv, EachOnce
  <1>9. /\ Held(b) = {} /\ Held(b)' = Range(images) /\ \A c \in Batches : c # b => Held(c)' = Held(c)
        /\ \A n : SentIn(n)' = SentIn(n)
    BY <1>2, <1>3, <1>5 DEF ImagesInv, ComposerTypes, Held, SentIn
  <1>10. Apart'
    <2>1. \A f \in Range(images) \cup others : ~Somewhere(f)
      BY <1>3 DEF ImagesInv, AllThere
    <2> QED
      BY <1>3, <1>4, <1>9, <2>1 DEF ImagesInv, Apart, Somewhere, InHand, Gone, Disjoint
  <1>11. AllThere'
    BY <1>3, <1>9 DEF ImagesInv, AllThere, Somewhere, InHand, Gone
  <1> QED
    BY <1>6, <1>7, <1>8, <1>10, <1>11 DEF ImagesInv

(* Where a batch ends, its images go to one place.                         *)
LEMMA BatchEnds ==
  ASSUME ImagesInv, NEW b \in Batches,
         left' = [left EXCEPT ![b] = <<>>], read' = [read EXCEPT ![b] = <<>>],
         reader' = [reader EXCEPT ![b] = 0],
         message' = message, mounts' = mounts, sent' = sent, given' = given,
         attachments' = attachments, queued' \in Seq(Images), Once(queued'),
         \/ Range(queued') = Range(queued) \cup Held(b) /\ discarded' = discarded /\ lost' = lost
         \/ Range(queued') = Range(queued) /\ discarded' = discarded \cup Held(b) /\ lost' = lost
         \/ Range(queued') = Range(queued) /\ discarded' = discarded /\ lost' = lost \cup Held(b)
  PROVE  ImagesInv'
  <1>1. /\ \A S : <<>> \in Seq(S)
        /\ Range(<<>>) = {} /\ Once(<<>>)
    BY Empty
  <1>2. ComposerTypes'
    BY <1>1 DEF ImagesInv, ComposerTypes
  <1>3. AtWork'
    BY DEF ImagesInv, ComposerTypes, AtWork
  <1>4. /\ left'[b] = <<>> /\ read'[b] = <<>>
        /\ \A c \in Batches : c # b => left'[c] = left[c] /\ read'[c] = read[c]
    BY DEF ImagesInv, ComposerTypes
  <1>5. EachOnce'
    BY <1>1, <1>4 DEF ImagesInv, EachOnce, Disjoint
  <1>6. /\ Held(b)' = {} /\ \A c \in Batches : c # b => Held(c)' = Held(c)
        /\ \A n : SentIn(n)' = SentIn(n)
    BY <1>1, <1>4 DEF Held, SentIn
  <1>7. \/ InHand' = InHand \cup Held(b) /\ Gone' = Gone
        \/ InHand' = InHand /\ Gone' = Gone \cup Held(b)
    BY DEF InHand, Gone
  <1>8. /\ \A c, d \in Batches : c # d => Disjoint(Held(c)', Held(d)')
        /\ \A m, n \in 1..Len(sent) : m # n => Disjoint(SentIn(m)', SentIn(n)')
        /\ \A c \in Batches : \A n \in 1..Len(sent) : Disjoint(Held(c)', SentIn(n)')
        /\ \A c \in Batches : Disjoint(Held(c)', InHand') /\ Disjoint(Held(c)', Gone')
        /\ \A n \in 1..Len(sent) : Disjoint(SentIn(n)', InHand') /\ Disjoint(SentIn(n)', Gone')
        /\ Disjoint(InHand', Gone')
    BY <1>6, <1>7 DEF ImagesInv, Apart, Disjoint
  <1>9. Disjoint(Range(attachments'), Range(queued')) /\ Disjoint(discarded', lost')
    BY DEF ImagesInv, Apart, InHand, Gone, Disjoint
  <1>10. Apart'
    BY <1>8, <1>9 DEF Apart
  <1>11. AllThere'
    BY <1>6, <1>7 DEF ImagesInv, AllThere, Somewhere
  <1> QED
    BY <1>2, <1>3, <1>5, <1>10, <1>11 DEF ImagesInv

LEMMA ImageIsRead ==
  ASSUME ImagesInv, NEW b \in Batches, Composer!ReadImage(b)
  PROVE  ImagesInv'
  <1> DEFINE images == Append(read[b], Head(left[b]))
  <1>1. left[b] \in Seq(Images) /\ read[b] \in Seq(Images) /\ left[b] # <<>> /\ queued \in Seq(Images)
    BY DEF ImagesInv, ComposerTypes, Composer!ReadImage
  <1>2. /\ Tail(left[b]) \in Seq(Images) /\ Head(left[b]) \in Images
        /\ Range(left[b]) = Range(Tail(left[b])) \cup {Head(left[b])}
        /\ Once(Tail(left[b])) /\ Head(left[b]) \notin Range(Tail(left[b]))
        /\ Tail(left[b]) = <<>> <=> ~(Len(left[b]) > 1)
    BY <1>1, ElementsOfTail DEF ImagesInv, EachOnce
  <1>3. Once(read[b]) /\ Disjoint(Range(left[b]), Range(read[b]))
    BY DEF ImagesInv, EachOnce
  <1>4. images \in Seq(Images) /\ Range(images) = Range(read[b]) \cup {Head(left[b])} /\ Once(images)
    <2>1. Head(left[b]) \notin Range(read[b])
      BY <1>2, <1>3 DEF Disjoint
    <2> QED
      BY <1>1, <1>2, <1>3, <2>1, ElementsOfAppend
  <1> HIDE DEF images
  <1>5. CASE Len(left[b]) > 1
    <2>1. /\ left' = [left EXCEPT ![b] = Tail(left[b])] /\ read' = [read EXCEPT ![b] = images]
          /\ reader' = reader /\ discarded' = discarded /\ given' = given
          /\ message' = message /\ attachments' = attachments /\ queued' = queued
          /\ mounts' = mounts /\ sent' = sent /\ lost' = lost
      BY <1>5 DEF Composer!ReadImage, images, ImagesInv, ComposerTypes
    <2>2. /\ left'[b] = Tail(left[b]) /\ read'[b] = images
          /\ \A c \in Batches : c # b => left'[c] = left[c] /\ read'[c] = read[c]
      BY <2>1 DEF ImagesInv, ComposerTypes
    <2>3. ComposerTypes'
      BY <1>2, <1>4, <2>1 DEF ImagesInv, ComposerTypes
    <2>4. AtWork'
      BY <1>1, <1>2, <1>5, <2>1, <2>2 DEF ImagesInv, AtWork
    <2>5. Disjoint(Range(Tail(left[b])), Range(images))
      BY <1>2, <1>3, <1>4 DEF Disjoint
    <2>6. EachOnce'
      BY <1>2, <1>4, <2>1, <2>2, <2>5 DEF ImagesInv, EachOnce
    <2>7. (\A c \in Batches : Held(c)' = Held(c)) /\ \A n : SentIn(n)' = SentIn(n)
      BY <1>2, <1>4, <2>1, <2>2 DEF Held, SentIn
    <2>8. Apart' /\ AllThere'
      BY <2>1, <2>7 DEF ImagesInv, Apart, AllThere, Somewhere, InHand, Gone
    <2> QED
      BY <2>3, <2>4, <2>6, <2>8 DEF ImagesInv
  <1>6. CASE ~(Len(left[b]) > 1)
    <2>1. /\ left' = [left EXCEPT ![b] = <<>>] /\ read' = [read EXCEPT ![b] = <<>>]
          /\ reader' = [reader EXCEPT ![b] = 0] /\ given' = given
          /\ message' = message /\ mounts' = mounts /\ sent' = sent
          /\ attachments' = attachments /\ lost' = lost
      BY <1>2, <1>6 DEF Composer!ReadImage, ImagesInv, ComposerTypes
    <2>2. \/ queued' = queued \o images /\ discarded' = discarded
          \/ queued' = queued /\ discarded' = discarded \cup Range(images)
      BY <1>4, <1>6, ElementsOf DEF Composer!ReadImage, images
    <2>3. Held(b) = Range(images) /\ Once(queued) /\ Disjoint(Range(queued), Range(images))
      <3>1. Range(Tail(left[b])) = {}
        BY <1>2, <1>6, ElementsOf
      <3> QED
        BY <1>2, <1>4, <3>1 DEF ImagesInv, EachOnce, Apart, InHand, Held, Disjoint
    <2>4. /\ queued \o images \in Seq(Images) /\ Once(queued \o images)
          /\ Range(queued \o images) = Range(queued) \cup Range(images)
      <3>1. \A s, t \in Seq(Images) :
              /\ s \o t \in Seq(Images) /\ Range(s \o t) = Range(s) \cup Range(t)
              /\ Once(s) /\ Once(t) /\ Disjoint(Range(s), Range(t)) => Once(s \o t)
        BY ElementsOfConcat
      <3>2. queued \in Seq(Images) /\ images \in Seq(Images)
        BY <1>1, <1>4
      <3>3. Once(queued \o images)
        BY <1>4, <2>3, <3>1, <3>2
      <3> QED
        BY <3>1, <3>2, <3>3
    <2> QED
      BY <1>1, <2>1, <2>2, <2>3, <2>4, BatchEnds
  <1> QED
    BY <1>5, <1>6

LEMMA ReadingFails ==
  ASSUME ImagesInv, NEW b \in Batches, Composer!ReadFails(b)
  PROVE  ImagesInv'
  <1>1. left[b] \in Seq(Images) /\ read[b] \in Seq(Images) /\ queued \in Seq(Images) /\ Once(queued)
    BY DEF ImagesInv, ComposerTypes, EachOnce
  <1>2. /\ left' = [left EXCEPT ![b] = <<>>] /\ read' = [read EXCEPT ![b] = <<>>]
        /\ reader' = [reader EXCEPT ![b] = 0] /\ given' = given
        /\ message' = message /\ mounts' = mounts /\ sent' = sent
        /\ attachments' = attachments /\ queued' = queued /\ discarded' = discarded
        /\ lost' = lost \cup Held(b)
    BY <1>1, ElementsOf DEF Composer!ReadFails, Held
  <1> QED
    BY <1>1, <1>2, BatchEnds

LEMMA AttachmentsRendered ==
  ASSUME ImagesInv, Composer!Render
  PROVE  ImagesInv'
  <1>1. /\ attachments' = attachments \o queued /\ queued' = <<>>
        /\ left' = left /\ read' = read /\ reader' = reader /\ given' = given
        /\ message' = message /\ mounts' = mounts /\ sent' = sent
        /\ discarded' = discarded /\ lost' = lost
    BY DEF Composer!Render
  <1>2. /\ attachments' \in Seq(Images) /\ Once(attachments')
        /\ Range(attachments') = Range(attachments) \cup Range(queued)
    <2>1. /\ attachments \in Seq(Images) /\ queued \in Seq(Images) /\ Once(attachments) /\ Once(queued)
          /\ Disjoint(Range(attachments), Range(queued))
      BY DEF ImagesInv, ComposerTypes, EachOnce, Apart
    <2>2. /\ attachments \o queued \in Seq(Images) /\ Once(attachments \o queued)
          /\ Range(attachments \o queued) = Range(attachments) \cup Range(queued)
      BY <2>1, ElementsOfConcat
    <2> QED
      BY <1>1, <2>2
  <1>3. ComposerTypes' /\ AtWork' /\ EachOnce'
    BY <1>1, <1>2, Empty DEF ImagesInv, ComposerTypes, AtWork, EachOnce
  <1>4. /\ \A b : Held(b)' = Held(b)
        /\ \A n : SentIn(n)' = SentIn(n)
        /\ Range(queued') = {} /\ InHand' = InHand /\ Gone' = Gone
    BY <1>1, <1>2, Empty DEF Held, SentIn, InHand, Gone
  <1>5. Apart' /\ AllThere'
    BY <1>1, <1>4 DEF ImagesInv, Apart, AllThere, Somewhere, Disjoint
  <1> QED
    BY <1>3, <1>5 DEF ImagesInv

LEMMA AttachmentRemoved ==
  ASSUME ImagesInv, NEW i \in 1..Len(attachments), Composer!RemoveAttachment(i)
  PROVE  ImagesInv'
  <1> DEFINE rest == Composer!RemoveAt(attachments, i)
  <1>1. attachments \in Seq(Images) /\ Once(attachments) /\ attachments[i] \in Range(attachments)
    BY ElementsOf DEF ImagesInv, ComposerTypes, EachOnce
  <1>2. rest \in Seq(Images) /\ Once(rest) /\ Range(rest) = Range(attachments) \ {attachments[i]}
    BY <1>1, ElementsOfRemoveAt
  <1> HIDE DEF rest
  <1>3. /\ attachments' = rest /\ discarded' = discarded \cup {attachments[i]}
        /\ left' = left /\ read' = read /\ reader' = reader /\ given' = given
        /\ message' = message /\ mounts' = mounts /\ sent' = sent
        /\ queued' = queued /\ lost' = lost
    BY DEF Composer!RemoveAttachment, rest
  <1>4. ComposerTypes' /\ AtWork' /\ EachOnce'
    BY <1>2, <1>3 DEF ImagesInv, ComposerTypes, AtWork, EachOnce
  <1>5. (\A b : Held(b)' = Held(b)) /\ \A n : SentIn(n)' = SentIn(n)
    BY <1>3 DEF Held, SentIn
  <1>6. Range(attachments') = Range(attachments) \ {attachments[i]}
    BY <1>2, <1>3
  <1>6a. InHand' = InHand \ {attachments[i]} /\ Gone' = Gone \cup {attachments[i]}
    BY <1>1, <1>3, <1>6 DEF ImagesInv, Apart, InHand, Gone, Disjoint
  <1>7. Apart'
    <2>1. Disjoint(Range(attachments'), Range(queued')) /\ Disjoint(discarded', lost')
      BY <1>1, <1>3, <1>6 DEF ImagesInv, Apart, InHand, Gone, Disjoint
    <2>2. attachments[i] \in InHand
      BY <1>1 DEF InHand
    <2> QED
      BY <1>3, <1>5, <1>6a, <2>1, <2>2 DEF ImagesInv, Apart, Disjoint
  <1>8. AllThere'
    <2>1. attachments[i] \in InHand
      BY <1>1 DEF InHand
    <2> QED
      BY <1>3, <1>5, <1>6a, <2>1 DEF ImagesInv, AllThere, Somewhere
  <1> QED
    BY <1>4, <1>7, <1>8 DEF ImagesInv

LEMMA MessageSent ==
  ASSUME ImagesInv, Composer!Submit
  PROVE  ImagesInv'
  <1> DEFINE m == [text |-> message, images |-> attachments]
  <1> PICK k \in Nat : k = Len(sent) + 1
    BY DEF ImagesInv, ComposerTypes
  <1>1. /\ sent' = Append(sent, m) /\ message' = <<>> /\ attachments' = <<>> /\ queued' = <<>>
        /\ left' = left /\ read' = read /\ reader' = reader /\ mounts' = mounts
        /\ given' = given /\ discarded' = discarded /\ lost' = lost \cup Range(queued)
    <2>1. queued \in Seq(Images)
      BY DEF ImagesInv, ComposerTypes
    <2> QED
      BY <2>1, ElementsOf DEF Composer!Submit
  <1>2. m \in Sending /\ m.images = attachments /\ sent \in Seq(Sending)
    BY DEF ImagesInv, ComposerTypes, Sending
  <1> HIDE DEF m
  <1>3. /\ sent' \in Seq(Sending) /\ Len(sent') = k /\ Len(sent) \in Nat
        /\ sent'[k] = m /\ \A n \in 1..Len(sent) : sent'[n] = sent[n]
    BY <1>1, <1>2, AppendProperties
  <1>4. \A n \in 1..k : n = k \/ n \in 1..Len(sent)
    BY <1>3
  <1>4a. k \in 1..k /\ k \notin 1..Len(sent) /\ 1..Len(sent) \subseteq 1..k
    BY <1>3
  <1>5. ComposerTypes' /\ AtWork'
    BY <1>1, <1>3, Empty DEF ImagesInv, ComposerTypes, AtWork
  <1>6. EachOnce'
    BY <1>1, <1>2, <1>3, <1>4, Empty DEF ImagesInv, EachOnce
  <1>7. /\ \A b : Held(b)' = Held(b)
        /\ SentIn(k)' = Range(attachments) /\ \A n \in 1..Len(sent) : SentIn(n)' = SentIn(n)
        /\ InHand' = {} /\ Gone' = Gone \cup Range(queued)
    <2>1. \A b : Held(b)' = Held(b)
      BY <1>1 DEF Held
    <2>2. SentIn(k)' = Range(attachments)
      BY <1>2, <1>3 DEF SentIn
    <2>3. \A n \in 1..Len(sent) : SentIn(n)' = SentIn(n)
      BY <1>3 DEF SentIn
    <2>4. InHand' = {} /\ Gone' = Gone \cup Range(queued)
      BY <1>1, Empty DEF InHand, Gone
    <2> QED
      BY <2>1, <2>2, <2>3, <2>4
  <1>7a. Range(attachments) \subseteq InHand /\ Range(queued) \subseteq InHand
    BY DEF InHand
  <1>8. Apart'
    <2>1. \A i, j \in 1..k : i # j => Disjoint(SentIn(i)', SentIn(j)')
      BY <1>4, <1>7, <1>7a DEF ImagesInv, Apart, Disjoint
    <2>2. \A b \in Batches : \A n \in 1..k : Disjoint(Held(b)', SentIn(n)')
      BY <1>4, <1>7, <1>7a DEF ImagesInv, Apart, Disjoint
    <2>3. \A n \in 1..k : Disjoint(SentIn(n)', InHand') /\ Disjoint(SentIn(n)', Gone')
      BY <1>4, <1>7, <1>7a DEF ImagesInv, Apart, Disjoint
    <2>4. /\ \A b, c \in Batches : b # c => Disjoint(Held(b)', Held(c)')
          /\ \A b \in Batches : Disjoint(Held(b)', InHand') /\ Disjoint(Held(b)', Gone')
          /\ Disjoint(InHand', Gone')
      BY <1>7, <1>7a DEF ImagesInv, Apart, Disjoint
    <2>5. Disjoint(Range(attachments'), Range(queued')) /\ Disjoint(discarded', lost')
      BY <1>1, Empty DEF ImagesInv, Apart, InHand, Gone, Disjoint
    <2> QED
      BY <1>3, <2>1, <2>2, <2>3, <2>4, <2>5 DEF Apart
  <1>9. AllThere'
    <2>1. InHand = Range(attachments) \cup Range(queued)
      BY DEF InHand
    <2>2. \A f : Somewhere(f)' <=> Somewhere(f)
      BY <1>3, <1>4, <1>4a, <1>7, <2>1 DEF Somewhere
    <2> QED
      BY <1>1, <2>2 DEF ImagesInv, AllThere
  <1> QED
    BY <1>5, <1>6, <1>8, <1>9 DEF ImagesInv

LEMMA InputGoes ==
  ASSUME ImagesInv, Composer!Leave
  PROVE  ImagesInv'
  <1>1. attachments \in Seq(Images) /\ queued \in Seq(Images)
    BY DEF ImagesInv, ComposerTypes
  <1>2. /\ attachments' = <<>> /\ queued' = <<>> /\ message' = <<>>
        /\ discarded' = discarded \cup InHand /\ lost' = lost
        /\ left' = left /\ read' = read /\ reader' = reader /\ given' = given
        /\ mounts' = mounts /\ sent' = sent
    BY <1>1, ElementsOf DEF Composer!Leave, InHand
  <1>3. ComposerTypes' /\ AtWork' /\ EachOnce'
    BY <1>2, Empty DEF ImagesInv, ComposerTypes, AtWork, EachOnce
  <1>4. /\ \A b : Held(b)' = Held(b)
        /\ \A n : SentIn(n)' = SentIn(n)
        /\ Range(attachments') = {} /\ Range(queued') = {} /\ InHand' = {} /\ Gone' = Gone \cup InHand
    BY <1>2, Empty DEF Held, SentIn, InHand, Gone
  <1>5. Disjoint(discarded', lost')
    BY <1>2 DEF ImagesInv, Apart, Gone, Disjoint
  <1>6. Apart' /\ AllThere'
    BY <1>2, <1>4, <1>5 DEF ImagesInv, Apart, AllThere, Somewhere, Disjoint
  <1> QED
    BY <1>3, <1>6 DEF ImagesInv

(* Typing, the end of a turn, another chat and the way back move no file.  *)
LEMMA NoFileMoves ==
  ASSUME ImagesInv, message' \in Typed \cup {<<>>}, mounts' \in Nat \ {0},
         UNCHANGED <<attachments, queued, left, read, reader, given, sent, discarded, lost>>
  PROVE  ImagesInv'
  <1>1. ComposerTypes' /\ AtWork' /\ EachOnce'
    BY DEF ImagesInv, ComposerTypes, AtWork, EachOnce
  <1>2. (\A b : Held(b)' = Held(b)) /\ \A n : SentIn(n)' = SentIn(n)
    BY DEF Held, SentIn
  <1>3. Apart' /\ AllThere'
    BY <1>2 DEF ImagesInv, Apart, AllThere, Somewhere, InHand, Gone
  <1> QED
    BY <1>1, <1>3 DEF ImagesInv

LEMMA ComposerStep ==
  ASSUME ImagesInv, Composer!Next
  PROVE  ImagesInv'
  <1>1. CASE \E text \in Typed : Composer!Type(text)
    BY <1>1, NoFileMoves DEF Composer!Type, ImagesInv, ComposerTypes
  <1>2. CASE \E b \in Batches : \E images \in Composer!ImageLists, others \in SUBSET Others :
               Composer!HandleFiles(b, images, others)
    BY <1>2, FilesGiven
  <1>3. CASE \E b \in Batches : Composer!ReadImage(b) \/ Composer!ReadFails(b)
    BY <1>3, ImageIsRead, ReadingFails
  <1>4. CASE \E i \in 1..Len(attachments) : Composer!RemoveAttachment(i)
    BY <1>4, AttachmentRemoved
  <1>5. CASE Composer!Submit
    BY <1>5, MessageSent
  <1>6. CASE Composer!TurnEnds \/ Composer!Toggle
    BY <1>6, NoFileMoves DEF Composer!TurnEnds, Composer!Toggle, ImagesInv, ComposerTypes
  <1>7. CASE Composer!Leave
    BY <1>7, InputGoes
  <1>8. CASE Composer!Back
    BY <1>8, NoFileMoves DEF Composer!Back, ImagesInv, ComposerTypes
  <1>9. CASE Composer!Render
    BY <1>9, AttachmentsRendered
  <1> QED
    BY <1>1, <1>2, <1>3, <1>4, <1>5, <1>6, <1>7, <1>8, <1>9 DEF Composer!Next

(* In one place and in no other.                                           *)
LEMMA OnePlace ==
  ASSUME ImagesInv, NEW f \in given
  PROVE  Composer!Cardinality(Composer!PlacesOf(f)) = 1
  <1> DEFINE P == Composer!PlacesOf(f)
  <1>1. \A b : Composer!Reading(b) = Held(b)
    BY DEF Composer!Reading, Composer!Range, Held, Range
  <1>2. /\ attachments \in Seq(Images) /\ DOMAIN attachments = 1..Len(attachments)
        /\ queued \in Seq(Images) /\ DOMAIN queued = 1..Len(queued)
        /\ sent \in Seq(Sending) /\ DOMAIN sent = 1..Len(sent)
    BY DEF ImagesInv, ComposerTypes
  <1>2a. ASSUME NEW n \in 1..Len(sent)
         PROVE  sent[n].images \in Seq(Images) /\ DOMAIN sent[n].images = 1..Len(sent[n].images)
    <2>1. sent[n] \in Sending
      BY <1>2
    <2> QED
      BY <2>1 DEF Sending
  <1>3. \A p : p \in P <=>
          \/ \E b \in Batches : f \in Held(b) /\ p = <<"read", b>>
          \/ \E i \in 1..Len(queued) : queued[i] = f /\ p = <<"queued", i>>
          \/ \E i \in 1..Len(attachments) : attachments[i] = f /\ p = <<"attached", i>>
          \/ \E n \in 1..Len(sent) : \E i \in 1..Len(sent[n].images) :
                sent[n].images[i] = f /\ p = <<"sent", n, i>>
          \/ f \in discarded /\ p = <<"discarded">>
          \/ f \in lost /\ p = <<"lost">>
    BY <1>1, <1>2, <1>2a DEF Composer!PlacesOf
  <1>4. /\ \A i \in 1..Len(attachments) : attachments[i] \in Range(attachments)
        /\ \A i \in 1..Len(queued) : queued[i] \in Range(queued)
        /\ \A n \in 1..Len(sent) : \A i \in 1..Len(sent[n].images) : sent[n].images[i] \in SentIn(n)
    BY <1>2, <1>2a, ElementsOf DEF SentIn
  <1> HIDE DEF P
  <1>5. \E p : P = {p}
    <2>1. CASE \E b \in Batches : f \in Held(b)
      <3>1. PICK b \in Batches : f \in Held(b)
        BY <2>1
      <3>2. /\ \A c \in Batches : f \in Held(c) => c = b
            /\ f \notin Range(attachments) \cup Range(queued) \cup discarded \cup lost
            /\ \A n \in 1..Len(sent) : f \notin SentIn(n)
        BY <3>1 DEF ImagesInv, Apart, InHand, Gone, Disjoint
      <3>3. P = {<<"read", b>>}
        BY <1>3, <1>4, <3>1, <3>2
      <3> QED
        BY <3>3
    <2>2. CASE \E n \in 1..Len(sent) : f \in SentIn(n)
      <3>1. PICK n \in 1..Len(sent) : f \in SentIn(n)
        BY <2>2
      <3>2. PICK i \in 1..Len(sent[n].images) : f = sent[n].images[i]
        <4>1. f \in Range(sent[n].images) /\ sent[n].images \in Seq(Images)
          BY <1>2a, <3>1 DEF SentIn
        <4>2. \A q \in Seq(Images) : \A x \in Range(q) : \E i \in 1..Len(q) : x = q[i]
          BY ElementsOf
        <4> QED
          BY <4>1, <4>2
      <3>3. /\ \A m \in 1..Len(sent) : f \in SentIn(m) => m = n
            /\ f \notin Range(attachments) \cup Range(queued) \cup discarded \cup lost
            /\ \A b \in Batches : f \notin Held(b)
        BY <3>1 DEF ImagesInv, Apart, InHand, Gone, Disjoint
      <3>4. \A j \in 1..Len(sent[n].images) : f = sent[n].images[j] => j = i
        BY <3>2 DEF ImagesInv, EachOnce, Once
      <3>5. P = {<<"sent", n, i>>}
        BY <1>3, <1>4, <3>1, <3>2, <3>3, <3>4
      <3> QED
        BY <3>5
    <2>3. CASE f \in Range(attachments)
      <3>1. PICK i \in 1..Len(attachments) : f = attachments[i]
        BY <1>2, <2>3, ElementsOf
      <3>2. /\ \A n \in 1..Len(sent) : f \notin SentIn(n)
            /\ f \notin Range(queued) \cup discarded \cup lost /\ \A b \in Batches : f \notin Held(b)
        BY <2>3 DEF ImagesInv, Apart, InHand, Gone, Disjoint
      <3>3. \A j \in 1..Len(attachments) : f = attachments[j] => j = i
        BY <3>1 DEF ImagesInv, EachOnce, Once
      <3>4. P = {<<"attached", i>>}
        BY <1>3, <1>4, <3>1, <3>2, <3>3
      <3> QED
        BY <3>4
    <2>4. CASE f \in Range(queued)
      <3>1. PICK i \in 1..Len(queued) : f = queued[i]
        BY <1>2, <2>4, ElementsOf
      <3>2. /\ \A n \in 1..Len(sent) : f \notin SentIn(n)
            /\ f \notin Range(attachments) \cup discarded \cup lost /\ \A b \in Batches : f \notin Held(b)
        BY <2>4 DEF ImagesInv, Apart, InHand, Gone, Disjoint
      <3>3. \A j \in 1..Len(queued) : f = queued[j] => j = i
        BY <3>1 DEF ImagesInv, EachOnce, Once
      <3>4. P = {<<"queued", i>>}
        BY <1>3, <1>4, <3>1, <3>2, <3>3
      <3> QED
        BY <3>4
    <2>5. CASE f \in Gone
      <3>1. /\ \A n \in 1..Len(sent) : f \notin SentIn(n)
            /\ f \notin Range(attachments) \cup Range(queued) /\ \A b \in Batches : f \notin Held(b)
        BY <2>5 DEF ImagesInv, Apart, InHand, Disjoint
      <3>2. CASE f \in discarded
        <4>1. f \notin lost
          BY <3>2 DEF ImagesInv, Apart, Disjoint
        <4>2. P = {<<"discarded">>}
          BY <1>3, <1>4, <3>1, <3>2, <4>1
        <4> QED
          BY <4>2
      <3>3. CASE f \in lost
        <4>1. f \notin discarded
          BY <3>3 DEF ImagesInv, Apart, Disjoint
        <4>2. P = {<<"lost">>}
          BY <1>3, <1>4, <3>1, <3>3, <4>1
        <4> QED
          BY <4>2
      <3> QED
        BY <2>5, <3>2, <3>3 DEF Gone
    <2> QED
      BY <2>1, <2>2, <2>3, <2>4, <2>5 DEF ImagesInv, AllThere, Somewhere, InHand
  <1>6. Composer!Cardinality(P) = Cardinality(P)
    BY DEF Composer!Cardinality, Cardinality
  <1> QED
    BY <1>5, <1>6, FS_Singleton DEF P

LEMMA ImagesInductive == Composer!Spec => []ImagesInv
  <1>1. Composer!Init => ImagesInv
    BY FilesInit
  <1>2. ImagesInv /\ [Composer!Next]_(Composer!vars) => ImagesInv'
    <2>1. ASSUME ImagesInv, UNCHANGED Composer!vars PROVE ImagesInv'
      BY <2>1, NoFileMoves DEF Composer!vars, ImagesInv, ComposerTypes
    <2> QED
      BY <2>1, ComposerStep
  <1> QED
    BY <1>1, <1>2, PTL DEF Composer!Spec

(* An image the user gives the page is in one place and sent at most once, *)
(* however many batches are read side by side, whatever is sent or removed *)
(* while they are, and whenever the user leaves the chat (handleFiles,     *)
(* handleSubmit, handleRemoveAttachment).                                  *)
THEOREM ImagesAreGivenOnce == Composer!Spec => []ImagesGoOnce
  <1>1. ImagesInv => ImagesGoOnce
    BY OnePlace DEF ImagesGoOnce, Composer!ImagesGoOnce
  <1> QED
    BY <1>1, ImagesInductive, PTL

-------------------------------------------------------------------------------
(* Prompts: filtering, by induction over sequences.                        *)

(* A set of numbers that has 0 and the next one of each. *)
LEMMA UpTo ==
  ASSUME NEW n \in Nat, NEW P, 0 \in P, \A k \in P : k \in 0..n /\ k < n => k + 1 \in P
  PROVE  \A k \in 0..n : k \in P
  <1> DEFINE R == OpToRel(<, Nat)
             T == (0..n) \ P
  <1> SUFFICES ASSUME T # {} PROVE FALSE
    OBVIOUS
  <1>1. IsWellFoundedOn(R, Nat)
    BY NatLessThanWellFounded
  <1>2. T \subseteq Nat /\ T # {}
    OBVIOUS
  <1>3. PICK x \in T : \A y \in T : ~(<<y, x>> \in R)
    <2> HIDE DEF R, T
    <2> QED
      BY <1>1, <1>2, WFMin
  <1>4. \A y \in T : ~(y < x)
    <2>1. \A y \in T : <<y, x>> \in Nat \X Nat
      BY <1>2
    <2> HIDE DEF T
    <2> QED
      BY <1>3, <2>1 DEF OpToRel
  <1>5. x # 0 /\ x - 1 \in 0..n /\ x - 1 < x
    OBVIOUS
  <1>6. x - 1 \in P
    BY <1>4, <1>5
  <1>7. (x - 1) + 1 = x /\ x - 1 < n
    BY <1>5
  <1> QED
    BY <1>5, <1>6, <1>7

(* The elements of s up to each place that are in S. *)
KeptBy(f, s, S) ==
  f = [i \in 0..Len(s) |->
         IF i = 0 THEN <<>> ELSE IF s[i] \in S THEN Append(f[i - 1], s[i]) ELSE f[i - 1]]

LEMMA KeepIs ==
  ASSUME NEW s, NEW S
  PROVE  Composer!Keep(s, S) = (CHOOSE f : KeptBy(f, s, S))[Len(s)]
  BY DEF Composer!Keep, KeptBy

LEMMA KeptByIs ==
  ASSUME NEW A, NEW s \in Seq(A), NEW S, NEW f
  PROVE  KeptBy(f, s, S) <=>
           /\ f = [i \in 0..Len(s) |-> f[i]]
           /\ f[0] = <<>>
           /\ \A i \in 1..Len(s) : f[i] = IF s[i] \in S THEN Append(f[i - 1], s[i]) ELSE f[i - 1]
  <1>1. Len(s) \in Nat
    OBVIOUS
  <1>2. ASSUME KeptBy(f, s, S)
        PROVE  /\ f = [i \in 0..Len(s) |-> f[i]]
               /\ f[0] = <<>>
               /\ \A i \in 1..Len(s) : f[i] = IF s[i] \in S THEN Append(f[i - 1], s[i]) ELSE f[i - 1]
    <2> DEFINE E(i) == IF i = 0 THEN <<>> ELSE IF s[i] \in S THEN Append(f[i - 1], s[i]) ELSE f[i - 1]
    <2>1. f = [i \in 0..Len(s) |-> E(i)]
      BY <1>2 DEF KeptBy
    <2>2. 0 \in 0..Len(s) /\ E(0) = <<>> /\ \A i \in 1..Len(s) : i # 0 /\ i \in 0..Len(s)
      BY <1>1
    <2>3. \A i \in 1..Len(s) : E(i) = IF s[i] \in S THEN Append(f[i - 1], s[i]) ELSE f[i - 1]
      BY <2>2
    <2> HIDE DEF E
    <2>4. \A i \in 0..Len(s) : f[i] = E(i)
      BY <2>1
    <2>5. f = [i \in 0..Len(s) |-> f[i]]
      BY <2>1
    <2> QED
      BY <2>2, <2>3, <2>4, <2>5
  <1>3. ASSUME f = [i \in 0..Len(s) |-> f[i]], f[0] = <<>>,
               \A i \in 1..Len(s) : f[i] = IF s[i] \in S THEN Append(f[i - 1], s[i]) ELSE f[i - 1]
        PROVE  KeptBy(f, s, S)
    <2>1. \A i \in 0..Len(s) : i # 0 => i \in 1..Len(s)
      BY <1>1
    <2>2. \A i \in 0..Len(s) :
            f[i] = IF i = 0 THEN <<>> ELSE IF s[i] \in S THEN Append(f[i - 1], s[i]) ELSE f[i - 1]
      BY <1>3, <2>1
    <2> QED
      BY <1>3, <2>2 DEF KeptBy
  <1> QED
    BY <1>2, <1>3

LEMMA KeptExists ==
  ASSUME NEW A, NEW s \in Seq(A), NEW S
  PROVE  \E f : KeptBy(f, s, S)
  <1> DEFINE n == Len(s)
             Good(f, k) ==
               /\ f = [i \in 0..k |-> f[i]] /\ f[0] = <<>>
               /\ \A i \in 1..k : f[i] = IF s[i] \in S THEN Append(f[i - 1], s[i]) ELSE f[i - 1]
             P == {k \in 0..n : \E f : Good(f, k)}
  <1>1. n \in Nat
    OBVIOUS
  <1>2. 0 \in P
    <2> DEFINE f == [i \in 0..0 |-> <<>>]
    <2>1. f = [i \in 0..0 |-> f[i]] /\ f[0] = <<>>
      OBVIOUS
    <2>2. \A i \in 1..0 : FALSE
      OBVIOUS
    <2> HIDE DEF f
    <2>3. Good(f, 0)
      BY <2>1, <2>2
    <2> QED
      BY <1>1, <2>3
  <1>3. ASSUME NEW k \in P, k \in 0..n, k < n PROVE k + 1 \in P
    <2>1. PICK f : Good(f, k)
      BY <1>3
    <2> DEFINE next == IF s[k + 1] \in S THEN Append(f[k], s[k + 1]) ELSE f[k]
               g == [i \in 0..k + 1 |-> IF i = k + 1 THEN next ELSE f[i]]
    <2>2. g[0] = <<>> /\ \A i \in 0..k : g[i] = f[i]
      BY <1>1, <1>3, <2>1
    <2>3. g[k + 1] = next
      BY <1>1, <1>3
    <2>4. g = [i \in 0..k + 1 |-> g[i]]
      OBVIOUS
    <2> HIDE DEF g
    <2>5. \A i \in 1..k + 1 : g[i] = IF s[i] \in S THEN Append(g[i - 1], s[i]) ELSE g[i - 1]
      <3> SUFFICES ASSUME NEW i \in 1..k + 1
                   PROVE  g[i] = IF s[i] \in S THEN Append(g[i - 1], s[i]) ELSE g[i - 1]
        OBVIOUS
      <3>1. CASE i = k + 1
        <4>1. g[i - 1] = f[k]
          BY <1>1, <1>3, <2>2, <3>1
        <4> QED
          BY <2>3, <3>1, <4>1
      <3>2. CASE i # k + 1
        <4>1. i \in 1..k /\ i - 1 \in 0..k /\ i \in 0..k
          BY <1>1, <1>3, <3>2
        <4> QED
          BY <2>1, <2>2, <4>1
      <3> QED
        BY <3>1, <3>2
    <2>6. Good(g, k + 1)
      BY <2>2, <2>4, <2>5
    <2>7. k + 1 \in 0..n
      BY <1>1, <1>3
    <2> HIDE DEF Good
    <2> QED
      BY <2>6, <2>7
  <1>4. n \in P
    <2> HIDE DEF P
    <2> QED
      BY <1>1, <1>2, <1>3, UpTo
  <1>5. PICK f : Good(f, n)
    BY <1>4
  <1> QED
    BY <1>5, KeptByIs

LEMMA KeptUnique ==
  ASSUME NEW A, NEW B, NEW s \in Seq(A), NEW t \in Seq(B), NEW S, NEW f, NEW g,
         KeptBy(f, s, S), KeptBy(g, t, S), Len(s) <= Len(t), \A i \in 1..Len(s) : s[i] = t[i]
  PROVE  \A i \in 0..Len(s) : f[i] = g[i]
  <1> DEFINE P == {k \in 0..Len(s) : f[k] = g[k]}
  <1>1. 0 \in P
    <2>1. f[0] = <<>>
      BY KeptByIs
    <2>2. g[0] = <<>>
      BY KeptByIs
    <2> QED
      BY <2>1, <2>2
  <1>2. ASSUME NEW k \in P, k \in 0..Len(s), k < Len(s) PROVE k + 1 \in P
    <2>1. k + 1 \in 1..Len(s) /\ k + 1 \in 1..Len(t) /\ (k + 1) - 1 = k /\ k + 1 \in 0..Len(s)
      BY <1>2
    <2>2. /\ f[k + 1] = IF s[k + 1] \in S THEN Append(f[k], s[k + 1]) ELSE f[k]
          /\ g[k + 1] = IF t[k + 1] \in S THEN Append(g[k], t[k + 1]) ELSE g[k]
      BY <2>1, KeptByIs
    <2> QED
      BY <1>2, <2>1, <2>2
  <1>3. Len(s) \in Nat
    OBVIOUS
  <1>4. \A k \in 0..Len(s) : k \in P
    <2> HIDE DEF P
    <2> QED
      BY <1>1, <1>2, <1>3, UpTo
  <1> QED
    BY <1>4

(* What Keep gives, by the last element.                                   *)
LEMMA KeepEmpty == ASSUME NEW S PROVE Composer!Keep(<<>>, S) = <<>>
  <1>1. <<>> \in Seq({}) /\ Len(<<>>) = 0
    OBVIOUS
  <1> DEFINE f == CHOOSE f : KeptBy(f, <<>>, S)
  <1>2. KeptBy(f, <<>>, S)
    BY <1>1, KeptExists
  <1> HIDE DEF f
  <1>3. f[0] = <<>>
    <2> DEFINE e == <<>>
    <2>1. e \in Seq({}) /\ KeptBy(f, e, S)
      BY <1>1, <1>2
    <2> HIDE DEF e
    <2> QED
      BY <2>1, KeptByIs
  <1> QED
    BY <1>1, <1>3, KeepIs DEF f

LEMMA KeepAppend ==
  ASSUME NEW A, NEW s \in Seq(A), NEW x \in A, NEW S
  PROVE  Composer!Keep(Append(s, x), S) = IF x \in S THEN Append(Composer!Keep(s, S), x) ELSE Composer!Keep(s, S)
  <1> DEFINE t == Append(s, x)
             f == CHOOSE f : KeptBy(f, s, S)
             g == CHOOSE g : KeptBy(g, t, S)
  <1>1. /\ t \in Seq(A) /\ Len(t) = Len(s) + 1 /\ Len(s) \in Nat
        /\ t[Len(t)] = x /\ \A i \in 1..Len(s) : s[i] = t[i]
    OBVIOUS
  <1> HIDE DEF t
  <1>2. KeptBy(f, s, S) /\ KeptBy(g, t, S)
    BY <1>1, KeptExists
  <1>3. Composer!Keep(s, S) = f[Len(s)] /\ Composer!Keep(t, S) = g[Len(t)]
    BY KeepIs
  <1> HIDE DEF f, g
  <1>4. f[Len(s)] = g[Len(s)]
    BY <1>1, <1>2, KeptUnique
  <1>5. g[Len(t)] = IF x \in S THEN Append(g[Len(s)], x) ELSE g[Len(s)]
    <2>1. Len(t) \in 1..Len(t) /\ Len(t) - 1 = Len(s)
      BY <1>1
    <2> QED
      BY <1>1, <1>2, <2>1, KeptByIs
  <1> QED
    BY <1>3, <1>4, <1>5 DEF t

(* A set that has <<>>, and with a sequence each that is longer by one.    *)
LEMMA BySequence ==
  ASSUME NEW A, NEW P, <<>> \in P, \A s \in Seq(A) : s \in P => \A x \in A : Append(s, x) \in P
  PROVE  \A s \in Seq(A) : s \in P
  <1> SUFFICES ASSUME NEW s \in Seq(A) PROVE s \in P
    OBVIOUS
  <1> DEFINE n == Len(s)
             front(k) == [i \in 1..k |-> s[i]]
             F == {k \in 0..n : front(k) \in P}
  <1>1. n \in Nat /\ front(n) = s
    OBVIOUS
  <1>2. 0 \in F
    <2>1. front(0) = <<>>
      OBVIOUS
    <2> QED
      BY <1>1, <2>1
  <1>3. ASSUME NEW k \in F, k \in 0..n, k < n PROVE k + 1 \in F
    <2>1. front(k) \in Seq(A) /\ Len(front(k)) = k /\ k + 1 \in 1..n /\ s[k + 1] \in A
      BY <1>1, <1>3
    <2>2. front(k + 1) = Append(front(k), s[k + 1])
      BY <1>1, <1>3, <2>1
    <2>3. front(k) \in P
      BY <1>3
    <2>4. Append(front(k), s[k + 1]) \in P
      <3> HIDE DEF front
      <3> QED
        BY <2>1, <2>3
    <2>5. front(k + 1) \in P
      <3> HIDE DEF front
      <3> QED
        BY <2>2, <2>4
    <2>6. k + 1 \in 0..n
      BY <1>1, <2>1
    <2> HIDE DEF front
    <2> QED
      BY <2>5, <2>6
  <1>4. n \in F
    <2> HIDE DEF F
    <2> QED
      BY <1>1, <1>2, <1>3, UpTo
  <1> QED
    BY <1>1, <1>4

LEMMA KeepType ==
  ASSUME NEW A, NEW s \in Seq(A), NEW S
  PROVE  Composer!Keep(s, S) \in Seq(A)
  <1> DEFINE P == {u \in Seq(A) : Composer!Keep(u, S) \in Seq(A)}
  <1>1. <<>> \in P
    <2>1. <<>> \in Seq(A) /\ Composer!Keep(<<>>, S) = <<>>
      BY KeepEmpty
    <2> QED
      BY <2>1
  <1>2. ASSUME NEW u \in Seq(A), u \in P, NEW x \in A PROVE Append(u, x) \in P
    <2>1. Append(u, x) \in Seq(A) /\ Composer!Keep(u, S) \in Seq(A) /\ Append(Composer!Keep(u, S), x) \in Seq(A)
      BY <1>2
    <2> QED
      BY <2>1, KeepAppend
  <1>3. s \in P
    <2> HIDE DEF P
    <2> QED
      BY <1>1, <1>2, BySequence
  <1> QED
    BY <1>3

(* Nothing is kept if and only if there is nothing to keep. *)
LEMMA KeepNothing ==
  ASSUME NEW A, NEW s \in Seq(A), NEW S
  PROVE  Composer!Keep(s, S) = <<>> <=> \A i \in 1..Len(s) : s[i] \notin S
  <1> DEFINE None(u) == \A i \in 1..Len(u) : u[i] \notin S
             P == {u \in Seq(A) : Composer!Keep(u, S) = <<>> <=> None(u)}
  <1>1. <<>> \in P
    <2>1. <<>> \in Seq(A) /\ None(<<>>) /\ Composer!Keep(<<>>, S) = <<>>
      BY KeepEmpty
    <2> QED
      BY <2>1
  <1>2. ASSUME NEW u \in Seq(A), u \in P, NEW x \in A PROVE Append(u, x) \in P
    <2> DEFINE v == Append(u, x)
    <2>1. /\ v \in Seq(A) /\ Len(u) \in Nat /\ Len(v) = Len(u) + 1
          /\ v[Len(v)] = x /\ \A i \in 1..Len(u) : v[i] = u[i]
      OBVIOUS
    <2> HIDE DEF v
    <2>2. None(v) <=> None(u) /\ x \notin S
      <3>1. \A i \in 1..Len(v) : i \in 1..Len(u) \/ i = Len(v)
        BY <2>1
      <3>2. Len(v) \in 1..Len(v) /\ 1..Len(u) \subseteq 1..Len(v)
        BY <2>1
      <3> QED
        BY <2>1, <3>1, <3>2
    <2>3. Composer!Keep(v, S) = IF x \in S THEN Append(Composer!Keep(u, S), x) ELSE Composer!Keep(u, S)
      BY KeepAppend DEF v
    <2>4. Append(Composer!Keep(u, S), x) # <<>>
      BY KeepType
    <2>5. Composer!Keep(u, S) = <<>> <=> None(u)
      BY <1>2
    <2>6. Composer!Keep(v, S) = <<>> <=> None(v)
      <3> HIDE DEF None
      <3> QED
        BY <2>2, <2>3, <2>4, <2>5
    <2> QED
      BY <2>1, <2>6 DEF v
  <1>3. s \in P
    <2> HIDE DEF P
    <2> QED
      BY <1>1, <1>2, BySequence
  <1> QED
    BY <1>3

LEMMA KeepConcat ==
  ASSUME NEW A, NEW s \in Seq(A), NEW t \in Seq(A), NEW S
  PROVE  Composer!Keep(s \o t, S) = Composer!Keep(s, S) \o Composer!Keep(t, S)
  <1> DEFINE P == {u \in Seq(A) : Composer!Keep(s \o u, S) = Composer!Keep(s, S) \o Composer!Keep(u, S)}
  <1>0. Composer!Keep(s, S) \in Seq(A) /\ \A u \in Seq(A) : Composer!Keep(u, S) \in Seq(A)
    BY KeepType
  <1>1. <<>> \in P
    <2>1. s \o <<>> = s /\ Composer!Keep(s, S) \o <<>> = Composer!Keep(s, S) /\ <<>> \in Seq(A)
      BY <1>0
    <2>2. Composer!Keep(<<>>, S) = <<>>
      BY KeepEmpty
    <2> QED
      BY <2>1, <2>2
  <1>2. ASSUME NEW u \in Seq(A), u \in P, NEW x \in A PROVE Append(u, x) \in P
    <2>1. s \o u \in Seq(A) /\ Append(u, x) \in Seq(A) /\ s \o Append(u, x) = Append(s \o u, x)
      OBVIOUS
    <2>2. Composer!Keep(s, S) \o Append(Composer!Keep(u, S), x) = Append(Composer!Keep(s, S) \o Composer!Keep(u, S), x)
      BY <1>0
    <2>3. Composer!Keep(s \o Append(u, x), S) = IF x \in S THEN Append(Composer!Keep(s \o u, S), x) ELSE Composer!Keep(s \o u, S)
      BY <2>1, KeepAppend
    <2>4. Composer!Keep(Append(u, x), S) = IF x \in S THEN Append(Composer!Keep(u, S), x) ELSE Composer!Keep(u, S)
      BY KeepAppend
    <2>5. Composer!Keep(s \o u, S) = Composer!Keep(s, S) \o Composer!Keep(u, S)
      BY <1>2
    <2> QED
      BY <2>1, <2>2, <2>3, <2>4, <2>5
  <1>3. t \in P
    <2> HIDE DEF P
    <2> QED
      BY <1>1, <1>2, BySequence
  <1> QED
    BY <1>3

LEMMA KeepKept ==
  ASSUME NEW A, NEW s \in Seq(A), NEW S, NEW T \in SUBSET S
  PROVE  Composer!Keep(Composer!Keep(s, S), T) = Composer!Keep(s, T)
  <1> DEFINE P == {u \in Seq(A) : Composer!Keep(Composer!Keep(u, S), T) = Composer!Keep(u, T)}
  <1>1. <<>> \in P
    <2>1. <<>> \in Seq(A) /\ Composer!Keep(<<>>, S) = <<>> /\ Composer!Keep(<<>>, T) = <<>>
      BY KeepEmpty
    <2> QED
      BY <2>1
  <1>2. ASSUME NEW u \in Seq(A), u \in P, NEW x \in A PROVE Append(u, x) \in P
    <2>1. Append(u, x) \in Seq(A) /\ Composer!Keep(u, S) \in Seq(A)
      BY KeepType
    <2>2. /\ Composer!Keep(Append(u, x), S) = IF x \in S THEN Append(Composer!Keep(u, S), x) ELSE Composer!Keep(u, S)
          /\ Composer!Keep(Append(u, x), T) = IF x \in T THEN Append(Composer!Keep(u, T), x) ELSE Composer!Keep(u, T)
      BY KeepAppend
    <2>3. Composer!Keep(Append(Composer!Keep(u, S), x), T)
            = IF x \in T THEN Append(Composer!Keep(Composer!Keep(u, S), T), x) ELSE Composer!Keep(Composer!Keep(u, S), T)
      BY <2>1, KeepAppend
    <2>4. Composer!Keep(Composer!Keep(u, S), T) = Composer!Keep(u, T)
      BY <1>2
    <2> QED
      BY <2>1, <2>2, <2>3, <2>4
  <1>3. s \in P
    <2> HIDE DEF P
    <2> QED
      BY <1>1, <1>2, BySequence
  <1> QED
    BY <1>3

(* The kinds of pieces, and what a message can be. *)
Pieces == Words \cup Links \cup Data \cup Composer!Marks \cup Composer!Files
Plain == Pieces \ Composer!Whole
ByData == Composer!Files \cup Data

(* One step of the search for images, and the whole of it.                 *)
Found(md, before, i) ==
  LET match == Composer!Match(md, i) IN
  IF i <= before.until THEN before
  ELSE IF match.end = 0 THEN [before EXCEPT !.text = Append(@, md[i])]
  ELSE [until |-> match.end, text |-> before.text,
        images |-> IF match.image # 0 /\ md[match.image] \in ByData
                   THEN Append(before.images, md[match.image]) ELSE before.images]

NothingYet == [until |-> 0, text |-> <<>>, images |-> <<>>]
ScannedBy(f, md) ==
  f = [i \in 0..Len(md) |-> IF i = 0 THEN NothingYet ELSE Found(md, f[i - 1], i)]

LEMMA ScanIs ==
  ASSUME NEW md
  PROVE  Composer!Scan(md) = (CHOOSE f : ScannedBy(f, md))[Len(md)]
  BY DEF Composer!Scan, ScannedBy, Found, NothingYet, ByData

LEMMA ScannedByIs ==
  ASSUME NEW A, NEW md \in Seq(A), NEW f
  PROVE  ScannedBy(f, md) <=>
           /\ f = [i \in 0..Len(md) |-> f[i]]
           /\ f[0] = NothingYet
           /\ \A i \in 1..Len(md) : f[i] = Found(md, f[i - 1], i)
  <1>1. Len(md) \in Nat
    OBVIOUS
  <1> DEFINE E(i) == IF i = 0 THEN NothingYet ELSE Found(md, f[i - 1], i)
  <1>2. 0 \in 0..Len(md) /\ \A i \in 1..Len(md) : i # 0 /\ i \in 0..Len(md)
    BY <1>1
  <1>3. \A i \in 0..Len(md) : i = 0 \/ i \in 1..Len(md)
    BY <1>1
  <1>4. E(0) = NothingYet /\ \A i \in 1..Len(md) : E(i) = Found(md, f[i - 1], i)
    BY <1>2
  <1>5. ScannedBy(f, md) <=> f = [i \in 0..Len(md) |-> E(i)]
    BY DEF ScannedBy
  <1> HIDE DEF E
  <1>6. f = [i \in 0..Len(md) |-> E(i)]
          <=> f = [i \in 0..Len(md) |-> f[i]] /\ \A i \in 0..Len(md) : f[i] = E(i)
    OBVIOUS
  <1>7. (\A i \in 0..Len(md) : f[i] = E(i))
          <=> f[0] = NothingYet /\ \A i \in 1..Len(md) : f[i] = Found(md, f[i - 1], i)
    BY <1>2, <1>3, <1>4
  <1> QED
    BY <1>5, <1>6, <1>7

LEMMA ScannedExists ==
  ASSUME NEW A, NEW md \in Seq(A)
  PROVE  \E f : ScannedBy(f, md)
  <1> DEFINE n == Len(md)
             Good(f, k) ==
               /\ f = [i \in 0..k |-> f[i]] /\ f[0] = NothingYet
               /\ \A i \in 1..k : f[i] = Found(md, f[i - 1], i)
             P == {k \in 0..n : \E f : Good(f, k)}
  <1>1. n \in Nat
    OBVIOUS
  <1>2. 0 \in P
    <2> DEFINE f == [i \in 0..0 |-> NothingYet]
    <2>1. f = [i \in 0..0 |-> f[i]] /\ f[0] = NothingYet
      OBVIOUS
    <2>2. \A i \in 1..0 : FALSE
      OBVIOUS
    <2> HIDE DEF f
    <2>3. Good(f, 0)
      BY <2>1, <2>2
    <2> QED
      BY <1>1, <2>3
  <1>3. ASSUME NEW k \in P, k \in 0..n, k < n PROVE k + 1 \in P
    <2>1. PICK f : Good(f, k)
      BY <1>3
    <2> DEFINE next == Found(md, f[k], k + 1)
               g == [i \in 0..k + 1 |-> IF i = k + 1 THEN next ELSE f[i]]
    <2>2. g[0] = NothingYet /\ \A i \in 0..k : g[i] = f[i]
      BY <1>1, <1>3, <2>1
    <2>3. g[k + 1] = next
      BY <1>1, <1>3
    <2>4. g = [i \in 0..k + 1 |-> g[i]]
      OBVIOUS
    <2> HIDE DEF g
    <2>5. ASSUME NEW i \in 1..k + 1 PROVE g[i] = Found(md, g[i - 1], i)
      <3>1. CASE i = k + 1
        <4>1. g[i - 1] = f[k]
          BY <1>1, <1>3, <2>2, <3>1
        <4> QED
          BY <2>3, <3>1, <4>1
      <3>2. CASE i # k + 1
        <4>1. i \in 1..k /\ i - 1 \in 0..k /\ i \in 0..k
          BY <1>1, <1>3, <3>2
        <4> QED
          BY <2>1, <2>2, <4>1
      <3> QED
        BY <3>1, <3>2
    <2>6. Good(g, k + 1)
      BY <2>2, <2>4, <2>5
    <2>7. k + 1 \in 0..n
      BY <1>1, <1>3
    <2> HIDE DEF Good
    <2> QED
      BY <2>6, <2>7
  <1>4. n \in P
    <2> HIDE DEF P
    <2> QED
      BY <1>1, <1>2, <1>3, UpTo
  <1>5. PICK f : Good(f, n)
    BY <1>4
  <1> QED
    BY <1>5, ScannedByIs

(* Where nothing opens an image but whole ones, these are the matches: the *)
(* search keeps the rest of the text, and the images by data.              *)
LEMMA WholeOnly ==
  ASSUME NEW md \in Seq(Pieces), NEW i \in 1..Len(md), md[i] # "!["
  PROVE  Composer!Match(md, i) = IF md[i] \in Composer!Whole THEN [end |-> i, image |-> i]
                                 ELSE [end |-> 0, image |-> 0]
  BY DEF Composer!Match, Composer!NoMatch

LEMMA OtherText ==
  ASSUME NEW U, NEW T, NEW I, NEW before \in [until : U, text : T, images : I], NEW text
  PROVE  [before EXCEPT !.text = text]
           = [until |-> before.until, text |-> text, images |-> before.images]
  OBVIOUS

LEMMA ScanKeeps ==
  ASSUME NEW md \in Seq(Pieces), \A i \in 1..Len(md) : md[i] # "!["
  PROVE  /\ Composer!Scan(md).text = Composer!Keep(md, Plain)
         /\ Composer!Scan(md).images = Composer!Keep(md, ByData)
  <1> DEFINE n == Len(md)
             f == CHOOSE f : ScannedBy(f, md)
             t == CHOOSE g : KeptBy(g, md, Plain)
             d == CHOOSE g : KeptBy(g, md, ByData)
             P == {k \in 0..n : \E u \in 0..k : f[k] = [until |-> u, text |-> t[k], images |-> d[k]]}
  <1>1. ScannedBy(f, md)
    BY ScannedExists
  <1>2. KeptBy(t, md, Plain)
    BY KeptExists
  <1>3. KeptBy(d, md, ByData)
    BY KeptExists
  <1>4. /\ Composer!Scan(md) = f[n]
        /\ Composer!Keep(md, Plain) = t[n] /\ Composer!Keep(md, ByData) = d[n]
    BY ScanIs, KeepIs
  <1> HIDE DEF f, t, d
  <1>5. n \in Nat
    OBVIOUS
  <1>6. 0 \in P
    <2>1. f[0] = NothingYet
      BY <1>1, ScannedByIs
    <2>2. t[0] = <<>>
      BY <1>2, KeptByIs
    <2>3. d[0] = <<>>
      BY <1>3, KeptByIs
    <2> QED
      BY <1>5, <2>1, <2>2, <2>3 DEF NothingYet
  <1>7. ASSUME NEW k \in P, k \in 0..n, k < n PROVE k + 1 \in P
    <2> DEFINE i == k + 1
    <2>1. i \in 1..n /\ i \in 0..n /\ i - 1 = k /\ md[i] \in Pieces /\ i # 0
      BY <1>5, <1>7
    <2>2. PICK u \in 0..k : f[k] = [until |-> u, text |-> t[k], images |-> d[k]]
      BY <1>7
    <2>3. f[i] = Found(md, f[k], i)
      BY <1>1, <2>1, ScannedByIs
    <2>4. t[i] = IF md[i] \in Plain THEN Append(t[k], md[i]) ELSE t[k]
      BY <1>2, <2>1, KeptByIs
    <2>5. d[i] = IF md[i] \in ByData THEN Append(d[k], md[i]) ELSE d[k]
      BY <1>3, <2>1, KeptByIs
    <2>6. ~(i <= f[k].until) /\ u \in 0..i /\ i \in 0..i
      BY <1>7, <2>1, <2>2
    <2> HIDE DEF i, P
    <2>7. \E v \in 0..i : f[i] = [until |-> v, text |-> t[i], images |-> d[i]]
      <3>1. CASE md[i] \in Composer!Whole
        <4>1. Composer!Match(md, i) = [end |-> i, image |-> i]
          BY <2>1, <3>1, WholeOnly
        <4>2. f[i] = [until |-> i, text |-> t[k],
                      images |-> IF md[i] \in ByData THEN Append(d[k], md[i]) ELSE d[k]]
          BY <2>1, <2>2, <2>3, <2>6, <4>1 DEF Found
        <4>3. md[i] \notin Plain
          BY <3>1 DEF Plain
        <4> QED
          BY <2>4, <2>5, <2>6, <4>2, <4>3
      <3>2. CASE md[i] \notin Composer!Whole
        <4>1. Composer!Match(md, i) = [end |-> 0, image |-> 0]
          BY <2>1, <3>2, WholeOnly
        <4>2. f[i] = [until |-> u, text |-> Append(t[k], md[i]), images |-> d[k]]
          <5>1. f[i] = [f[k] EXCEPT !.text = Append(@, md[i])]
            BY <2>1, <2>3, <2>6, <4>1 DEF Found
          <5>2. f[k].until = u /\ f[k].text = t[k] /\ f[k].images = d[k]
            BY <2>2
          <5>3. f[k] \in [until : {u}, text : {t[k]}, images : {d[k]}]
            BY <2>2
          <5>4. f[i] = [until |-> f[k].until, text |-> Append(f[k].text, md[i]), images |-> f[k].images]
            BY <5>1, <5>3, OtherText
          <5> QED
            BY <5>2, <5>4
        <4>3. md[i] \in Plain /\ md[i] \notin ByData
          BY <2>1, <3>2 DEF Plain, ByData, Composer!Whole
        <4> QED
          BY <2>4, <2>5, <2>6, <4>2, <4>3
      <3> QED
        BY <3>1, <3>2
    <2> QED
      BY <2>1, <2>7 DEF P, i
  <1>8. n \in P
    <2> HIDE DEF P
    <2> QED
      BY <1>5, <1>6, <1>7, UpTo
  <1>9. PICK u \in 0..n : f[n] = [until |-> u, text |-> t[n], images |-> d[n]]
    BY <1>8
  <1> QED
    BY <1>4, <1>9

LEMMA MessageIs ==
  ASSUME ComposerTypes, NEW n \in 1..Len(sent)
  PROVE  /\ sent[n].text \in Seq(Pieces) /\ sent[n].images \in Seq(Pieces)
         /\ \A i \in 1..Len(sent[n].text) : sent[n].text[i] \notin Composer!Files
         /\ \A i \in 1..Len(sent[n].images) : sent[n].images[i] \in Images
  <1>1. sent[n].text \in Typed \cup {<<>>} /\ sent[n].images \in Seq(Images)
    <2>1. sent[n] \in Sending
      BY DEF ComposerTypes
    <2> QED
      BY <2>1 DEF Sending
  <1>2. sent[n].text \in Seq(Words \cup Links \cup Data \cup Composer!Marks)
    <2> DEFINE typed == Seq(Words \cup Links \cup Data \cup Composer!Marks)
    <2>1. <<>> \in typed /\ Typed \subseteq typed
      BY PageAssumption
    <2> HIDE DEF typed
    <2>2. sent[n].text \in typed
      BY <1>1, <2>1
    <2> QED
      BY <2>2 DEF typed
  <1>3. \A S, T : S \subseteq T => Seq(S) \subseteq Seq(T)
    OBVIOUS
  <1>4. sent[n].text \in Seq(Pieces) /\ sent[n].images \in Seq(Pieces)
    BY <1>1, <1>2, <1>3 DEF Pieces, Composer!Files
  <1>5. ASSUME NEW i \in 1..Len(sent[n].text) PROVE sent[n].text[i] \notin Composer!Files
    <2>1. sent[n].text[i] \in Words \cup Links \cup Data \cup Composer!Marks
      BY <1>2
    <2> QED
      BY <2>1, PageAssumption DEF Composer!Files
  <1> QED
    BY <1>1, <1>4, <1>5

(* Words and marks are of the text, and images attached of the images.     *)
LEMMA DisplayKeeps ==
  ASSUME ComposerTypes, NEW n \in 1..Len(sent)
  PROVE  LET m == sent[n]
             md == Composer!DisplayText(m)
         IN  /\ md \in Seq(Pieces)
             /\ Composer!WordsOf(md) = Composer!WordsOf(m.text)
             /\ Composer!Attached(md) = Composer!Attached(m.images)
             /\ ~Composer!OpensImage(m.text) => \A i \in 1..Len(md) : md[i] # "!["
  <1> DEFINE text == sent[n].text
             images == sent[n].images
             md == text \o images
  <1>1. /\ text \in Seq(Pieces) /\ images \in Seq(Pieces)
        /\ \A i \in 1..Len(text) : text[i] \notin Composer!Files
        /\ \A i \in 1..Len(images) : images[i] \notin Words /\ images[i] \notin {"!["}
    BY MessageIs, PageAssumption DEF Composer!Marks
  <1> HIDE DEF text, images
  <1>2. Composer!Keep(images, Words) = <<>>
    BY <1>1, KeepNothing
  <1>3. Composer!Keep(text, Composer!Files) = <<>>
    BY <1>1, KeepNothing
  <1>4. /\ Composer!Keep(text, Words) \in Seq(Pieces) /\ md \in Seq(Pieces)
        /\ Composer!Keep(images, Composer!Files) \in Seq(Pieces)
    BY <1>1, KeepType
  <1>5. Composer!Keep(md, Words) = Composer!Keep(text, Words)
    <2>1. Composer!Keep(md, Words) = Composer!Keep(text, Words) \o Composer!Keep(images, Words)
      BY <1>1, KeepConcat
    <2> QED
      BY <1>2, <1>4, <2>1
  <1>6. Composer!Keep(md, Composer!Files) = Composer!Keep(images, Composer!Files)
    <2>1. Composer!Keep(md, Composer!Files)
            = Composer!Keep(text, Composer!Files) \o Composer!Keep(images, Composer!Files)
      BY <1>1, KeepConcat
    <2> QED
      BY <1>3, <1>4, <2>1
  <1>7. ASSUME ~Composer!OpensImage(text) PROVE \A i \in 1..Len(md) : md[i] # "!["
    <2> DEFINE S == {"!["}
    <2>1. Composer!Keep(md, S) = Composer!Keep(text, S) \o Composer!Keep(images, S)
      BY <1>1, KeepConcat
    <2>2. \A i \in 1..Len(text) : text[i] \notin S
      BY <1>7 DEF Composer!OpensImage
    <2>3. Composer!Keep(text, S) = <<>> /\ Composer!Keep(images, S) = <<>>
      BY <1>1, <2>2, KeepNothing
    <2>4. Composer!Keep(md, S) = <<>>
      BY <2>1, <2>3
    <2> HIDE DEF md
    <2>5. \A i \in 1..Len(md) : md[i] \notin S
      BY <1>4, <2>4, KeepNothing
    <2> QED
      BY <2>5
  <1> QED
    BY <1>4, <1>5, <1>6, <1>7 DEF text, images, Composer!DisplayText, Composer!WordsOf, Composer!Attached

LEMMA PromptsKeep ==
  ASSUME ComposerTypes, NEW n \in 1..Len(sent), ~Composer!OpensImage(sent[n].text)
  PROVE  \A p \in {Composer!HistoryPrompt(sent[n]), Composer!Regenerated(sent[n])} :
           /\ Composer!WordsOf(p.text) = Composer!WordsOf(sent[n].text)
           /\ Composer!Attached(p.images) = Composer!Attached(sent[n].images)
  <1> DEFINE md == Composer!DisplayText(sent[n])
             plain == Composer!Keep(md, Plain)
             byData == Composer!Keep(md, ByData)
             taken == [text |-> plain, images |-> byData]
             whole == [text |-> md, images |-> <<>>]
  <1>1. /\ md \in Seq(Pieces)
        /\ Composer!WordsOf(md) = Composer!WordsOf(sent[n].text)
        /\ Composer!Attached(md) = Composer!Attached(sent[n].images)
        /\ \A i \in 1..Len(md) : md[i] # "!["
    BY DisplayKeeps
  <1> HIDE DEF md
  <1>2. Composer!WordsOf(plain) = Composer!WordsOf(md) /\ Composer!Attached(byData) = Composer!Attached(md)
    <2>1. Words \subseteq Plain /\ Composer!Files \subseteq ByData
      BY PageAssumption DEF Plain, ByData, Pieces, Composer!Whole, Composer!Files
    <2> QED
      BY <1>1, <2>1, KeepKept DEF Composer!WordsOf, Composer!Attached
  <1>3. byData = <<>> => Composer!Attached(<<>>) = Composer!Attached(md)
    <2>1. byData = <<>> => Composer!Attached(<<>>) = Composer!Attached(byData)
      OBVIOUS
    <2> QED
      BY <1>2, <2>1
  <1>4. Composer!Scan(md).text = plain /\ Composer!Scan(md).images = byData
    BY <1>1, ScanKeeps
  <1> HIDE DEF plain, byData
  <1>5. /\ Composer!Regenerated(sent[n]) = taken
        /\ Composer!HistoryPrompt(sent[n]) = IF byData = <<>> THEN whole ELSE taken
    BY <1>4 DEF md, Composer!Regenerated, Composer!CurrentContent, Composer!HistoryPrompt,
                Composer!FromMarkdown
  <1>6. /\ Composer!WordsOf(taken.text) = Composer!WordsOf(sent[n].text)
        /\ Composer!Attached(taken.images) = Composer!Attached(sent[n].images)
    BY <1>1, <1>2
  <1>7. byData = <<>> =>
          /\ Composer!WordsOf(whole.text) = Composer!WordsOf(sent[n].text)
          /\ Composer!Attached(whole.images) = Composer!Attached(sent[n].images)
    BY <1>1, <1>3
  <1> HIDE DEF taken, whole
  <1> QED
    BY <1>5, <1>6, <1>7

(* Whatever is typed and attached, with any number of words, links, images *)
(* and stray brackets, unless the text opens an image: a later prompt and a*)
(* regenerated one have the words of the message and its images, in their  *)
(* order (toOpenAIContentFromMarkdown, handleRegenerateResponse).          *)
THEOREM PromptsHaveIt == Composer!Spec => []PromptsAgree
  <1>1. ImagesInv => PromptsAgree
    <2> SUFFICES ASSUME ImagesInv, NEW n \in DOMAIN sent, ~Composer!OpensImage(sent[n].text)
                 PROVE  \A p \in {Composer!HistoryPrompt(sent[n]), Composer!Regenerated(sent[n])} :
                          /\ Composer!WordsOf(p.text) = Composer!WordsOf(sent[n].text)
                          /\ Composer!Attached(p.images)
                               = Composer!Attached(Composer!FirstPrompt(sent[n]).images)
      BY DEF PromptsAgree, Composer!PromptsAgree
    <2>1. n \in 1..Len(sent) /\ ComposerTypes
      BY DEF ImagesInv, ComposerTypes
    <2>2. Composer!FirstPrompt(sent[n]).images = sent[n].images
      BY DEF Composer!FirstPrompt, Composer!CurrentContent
    <2> QED
      BY <2>1, <2>2, PromptsKeep
  <1> QED
    BY <1>1, ImagesInductive, PTL
-------------------------------------------------------------------------------
(* Notices and pictures.                                                   *)

(* The types the argument needs. *)
Types ==
  /\ error \in Notices \cup {Nil} /\ timers \in Seq(Notices)
  /\ visible \in BOOLEAN /\ dismissed \subseteq Notices
  /\ earlier \in [Notices -> SUBSET Notices]
  /\ picture \in Pictures \cup {Nil} /\ places \subseteq Places
  /\ pfp \in [Places -> Pictures \cup {Nil}]
  /\ effect \in [Places -> Pictures \cup {Nil}]
  /\ cache \subseteq Pictures

(* What is on the page is the last notice, and no time-out has come since  *)
(* it did; when nothing is, one of those before the last has.              *)
NoticeInv ==
  /\ Range(timers) \subseteq called /\ Once(timers)
  /\ error # Nil => /\ timers # <<>> /\ error = Last(timers)
                    /\ Range(timers) = earlier[error] \cup {error}
  /\ ~visible => error # Nil /\ Range(timers) \cap dismissed # {}
  /\ error = Nil /\ timers # <<>> => earlier[Last(timers)] \ Range(timers) # {}

EffectsAreCurrent == \A p \in places : effect[p] \in {Nil, picture}

IInv == Types /\ NoticeInv /\ EffectsAreCurrent /\ PicturesAreTheirs

USE ServicesAssumption

(* What a list of time-outs has when one is added, and when one goes.      *)
LEMMA TimersAppend ==
  ASSUME NEW s \in Seq(Notices), NEW n \in Notices
  PROVE  Append(s, n) # <<>> /\ Last(Append(s, n)) = n
  <1>1. Append(s, n) \in Seq(Notices) /\ Len(Append(s, n)) = Len(s) + 1 /\ Append(s, n)[Len(s) + 1] = n
    BY AppendProperties
  <1> QED
    BY <1>1 DEF Last

LEMMA TimersTail ==
  ASSUME NEW s \in Seq(Notices), Tail(s) # <<>>, s # <<>>
  PROVE  Last(Tail(s)) = Last(s) /\ Last(s) \in Range(Tail(s))
  <1>1. /\ Tail(s) \in Seq(Notices) /\ Len(Tail(s)) = Len(s) - 1 /\ Len(s) \in Nat /\ Len(s) > 0
        /\ \A i \in 1..Len(s) - 1 : Tail(s)[i] = s[i + 1]
    BY HeadTailProperties
  <1> DEFINE t == Tail(s)
  <1> HIDE DEF t
  <1>2. t \in Seq(Notices) /\ Len(t) = Len(s) - 1 /\ t # <<>> /\ \A i \in 1..Len(s) - 1 : t[i] = s[i + 1]
    BY <1>1 DEF t
  <1>3. Len(t) \in 1..Len(s) - 1 /\ Len(t) \in 1..Len(t) /\ Len(t) + 1 = Len(s)
    BY <1>1, <1>2
  <1>4. t[Len(t)] = s[Len(s)]
    BY <1>2, <1>3
  <1>5. t[Len(t)] \in Range(t)
    BY <1>2, <1>3, ElementsOf
  <1> QED
    BY <1>4, <1>5 DEF Last, t

(* What the page shows of notices follows.                                 *)
LEMMA ShownOrAccountedFor == Types /\ NoticeInv => NoticesSeen
  <1> SUFFICES ASSUME Types, NoticeInv PROVE NoticesSeen
    OBVIOUS
  <1>1. ASSUME NEW n \in Range(timers), n = Last(timers)
        PROVE  \/ error = n /\ (visible \/ dismissed \cap (earlier[n] \cup {n}) # {})
               \/ earlier[n] \ Range(timers) # {}
    <2>1. timers # <<>>
      BY Empty
    <2>2. CASE error = Nil
      BY <1>1, <2>1, <2>2 DEF NoticeInv
    <2>3. CASE error # Nil /\ visible
      BY <1>1, <2>3 DEF NoticeInv
    <2>4. CASE error # Nil /\ ~visible
      <3>1. error = n /\ Range(timers) = earlier[n] \cup {n} /\ Range(timers) \cap dismissed # {}
        BY <1>1, <2>4 DEF NoticeInv
      <3> QED
        BY <3>1
    <2> QED
      BY <2>2, <2>3, <2>4
  <1>2. error \in Range(timers) \cup {Nil}
    BY DEF NoticeInv
  <1> QED
    BY <1>1, <1>2 DEF NoticesSeen

LEMMA InitInv == Init => IInv
  BY Empty DEF Init, IInv, Types, NoticeInv, EffectsAreCurrent, PicturesAreTheirs

USE DEF vars, noticeVars, pictureVars

LEMMA NoticeComes ==
  ASSUME IInv, NEW n \in Notices, ShowError(n)
  PROVE  Types' /\ NoticeInv'
  <1>1. timers \in Seq(Notices) /\ n \notin called /\ Range(timers) \subseteq called /\ Once(timers)
    BY DEF IInv, Types, NoticeInv, ShowError
  <1>2. /\ error' = n /\ timers' = Append(timers, n) /\ called' = called \cup {n}
        /\ earlier' = [earlier EXCEPT ![n] = Range(timers)]
        /\ dismissed' = dismissed /\ UNCHANGED pictureVars
    BY DEF ShowError
  <1>2a. visible' = visible
    BY DEF ShowError
  <1>3. /\ timers' \in Seq(Notices) /\ Range(timers') = Range(timers) \cup {n} /\ Once(timers')
    BY <1>1, <1>2, ElementsOfAppend
  <1>4. timers' # <<>> /\ Last(timers') = n
    BY <1>1, <1>2, TimersAppend
  <1>5. earlier'[n] = Range(timers) /\ n # Nil /\ earlier' \in [Notices -> SUBSET Notices]
    <2>1. Range(timers) \subseteq Notices
      BY <1>1, ElementsOf
    <2> QED
      BY <1>2, <2>1 DEF IInv, Types
  <1>6. Types'
    BY <1>2, <1>2a, <1>3, <1>5 DEF IInv, Types
  <1>7. ~visible' => Range(timers') \cap dismissed' # {}
    BY <1>2, <1>2a, <1>3 DEF IInv, NoticeInv
  <1>8. NoticeInv'
    BY <1>1, <1>2, <1>3, <1>4, <1>5, <1>7 DEF NoticeInv
  <1> QED
    BY <1>6, <1>8

LEMMA NoticeGoes ==
  ASSUME IInv, TimeOut
  PROVE  Types' /\ NoticeInv'
  <1>1. timers \in Seq(Notices) /\ timers # <<>> /\ Once(timers)
    BY DEF IInv, Types, NoticeInv, TimeOut
  <1>2. /\ error' = Nil /\ timers' = Tail(timers) /\ called' = called
        /\ earlier' = earlier /\ dismissed' = dismissed /\ UNCHANGED pictureVars
    BY DEF TimeOut
  <1>2a. visible'
    BY DEF TimeOut
  <1>3. /\ timers' \in Seq(Notices) /\ Once(timers') /\ Range(timers) = Range(timers') \cup {Head(timers)}
        /\ Head(timers) \notin Range(timers')
    BY <1>1, <1>2, ElementsOfTail
  <1>4. Types'
    BY <1>2, <1>2a, <1>3 DEF IInv, Types
  <1>5. ASSUME timers' # <<>> PROVE earlier'[Last(timers')] \ Range(timers') # {}
    <2>1. Last(timers') = Last(timers) /\ Last(timers) \in Range(timers')
      BY <1>1, <1>2, <1>5, TimersTail
    <2>2. CASE error = Nil
      <3>1. earlier[Last(timers)] \ Range(timers) # {}
        BY <1>1, <2>2 DEF IInv, NoticeInv
      <3> QED
        BY <1>2, <1>3, <2>1, <3>1
    <2>3. CASE error # Nil
      <3>1. error = Last(timers) /\ Range(timers) = earlier[error] \cup {error}
        BY <2>3 DEF IInv, NoticeInv
      <3>2. Head(timers) \in earlier[error]
        BY <1>3, <2>1, <3>1
      <3> QED
        BY <1>2, <1>3, <2>1, <3>1, <3>2
    <2> QED
      BY <2>2, <2>3
  <1>6. Range(timers') \subseteq called'
    BY <1>2, <1>3 DEF IInv, NoticeInv
  <1>7. NoticeInv'
    BY <1>2, <1>2a, <1>3, <1>5, <1>6 DEF NoticeInv
  <1> QED
    BY <1>4, <1>7

LEMMA NoticeDismissed ==
  ASSUME IInv, Dismiss
  PROVE  Types' /\ NoticeInv'
  <1>1. /\ error # Nil /\ dismissed' = dismissed \cup {error}
        /\ error' = error /\ timers' = timers /\ called' = called /\ earlier' = earlier
        /\ UNCHANGED pictureVars
    BY DEF Dismiss
  <1>2. visible' = FALSE
    BY DEF Dismiss
  <1>3. error \in Range(timers) /\ error \in Notices
    BY <1>1 DEF IInv, Types, NoticeInv
  <1>4. Types'
    BY <1>1, <1>2, <1>3 DEF IInv, Types
  <1>5. NoticeInv'
    BY <1>1, <1>3 DEF IInv, NoticeInv
  <1> QED
    BY <1>4, <1>5

LEMMA NoticeStep ==
  ASSUME IInv, (\E n \in Notices : ShowError(n)) \/ TimeOut \/ Dismiss
  PROVE  IInv'
  <1>1. Types' /\ NoticeInv'
    BY NoticeComes, NoticeGoes, NoticeDismissed
  <1>2. UNCHANGED pictureVars
    BY DEF ShowError, TimeOut, Dismiss
  <1>3. EffectsAreCurrent' /\ PicturesAreTheirs'
    BY <1>2 DEF IInv, EffectsAreCurrent, PicturesAreTheirs
  <1> QED
    BY <1>1, <1>3 DEF IInv

(* The places whose effects run on a new address. *)
LEMMA EffectsOf ==
  ASSUME IInv, NEW ps \in SUBSET Places, NEW url \in Pictures \cup {Nil}, Effects(ps, url)
  PROVE  /\ pfp' \in [Places -> Pictures \cup {Nil}]
         /\ effect' \in [Places -> Pictures \cup {Nil}]
         /\ \A p \in ps : effect'[p] \in {Nil, url} /\ (effect'[p] = Nil => pfp'[p] = url)
         /\ \A p \in Places \ ps : effect'[p] = effect[p] /\ pfp'[p] = pfp[p]
  BY DEF Effects, IInv, Types

LEMMA PictureStep ==
  ASSUME IInv,
         \/ \E p \in Places : MountPlace(p) \/ UnmountPlace(p)
         \/ \E url \in Pictures \cup {Nil} : SetUser(url)
         \/ \E url \in Pictures : Loaded(url) \/ LoadFails(url)
  PROVE  IInv'
  <1> USE DEF IInv, Types, NoticeInv, EffectsAreCurrent, PicturesAreTheirs
  <1>1. UNCHANGED noticeVars
    BY DEF MountPlace, UnmountPlace, SetUser, Loaded, LoadFails
  <1>2. ASSUME NEW p \in Places, MountPlace(p) PROVE IInv'
    <2>1. /\ Effects({p}, picture) /\ places' = places \cup {p} /\ UNCHANGED <<picture, cache, failed>>
      BY <1>2 DEF MountPlace
    <2>2. /\ pfp' \in [Places -> Pictures \cup {Nil}] /\ effect' \in [Places -> Pictures \cup {Nil}]
          /\ effect'[p] \in {Nil, picture} /\ (effect'[p] = Nil => pfp'[p] = picture)
          /\ \A q \in places \ {p} : effect'[q] = effect[q] /\ pfp'[q] = pfp[q]
      BY <2>1 DEF Effects
    <2>3. EffectsAreCurrent' /\ PicturesAreTheirs'
      BY <2>1, <2>2
    <2> QED
      BY <1>1, <2>1, <2>2, <2>3
  <1>3. ASSUME NEW p \in Places, UnmountPlace(p) PROVE IInv'
    BY <1>1, <1>3 DEF UnmountPlace
  <1>4. ASSUME NEW url \in Pictures \cup {Nil}, SetUser(url) PROVE IInv'
    <2>1. /\ Effects(places, url) /\ picture' = url /\ UNCHANGED <<places, cache, failed>>
      BY <1>4 DEF SetUser
    <2>2. /\ pfp' \in [Places -> Pictures \cup {Nil}] /\ effect' \in [Places -> Pictures \cup {Nil}]
          /\ \A q \in places : effect'[q] \in {Nil, url} /\ (effect'[q] = Nil => pfp'[q] = url)
      BY <2>1, EffectsOf
    <2> QED
      BY <1>1, <2>1, <2>2
  <1>5. ASSUME NEW url \in Pictures, Loaded(url) PROVE IInv'
    BY <1>1, <1>5 DEF Loaded
  <1>6. ASSUME NEW url \in Pictures, LoadFails(url) PROVE IInv'
    BY <1>1, <1>6 DEF LoadFails
  <1> QED
    BY <1>2, <1>3, <1>4, <1>5, <1>6

LEMMA NextInv == IInv /\ [Next]_vars => IInv'
  <1> SUFFICES ASSUME IInv, [Next]_vars PROVE IInv'
    OBVIOUS
  <1>1. CASE UNCHANGED vars
    BY <1>1 DEF IInv, Types, NoticeInv, EffectsAreCurrent, PicturesAreTheirs
  <1> QED
    BY <1>1, NoticeStep, PictureStep DEF Next

LEMMA Inductive == Spec => []IInv
  BY InitInv, NextInv, PTL DEF Spec

(* Until its time is over a notice is on the page, unless a later one took *)
(* its place or the time-out of one that was there took it away; it is     *)
(* visible, unless the user dismissed it or one of those; and it is gone   *)
(* when its time is over (ErrorContext.tsx).                               *)
THEOREM NoticesGoAway == Spec => []NoticesSeen
  <1>1. IInv => NoticesSeen
    BY ShownOrAccountedFor DEF IInv
  <1> QED
    BY <1>1, Inductive, PTL

(* A place that waits for nothing shows the picture of the user there is,  *)
(* or none after a failure (ChatMessage.tsx, ProfilePage.tsx, pfpCache.ts).*)
THEOREM PicturesFollowUser == Spec => []PicturesAreTheirs
  BY Inductive, PTL DEF IInv

-------------------------------------------------------------------------------
(* The page.                                                               *)

(* Every step of the page is one of a part and leaves the others alone, so *)
(* what was shown of each part holds on the page.                          *)
LEMMA PageIsParts == PageSpec => Composer!Spec /\ Editors!Spec /\ Spec
  <1> USE DEF composerVars, editorVars, vars, Composer!vars, Editors!vars
  <1>1. PageInit => Composer!Init /\ Editors!Init /\ Init
    BY DEF PageInit
  <1>2. PageNext => [Composer!Next]_(Composer!vars)
    BY DEF PageNext
  <1>3. PageNext => [Editors!Next]_(Editors!vars)
    BY DEF PageNext
  <1>4. PageNext => [Next]_vars
    BY DEF PageNext
  <1>5. UNCHANGED <<part, composerVars, editorVars, vars>> =>
          UNCHANGED Composer!vars /\ UNCHANGED Editors!vars /\ UNCHANGED vars
    OBVIOUS
  <1> QED
    BY <1>1, <1>2, <1>3, <1>4, <1>5, PTL DEF PageSpec, Composer!Spec, Editors!Spec, Spec

(* On the page, with all its events: images go once, prompts of messages  *)
(* that open no image have what was sent, drafts go home, notices are seen *)
(* as far as others leave them, and a place that waits for nothing shows   *)
(* the picture of the user there is, or none after a download that failed. *)
THEOREM PageIsSafe ==
  PageSpec => [](/\ ImagesGoOnce /\ PromptsAgree /\ DraftsGoHome
                 /\ NoticesSeen /\ PicturesAreTheirs)
  <1>1. PageSpec => []ImagesGoOnce
    BY PageIsParts, ImagesAreGivenOnce, PTL
  <1>2. PageSpec => []DraftsGoHome
    BY PageIsParts, DraftsFindHome, PTL
  <1>3. PageSpec => []PromptsAgree
    BY PageIsParts, PromptsHaveIt, PTL
  <1> QED
    BY <1>1, <1>2, <1>3, PageIsParts, NoticesGoAway, PicturesFollowUser, PTL
===============================================================================
