------------------------------ MODULE TorProofs -------------------------------
(***************************************************************************)
(* What the desktop client does over Tor: its start-up (TorStartup), for   *)
(* any number of loads of the page, and its turns with the vendor          *)
(* (TokenUse), for any number of turns, tokens and retries.                *)
(*                                                                         *)
(* TorStopsWithApp rests on TorInv: while the app runs, an armed timeout   *)
(* and a Tor that is starting both mean that the promise of waitForTor is  *)
(* pending, so that whoever stops Tor then also ends the app.              *)
(* PageShowsTor rests on NewsInv: no message of good news is older than    *)
(* torIsReady, and of what is on its way to a page whose question was      *)
(* answered the last one says what main knows now.                         *)
(*                                                                         *)
(* A turn shows an answer produced for itself, and buys one at most: main  *)
(* gives a token to one turn, all attempts of the turn present that token, *)
(* and the server's promise is about requests with the same token.  Turns  *)
(* and the wait for Tor have a way to end (TurnsRunOut, WaitIsBounded).    *)
(***************************************************************************)
EXTENDS TorStartup, TokenUse, SequenceTheorems, TLAPS

TorInv ==
  /\ waiting \in {"pending", "resolved", "rejected"}
  /\ Running /\ timer => tor = "starting"
  /\ Running /\ tor \in {"absent", "starting"} => waiting = "pending"
  /\ Running => waiting # "rejected"

LastSays(says) == says = (toPage[Len(toPage)] # "false")

NewsInv ==
  /\ toPage \in Seq(Messages)
  /\ torIsReady = TRUE \/ torIsReady = FALSE
  /\ torReady = TRUE \/ torReady = FALSE
  /\ torReady => torIsReady
  /\ \A i \in 1..Len(toPage) : toPage[i] # "false" => torIsReady
  /\ (Running /\ window = "mounted" /\ ~asking) =>
       IF toPage = <<>> THEN torReady = torIsReady
                        ELSE LastSays(torIsReady)

-------------------------------------------------------------------------------

LEMMA TorInductive ==
  ASSUME TorInv, TorStopsWithApp, [TorNext]_torVars
  PROVE  TorInv' /\ TorStopsWithApp'
  <1> USE DEF TorInv, TorStopsWithApp, Running
  <1>1. CASE NoTor \/ Bootstrap \/ Fail
    BY <1>1 DEF NoTor, Bootstrap, Fail, Reject, Resolve
  <1>2. CASE EndWell \/ TimeOut
    BY <1>2 DEF EndWell, TimeOut, Reject
  <1>3. CASE Quit \/ CloseWindow
    BY <1>3 DEF Quit, CloseWindow, Stopped
  <1>4. CASE Load \/ Mount \/ TellStatus \/ Hear \/ TorDone \/ Idle \/ UNCHANGED torVars
    BY <1>4 DEF Load, Mount, TellStatus, Hear, TorDone, Idle, mainVars, torVars
  <1> QED BY <1>1, <1>2, <1>3, <1>4 DEF TorNext

(* Tor is stopped with the app, whichever of its end, its last message,    *)
(* the timeout and the user comes first, and never under a running app.    *)
THEOREM TorEndsWithApp == TorSpec => []TorStopsWithApp
  <1>1. TorInit => TorInv /\ TorStopsWithApp
    BY DEF TorInit, TorInv, TorStopsWithApp, Running
  <1>2. TorInv /\ TorStopsWithApp /\ [TorNext]_torVars => (TorInv /\ TorStopsWithApp)'
    BY TorInductive
  <1> QED BY <1>1, <1>2, PTL DEF TorSpec

(* The wait for Tor always has an end to come: a report that there is no   *)
(* Tor, or a timeout.  With the fairness of TorFairSpec it ends, but for a *)
(* Tor that itself ended without an error.                                 *)
THEOREM WaitIsBounded == TorSpec => []WaitHasAnEnd
  <1> DEFINE Inv == TorInv /\ TorStopsWithApp /\ WaitHasAnEnd
  <1>1. TorInit => Inv
    BY DEF TorInit, TorInv, TorStopsWithApp, WaitHasAnEnd, Running
  <1>2. ASSUME Inv, [TorNext]_torVars PROVE WaitHasAnEnd'
    <2> USE DEF TorInv, WaitHasAnEnd, Running
    <2>1. CASE NoTor \/ Bootstrap \/ Fail
      BY <1>2, <2>1 DEF NoTor, Bootstrap, Fail, Reject, Resolve
    <2>2. CASE EndWell \/ TimeOut
      BY <1>2, <2>2 DEF EndWell, TimeOut, Reject
    <2>3. CASE Quit \/ CloseWindow
      BY <1>2, <2>3 DEF Quit, CloseWindow, Stopped
    <2>4. CASE Load \/ Mount \/ TellStatus \/ Hear \/ TorDone \/ Idle \/ UNCHANGED torVars
      BY <1>2, <2>4 DEF Load, Mount, TellStatus, Hear, TorDone, Idle, mainVars, torVars
    <2> QED BY <1>2, <2>1, <2>2, <2>3, <2>4 DEF TorNext
  <1>3. Inv /\ [TorNext]_torVars => Inv'
    BY <1>2, TorInductive
  <1>4. Inv => WaitHasAnEnd
    OBVIOUS
  <1> QED BY <1>1, <1>3, <1>4, PTL DEF TorSpec

-------------------------------------------------------------------------------

LEMMA TailFacts ==
  ASSUME NEW S, NEW s \in Seq(S), s # <<>>
  PROVE  /\ Len(s) \in Nat \ {0} /\ Tail(s) \in Seq(S)
         /\ Head(s) = s[1] /\ Len(Tail(s)) = Len(s) - 1
         /\ \A i \in 1..Len(s) - 1 : Tail(s)[i] = s[i + 1]
         /\ Len(s) = 1 => Tail(s) = <<>>
         /\ Len(s) # 1 => Tail(s) # <<>> /\ Tail(s)[Len(Tail(s))] = s[Len(s)]
  <1>1. Len(s) \in Nat \ {0}
    BY EmptySeq
  <1>2. /\ Tail(s) \in Seq(S) /\ Len(Tail(s)) = Len(s) - 1
        /\ \A i \in 1..Len(Tail(s)) : Tail(s)[i] = s[i + 1]
    BY HeadTailProperties
  <1>3. ASSUME Len(s) = 1 PROVE Tail(s) = <<>>
    <2>1. Tail(s) # <<>> => Len(Tail(s)) \in Nat \ {0}
      BY <1>2, EmptySeq
    <2> QED BY <1>2, <1>3, <2>1
  <1>4. ASSUME Len(s) # 1 PROVE Tail(s) # <<>> /\ Tail(s)[Len(Tail(s))] = s[Len(s)]
    <2>1. Len(Tail(s)) \in 1..Len(Tail(s)) /\ Len(Tail(s)) + 1 = Len(s)
      BY <1>1, <1>2, <1>4
    <2>2. Len(Tail(s)) # 0
      BY <1>1, <1>2, <1>4
    <2> QED BY <1>2, <2>1, <2>2, EmptySeq
  <1>5. Head(s) = s[1]
    OBVIOUS
  <1> QED BY <1>1, <1>2, <1>3, <1>4, <1>5

(* Main tells the page something that is true.                             *)
LEMMA AppendNews ==
  ASSUME NewsInv, NEW m \in Messages,
         torIsReady => torIsReady', torIsReady' = (m # "false"),
         toPage' = Append(toPage, m), torReady' = torReady
  PROVE  NewsInv'
  <1>1. /\ toPage' \in Seq(Messages) /\ toPage' # <<>>
        /\ Len(toPage') = Len(toPage) + 1 /\ toPage'[Len(toPage')] = m
        /\ \A i \in 1..Len(toPage) : toPage'[i] = toPage[i]
    <2>1. toPage \in Seq(Messages)
      BY DEF NewsInv
    <2> QED BY <2>1, AppendProperties
  <1>2. \A i \in 1..Len(toPage') : toPage'[i] # "false" => torIsReady'
    <2> SUFFICES ASSUME NEW i \in 1..Len(toPage'), toPage'[i] # "false" PROVE torIsReady'
      OBVIOUS
    <2>1. CASE i = Len(toPage')
      BY <1>1, <2>1
    <2>2. CASE i # Len(toPage')
      <3>1. i \in 1..Len(toPage)
        BY <1>1, <2>2, LenProperties DEF NewsInv
      <3>2. toPage[i] # "false"
        BY <1>1, <3>1
      <3> QED BY <3>1, <3>2 DEF NewsInv
    <2> QED BY <2>1, <2>2
  <1>3. torReady' => torIsReady'
    BY DEF NewsInv
  <1>4. LastSays(torIsReady)'
    BY <1>1 DEF LastSays
  <1>5. torIsReady' = TRUE \/ torIsReady' = FALSE
    OBVIOUS
  <1>6. torReady' = TRUE \/ torReady' = FALSE
    BY DEF NewsInv
  <1> QED BY <1>1, <1>2, <1>3, <1>4, <1>5, <1>6 DEF NewsInv

LEMMA NewsInductive ==
  ASSUME NewsInv, [TorNext]_torVars
  PROVE  NewsInv'
  <1>1. CASE NoTor \/ Fail
    BY <1>1 DEF NoTor, Fail, Reject, NewsInv, LastSays, Running
  <1>2. CASE Bootstrap
    <2>1. CASE waiting = "pending" /\ window = "mounted"
      BY <1>2, <2>1, AppendNews DEF Bootstrap, Resolve, NewsInv, Messages
    <2>2. CASE waiting = "pending" /\ window # "mounted"
      BY <1>2, <2>2 DEF Bootstrap, Resolve, NewsInv
    <2>3. CASE waiting # "pending"
      BY <1>2, <2>3 DEF Bootstrap, Resolve, NewsInv, LastSays, Running
    <2> QED BY <2>1, <2>2, <2>3
  <1>3. CASE EndWell \/ TimeOut
    BY <1>3 DEF EndWell, TimeOut, Reject, NewsInv, LastSays, Running, pageVars
  <1>4. CASE Quit
    BY <1>4 DEF Quit, NewsInv, LastSays, Running, pageVars
  <1>9. CASE CloseWindow \/ Load
    <2>1. /\ toPage' = <<>> /\ torReady' = FALSE /\ torIsReady' = torIsReady
          /\ window' # "mounted"
      BY <1>9 DEF CloseWindow, Load, mainVars
    <2> QED BY <2>1 DEF NewsInv
  <1>5. CASE Mount
    BY <1>5 DEF Mount, NewsInv, Running, mainVars
  <1>6. CASE TellStatus
    BY <1>6, AppendNews DEF TellStatus, NewsInv, Messages, mainVars
  <1>7. CASE Hear
    <2>1. /\ toPage \in Seq(Messages) /\ toPage # <<>>
          /\ toPage' = Tail(toPage) /\ torReady' = (Head(toPage) # "false")
          /\ torIsReady' = torIsReady /\ asking' = asking /\ window' = window
          /\ Running' = Running
      BY <1>7 DEF Hear, NewsInv, mainVars, Running
    <2>2. /\ toPage' \in Seq(Messages) /\ Len(toPage) \in Nat \ {0}
          /\ Head(toPage) = toPage[1] /\ Len(toPage') = Len(toPage) - 1
          /\ \A i \in 1..Len(toPage) - 1 : toPage'[i] = toPage[i + 1]
          /\ Len(toPage) = 1 => toPage' = <<>>
          /\ Len(toPage) # 1 => toPage' # <<>> /\ toPage'[Len(toPage')] = toPage[Len(toPage)]
      BY <2>1, TailFacts
    <2>3. torReady' => torIsReady'
      <3>1. toPage[1] # "false" => torIsReady
        BY <2>2 DEF NewsInv
      <3> QED BY <2>1, <2>2, <3>1
    <2>4. \A i \in 1..Len(toPage') : toPage'[i] # "false" => torIsReady'
      BY <2>1, <2>2 DEF NewsInv
    <2>5. CASE Len(toPage) = 1
      <3>1. toPage' = <<>>
        BY <2>2, <2>5
      <3>2. (Running /\ window = "mounted" /\ ~asking) => torReady' = torIsReady'
        BY <2>1, <2>2, <2>5 DEF NewsInv, LastSays
      <3> QED BY <2>1, <2>2, <2>3, <2>4, <3>1, <3>2 DEF NewsInv
    <2>6. CASE Len(toPage) # 1
      <3>1. toPage' # <<>> /\ toPage'[Len(toPage')] = toPage[Len(toPage)]
        BY <2>2, <2>6
      <3> QED BY <2>1, <2>2, <2>3, <2>4, <3>1 DEF NewsInv, LastSays
    <2> QED BY <2>5, <2>6
  <1>8. CASE TorDone \/ Idle \/ UNCHANGED torVars
    BY <1>8 DEF TorDone, Idle, NewsInv, LastSays, Running, torVars
  <1> QED BY <1>1, <1>2, <1>3, <1>4, <1>5, <1>6, <1>7, <1>8, <1>9 DEF TorNext

(* A page that has heard all there is shows what main knows of Tor, and    *)
(* none shows a chat too early, whatever the order of loads, questions,    *)
(* answers and the event.                                                  *)
THEOREM PageIsRight == TorSpec => []PageShowsTor
  <1>1. TorInit => NewsInv
    BY DEF TorInit, NewsInv, LastSays, Messages
  <1>2. NewsInv /\ [TorNext]_torVars => NewsInv'
    BY NewsInductive
  <1>3. NewsInv => PageShowsTor
    BY DEF NewsInv, PageShowsTor
  <1> QED BY <1>1, <1>2, <1>3, PTL DEF TorSpec
-------------------------------------------------------------------------------
(* Turns over Tor.                                                         *)

(* Every token in use belongs to one turn, which has it from then on. *)
TokensBelong ==
  /\ \A t \in Turns : stage[t] \in {"idle", "token"} => token[t] = Nil
  /\ \A t \in Turns : stage[t] \in {"sending", "answer"} => token[t] # Nil
  /\ \A t \in Turns : token[t] # Nil => token[t] \in handed
  /\ \A s, t \in Turns : token[s] = token[t] /\ token[s] # Nil => s = t

(* Every attempt that reached the server asked with the token of its turn. *)
AttemptsAskOwn ==
  \A a \in Attempts : ask[a] # Nil => ask[a] = token[a[1]]

(* What the server committed, left over and handed out, by token. *)
ServerKept ==
  /\ \A a \in committed \cup stray : ask[a] # Nil
  /\ \A a, b \in committed : ask[a] = ask[b] => a = b
  /\ \A a \in Attempts : source[a] # Nil => ask[a] # Nil /\ ask[source[a]] = ask[a]

IInv == TypeOK /\ TokensBelong /\ AttemptsAskOwn /\ ServerKept /\ RepliesAreOwn

(* An attempt belongs to a turn. *)
LEMMA AttemptTurn ==
  /\ \A a \in Attempts : a[1] \in Turns /\ a # Nil /\ a # Failure
  /\ \A t \in Turns, n \in 0 .. MaxRetries : <<t, n>> \in Attempts /\ <<t, n>>[1] = t
  BY TokenUseAssumption DEF Attempts

LEMMA InitInv == Init => IInv
  BY TokenUseAssumption, AttemptTurn
  DEF Init, Server!Init, IInv, TypeOK, TokensBelong, AttemptsAskOwn, ServerKept, RepliesAreOwn

USE DEF vars, client, server

(* Steps of the page and of main leave what the server knows alone. *)
LEMMA TypeStep == IInv /\ [Next]_vars => TypeOK'
  <1> SUFFICES ASSUME IInv, [Next]_vars PROVE TypeOK'
    OBVIOUS
  <1> USE TokenUseAssumption, AttemptTurn DEF IInv, TypeOK, ServerKept
  <1>1. ASSUME NEW t \in Turns, SendMessage(t) \/ GotToken(t) \/ NoToken(t) PROVE TypeOK'
    BY <1>1 DEF SendMessage, GotToken, NoToken, Fails, DecrementToken
  <1>2. ASSUME NEW t \in Turns, TorFetch(t) PROVE TypeOK'
    BY <1>2 DEF TorFetch, Current, Server!Ask
  <1>3. ASSUME NEW t \in Turns, TorFetchFails(t) PROVE TypeOK'
    BY <1>3 DEF TorFetchFails, Retry, Fails
  <1>4. ASSUME NEW t \in Turns, Refuse(t) \/ Cut(t) PROVE TypeOK'
    <2>1. CASE Refuse(t)
      BY <2>1 DEF Refuse, Retry, Fails, Current
    <2>2. CASE Cut(t)
      BY <2>2 DEF Cut, Retry, Fails, Current
    <2> QED
      BY <1>4, <2>1, <2>2
  <1>5. ASSUME NEW t \in Turns, GotAnswer(t) PROVE TypeOK'
    BY <1>5 DEF GotAnswer, Current
  <1>6. ASSUME NEW a \in Attempts, Record(a) \/ RecordStray(a) PROVE TypeOK'
    BY <1>6 DEF Record, RecordStray, Server!Commit, Server!Stray
  <1>7. ASSUME NEW a \in Attempts, Answer(a) PROVE TypeOK'
    BY <1>7 DEF Answer, Server!Deliver
  <1>8. CASE Done \/ UNCHANGED vars
    BY <1>8 DEF Done
  <1> QED
    BY <1>1, <1>2, <1>3, <1>4, <1>5, <1>6, <1>7, <1>8 DEF Next

LEMMA BelongStep == IInv /\ [Next]_vars => TokensBelong'
  <1> SUFFICES ASSUME IInv, [Next]_vars PROVE TokensBelong'
    OBVIOUS
  <1> USE TokenUseAssumption DEF IInv, TypeOK, TokensBelong
  <1>1. ASSUME NEW t \in Turns, SendMessage(t) \/ NoToken(t) PROVE TokensBelong'
    BY <1>1 DEF SendMessage, NoToken, Fails
  <1>2. ASSUME NEW t \in Turns, GotToken(t) PROVE TokensBelong'
    BY <1>2 DEF GotToken
  <1>3. ASSUME NEW t \in Turns, TorFetch(t) \/ TorFetchFails(t) \/ Refuse(t) \/ Cut(t)
               \/ GotAnswer(t) PROVE TokensBelong'
    BY <1>3 DEF TorFetch, TorFetchFails, Refuse, Cut, GotAnswer, Retry, Fails
  <1>4. CASE \/ \E a \in Attempts : Record(a) \/ RecordStray(a) \/ Answer(a)
             \/ Done \/ UNCHANGED vars
    BY <1>4 DEF Record, RecordStray, Answer, Done
  <1> QED
    BY <1>1, <1>2, <1>3, <1>4 DEF Next

LEMMA AskStep == IInv /\ [Next]_vars => AttemptsAskOwn'
  <1> SUFFICES ASSUME IInv, [Next]_vars PROVE AttemptsAskOwn'
    OBVIOUS
  <1> USE TokenUseAssumption, AttemptTurn DEF IInv, TypeOK, AttemptsAskOwn
  <1>1. ASSUME NEW t \in Turns, GotToken(t) PROVE AttemptsAskOwn'
    BY <1>1 DEF GotToken, TokensBelong
  <1>2. ASSUME NEW t \in Turns, TorFetch(t) PROVE AttemptsAskOwn'
    BY <1>2 DEF TorFetch, Current, Server!Ask
  <1>3. CASE \/ \E t \in Turns : \/ SendMessage(t) \/ NoToken(t) \/ TorFetchFails(t)
                                 \/ Refuse(t) \/ Cut(t) \/ GotAnswer(t)
             \/ \E a \in Attempts : Record(a) \/ RecordStray(a) \/ Answer(a)
             \/ Done \/ UNCHANGED vars
    BY <1>3 DEF SendMessage, NoToken, TorFetchFails, Refuse, Cut, GotAnswer, Record,
      RecordStray, Answer, Done, Server!Commit, Server!Stray, Server!Deliver
  <1> QED
    BY <1>1, <1>2, <1>3 DEF Next

LEMMA ServerStep == IInv /\ [Next]_vars => ServerKept'
  <1> SUFFICES ASSUME IInv, [Next]_vars PROVE ServerKept'
    OBVIOUS
  <1> USE TokenUseAssumption, AttemptTurn DEF IInv, TypeOK, ServerKept
  <1>1. ASSUME NEW t \in Turns, TorFetch(t) PROVE ServerKept'
    <2> DEFINE c == Current(t)
    <2>1. /\ c \in Attempts /\ ask[c] = Nil
          /\ ask' \in [Attempts -> Tokens \cup {Nil}]
          /\ \A a \in Attempts : a # c => ask'[a] = ask[a]
          /\ ask'[c] # Nil
          /\ UNCHANGED <<committed, stray, source>>
      BY <1>1 DEF TorFetch, Current, Server!Ask
    <2> HIDE DEF c
    <2>2. \A a \in committed \cup stray : a # c
      BY <2>1
    <2>3. \A a \in Attempts : source[a] # Nil => a # c /\ source[a] # c /\ source[a] \in Attempts
      BY <2>1
    <2> QED
      BY <2>1, <2>2, <2>3
  <1>2. ASSUME NEW a \in Attempts, Record(a) PROVE ServerKept'
    BY <1>2 DEF Record, Server!Commit, SameToken
  <1>3. ASSUME NEW a \in Attempts, RecordStray(a) PROVE ServerKept'
    BY <1>3 DEF RecordStray, Server!Stray
  <1>4. ASSUME NEW a \in Attempts, Answer(a) PROVE ServerKept'
    BY <1>4 DEF Answer, Server!Deliver
  <1>5. CASE \/ \E t \in Turns : \/ SendMessage(t) \/ GotToken(t) \/ NoToken(t)
                                 \/ TorFetchFails(t) \/ Refuse(t) \/ Cut(t) \/ GotAnswer(t)
             \/ Done \/ UNCHANGED vars
    BY <1>5 DEF SendMessage, GotToken, NoToken, TorFetchFails, Refuse, Cut, GotAnswer, Done
  <1> QED
    BY <1>1, <1>2, <1>3, <1>4, <1>5 DEF Next

(* What an attempt is handed was produced for an attempt of its turn. *)
LEMMA SourceIsOwn ==
  ASSUME IInv, NEW a \in Attempts, source[a] # Nil
  PROVE  source[a] \in Attempts /\ source[a][1] = a[1]
  BY AttemptTurn DEF IInv, TypeOK, TokensBelong, AttemptsAskOwn, ServerKept

LEMMA ReplyStep == IInv /\ [Next]_vars => RepliesAreOwn'
  <1> SUFFICES ASSUME IInv, [Next]_vars PROVE RepliesAreOwn'
    OBVIOUS
  <1> USE TokenUseAssumption, AttemptTurn DEF IInv, TypeOK, RepliesAreOwn
  <1>1. ASSUME NEW t \in Turns, GotAnswer(t) PROVE RepliesAreOwn'
    <2>1. Current(t) \in Attempts /\ Current(t)[1] = t
      BY <1>1 DEF Current
    <2>2. source[Current(t)] # Nil => source[Current(t)][1] = t
      BY <2>1, SourceIsOwn
    <2> QED
      BY <1>1, <2>1, <2>2 DEF GotAnswer
  <1>2. CASE \/ \E t \in Turns : \/ SendMessage(t) \/ GotToken(t) \/ NoToken(t) \/ TorFetch(t)
                                 \/ TorFetchFails(t) \/ Refuse(t) \/ Cut(t)
             \/ \E a \in Attempts : Record(a) \/ RecordStray(a) \/ Answer(a)
             \/ Done \/ UNCHANGED vars
    BY <1>2 DEF SendMessage, GotToken, NoToken, TorFetch, TorFetchFails, Refuse, Cut, Retry,
      Fails, Record, RecordStray, Answer, Done
  <1> QED
    BY <1>1, <1>2 DEF Next

LEMMA Invariant == Spec => []IInv
  <1>1. IInv /\ [Next]_vars => IInv'
    BY TypeStep, BelongStep, AskStep, ServerStep, ReplyStep DEF IInv
  <1> QED
    BY <1>1, InitInv, PTL DEF Spec

(* The variables keep their types. *)
THEOREM TypeCorrect == Spec => []TypeOK
  <1>1. IInv => TypeOK
    BY DEF IInv
  <1> QED
    BY <1>1, Invariant, PTL

(* handleSendMessage adds to the chat an answer to its own request only,   *)
(* however often the client repeated it and the server had answered it.    *)
THEOREM RepliesBelong == Spec => []RepliesAreOwn
  <1>1. IInv => RepliesAreOwn
    BY DEF IInv
  <1> QED
    BY <1>1, Invariant, PTL

(* The attempts of a turn have one answer recorded between them.           *)
THEOREM OnePurchasePerTurn == Spec => []TurnsBuyOnce
  <1>1. IInv => TurnsBuyOnce
    BY AttemptTurn DEF IInv, TypeOK, AttemptsAskOwn, ServerKept, TurnsBuyOnce
  <1> QED
    BY <1>1, Invariant, PTL

-------------------------------------------------------------------------------
(* Turns end.                                                              *)

LEMMA AwaitedStep == IInv /\ AnswersAreAwaited /\ [Next]_vars => AnswersAreAwaited'
  <1> SUFFICES ASSUME IInv, AnswersAreAwaited, [Next]_vars, NEW t \in Turns, stage'[t] = "answer"
               PROVE  line'[Current(t)'] \in {"open", "answered"}
    BY DEF AnswersAreAwaited, Current
  <1> USE TokenUseAssumption, AttemptTurn DEF IInv, TypeOK, AnswersAreAwaited, Current
  <1>1. ASSUME NEW s \in Turns, SendMessage(s) \/ GotToken(s) \/ NoToken(s) \/ GotAnswer(s)
        PROVE  line'[Current(t)'] \in {"open", "answered"}
    BY <1>1 DEF SendMessage, GotToken, NoToken, GotAnswer, Fails
  <1>2. ASSUME NEW s \in Turns, TorFetch(s) PROVE line'[Current(t)'] \in {"open", "answered"}
    <2>1. /\ stage' = [stage EXCEPT ![s] = "answer"] /\ tries' = tries
          /\ line' = [line EXCEPT ![<<s, tries[s]>>] = "open"]
      BY <1>2 DEF TorFetch
    <2>2. CASE s = t
      BY <2>1, <2>2
    <2>3. CASE s # t
      BY <2>1, <2>3
    <2> QED BY <2>2, <2>3
  <1>3. ASSUME NEW s \in Turns, TorFetchFails(s) \/ Refuse(s) \/ Cut(s)
        PROVE  line'[Current(t)'] \in {"open", "answered"}
    <2>1. s # t /\ stage[t] = "answer" /\ tries'[t] = tries[t]
      BY <1>3 DEF TorFetchFails, Refuse, Cut, Retry, Fails
    <2>2. line'[Current(t)] = line[Current(t)]
      BY <1>3, <2>1 DEF TorFetchFails, Refuse, Cut
    <2> QED BY <2>1, <2>2
  <1>4. ASSUME NEW a \in Attempts, Record(a) \/ RecordStray(a) \/ Answer(a)
        PROVE  line'[Current(t)'] \in {"open", "answered"}
    BY <1>4 DEF Record, RecordStray, Answer
  <1>5. CASE Done \/ UNCHANGED vars
    BY <1>5 DEF Done
  <1> QED BY <1>1, <1>2, <1>3, <1>4, <1>5 DEF Next

LEMMA AdvanceStep ==
  IInv /\ [Next]_vars =>
    \A t \in Turns : UNCHANGED <<stage[t], tries[t]>> \/ Progress(t)' > Progress(t)
  <1> SUFFICES ASSUME IInv, [Next]_vars, NEW t \in Turns
               PROVE  UNCHANGED <<stage[t], tries[t]>> \/ Progress(t)' > Progress(t)
    OBVIOUS
  <1>1. tries[t] \in Nat /\ tries[t] <= MaxRetries /\ MaxRetries \in Nat
    BY TokenUseAssumption DEF IInv, TypeOK
  <1> USE DEF IInv, TypeOK
  <1>2. \/ UNCHANGED <<stage[t], tries[t]>>
        \/ stage[t] = "idle" /\ stage'[t] = "token" /\ tries'[t] = tries[t]
        \/ stage[t] = "token" /\ stage'[t] \in {"sending", "over"} /\ tries'[t] = tries[t]
        \/ stage[t] = "sending" /\ stage'[t] = "answer" /\ tries'[t] = tries[t]
        \/ /\ stage[t] \in {"sending", "answer"} /\ stage'[t] = "sending"
           /\ tries'[t] = tries[t] + 1
        \/ stage[t] \in {"sending", "answer"} /\ stage'[t] = "over" /\ tries'[t] = tries[t]
    <2>1. ASSUME NEW s \in Turns, SendMessage(s) \/ GotToken(s) \/ NoToken(s) \/ TorFetch(s) \/ GotAnswer(s)
          PROVE  <1>2
      BY <2>1 DEF SendMessage, GotToken, NoToken, TorFetch, GotAnswer, Fails
    <2>2. ASSUME NEW s \in Turns, TorFetchFails(s) \/ Refuse(s) \/ Cut(s)
          PROVE  <1>2
      BY <2>2 DEF TorFetchFails, Refuse, Cut, Retry, Fails
    <2>3. CASE \/ \E a \in Attempts : Record(a) \/ RecordStray(a) \/ Answer(a)
               \/ Done \/ UNCHANGED vars
      BY <2>3 DEF Record, RecordStray, Answer, Done
    <2> QED BY <2>1, <2>2, <2>3 DEF Next
  <1> QED BY <1>1, <1>2 DEF Progress

(* However answers and requests are lost, a turn gets closer to its end    *)
(* with every step of its own, and is never left with nothing to wait for. *)
(* With the fairness of Spec, every turn ends.                             *)
THEOREM TurnsRunOut == Spec => TurnsAdvance /\ []AnswersAreAwaited
  <1>1. Init => AnswersAreAwaited
    BY DEF Init, AnswersAreAwaited
  <1>2. Spec => []AnswersAreAwaited
    BY <1>1, AwaitedStep, Invariant, PTL DEF Spec
  <1>3. IInv /\ [Next]_vars =>
          [\A t \in Turns : UNCHANGED <<stage[t], tries[t]>> \/ Progress(t)' > Progress(t)]_vars
    BY AdvanceStep
  <1>4. Spec => TurnsAdvance
    BY <1>3, Invariant, PTL DEF Spec, TurnsAdvance
  <1> QED BY <1>2, <1>4, PTL
===============================================================================
