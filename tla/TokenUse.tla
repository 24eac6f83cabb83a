------------------------------- MODULE TokenUse -------------------------------
(***************************************************************************)
(* How a turn of a chat uses its token: the page asks main for one         *)
(* (handleSendMessage, generate-token) and has main make the request with  *)
(* it (llm-proxy, LLMProxy), through an OpenAI client that repeats a       *)
(* request that failed (external; MaxRetries is its default of two) and    *)
(* that calls torFetch for each attempt.  torFetch has no timeout of its   *)
(* own and ignores the client's abort signal: an attempt ends with an      *)
(* answer, a refusal or an error of its connection.  When the connection   *)
(* is lost the server may be at work still, beside the next attempt.       *)
(*                                                                         *)
(* The server is TokenPromise, which Redemption implements.  That a token  *)
(* comes out of generate-token once is what TokenPool shows; Tokens are    *)
(* those main has to give.  Replies are named by the attempt they were     *)
(* produced for; what LLMProxy reads in their bytes is left out.           *)
(***************************************************************************)
EXTENDS Naturals

CONSTANTS
  Turns,       \* calls of handleSendMessage, of one page or of several
  Tokens,
  MaxRetries,  \* how often the OpenAI client repeats a request
  Credits,     \* what the page shows of the model's credits at first
  Nil, Failure

ASSUME TokenUseAssumption ==
  /\ MaxRetries \in Nat /\ Credits \in Nat
  /\ Nil \notin Tokens /\ Nil \notin Turns \X Nat
  /\ Failure # Nil /\ Failure \notin Turns \X Nat

Attempts == Turns \X (0 .. MaxRetries)

VARIABLES
  stage,   \* what the turn waits for
  token,   \* the token it was given, or Nil
  handed,  \* the tokens main has given away
  tries,   \* how often its request was repeated
  line,    \* the connection of each attempt
  reply,   \* the attempt whose answer the turn shows, or Failure
  shown,   \* numActiveToken of the model, on the page
  ask, committed, stray, source  \* the server's: see TokenPromise

client == <<stage, token, handed, tries, reply, shown>>
server == <<ask, committed, stray, source>>
vars == <<client, line, server>>

SameToken(k) == k
Server == INSTANCE TokenPromise WITH
  Requests <- Attempts, Hashes <- Tokens, TokenOf <- SameToken

(* One type invariant for the module. *)
TypeOK ==
  /\ stage \in [Turns -> {"idle", "token", "sending", "answer", "over"}]
  /\ token \in [Turns -> Tokens \cup {Nil}]
  /\ handed \subseteq Tokens
  /\ tries \in [Turns -> 0 .. MaxRetries]
  /\ line \in [Attempts -> {"none", "open", "answered", "refused", "cut"}]
  /\ reply \in [Turns -> Attempts \cup {Nil, Failure}]
  /\ shown \in 0 .. Credits
  /\ ask \in [Attempts -> Tokens \cup {Nil}]
  /\ committed \subseteq Attempts /\ stray \subseteq Attempts
  /\ source \in [Attempts -> Attempts \cup {Nil}]

Init ==
  /\ stage = [t \in Turns |-> "idle"]
  /\ token = [t \in Turns |-> Nil]
  /\ handed = {}
  /\ tries = [t \in Turns |-> 0]
  /\ line = [a \in Attempts |-> "none"]
  /\ reply = [t \in Turns |-> Nil]
  /\ shown = Credits
  /\ Server!Init

Current(t) == <<t, tries[t]>>

(* The page's side of a turn: the message is shown, generate-token called. *)
SendMessage(t) ==
  /\ stage[t] = "idle"
  /\ stage' = [stage EXCEPT ![t] = "token"]
  /\ UNCHANGED <<token, handed, tries, line, reply, shown, server>>

(* decrementToken, wherever the token came from. *)
DecrementToken == shown' = IF shown > 0 THEN shown - 1 ELSE 0

(* Seeded fault: a token of an earlier turn is handed out again.           *)
GotTokenAgain(t) ==
  /\ stage[t] = "token"
  /\ \E k \in Tokens : token' = [token EXCEPT ![t] = k] /\ handed' = handed \cup {k}
  /\ stage' = [stage EXCEPT ![t] = "sending"]
  /\ DecrementToken
  /\ UNCHANGED <<tries, line, reply, server>>

(* generate-token answers with a token, and llm-proxy is called with it.   *)
GotToken(t) ==
  /\ stage[t] = "token"
  /\ \E k \in Tokens \ handed :
       token' = [token EXCEPT ![t] = k] /\ handed' = handed \cup {k}
  /\ stage' = [stage EXCEPT ![t] = "sending"]
  /\ DecrementToken
  /\ UNCHANGED <<tries, line, reply, server>>

(* The turn ends with an error: what main answered is thrown and shown.    *)
(* The token is in no variable of the page or main any more.               *)
Fails(t) ==
  /\ stage' = [stage EXCEPT ![t] = "over"]
  /\ reply' = [reply EXCEPT ![t] = Failure]
  /\ UNCHANGED tries

NoToken(t) ==
  /\ stage[t] = "token"
  /\ Fails(t)
  /\ UNCHANGED <<token, handed, line, shown, server>>

(* Seeded faults: the retries are not counted; a retry generates a token.  *)
RetryForever(t) ==
  /\ stage' = [stage EXCEPT ![t] = "sending"]
  /\ UNCHANGED <<tries, reply>>

RetryAsNewTurn(t) ==
  IF tries[t] < MaxRetries
  THEN /\ stage' = [stage EXCEPT ![t] = "token"]
       /\ tries' = [tries EXCEPT ![t] = @ + 1]
       /\ UNCHANGED reply
  ELSE Fails(t)

(* The OpenAI client repeats the request, unless it did so often enough.   *)
Retry(t) ==
  IF tries[t] < MaxRetries
  THEN /\ stage' = [stage EXCEPT ![t] = "sending"]
       /\ tries' = [tries EXCEPT ![t] = @ + 1]
       /\ UNCHANGED reply
  ELSE Fails(t)

(* torFetch: the request goes out, and reaches the server.                 *)
TorFetch(t) ==
  /\ stage[t] = "sending"
  /\ line[Current(t)] = "none"
  /\ stage' = [stage EXCEPT ![t] = "answer"]
  /\ line' = [line EXCEPT ![Current(t)] = "open"]
  /\ Server!Ask(Current(t)) /\ ask'[Current(t)] = token[t]
  /\ UNCHANGED <<token, handed, tries, reply, shown>>

(* It does not get that far: there is no Tor process, its proxy does not   *)
(* answer, or the request cannot be written.                               *)
TorFetchFails(t) ==
  /\ stage[t] = "sending"
  /\ Retry(t)
  /\ UNCHANGED <<token, handed, line, shown, server>>

(* The server, with the attempts that reached it and were not refused: an  *)
(* answer is recorded, or turns up though its request was killed; both may *)
(* happen after the client lost the connection.                            *)
Record(a) ==
  /\ line[a] \in {"open", "cut"}
  /\ Server!Commit(a)
  /\ UNCHANGED <<client, line>>

RecordStray(a) ==
  /\ line[a] \in {"refused", "cut"}
  /\ Server!Stray(a)
  /\ UNCHANGED <<client, line>>

Answer(a) ==
  /\ line[a] = "open"
  /\ Server!Deliver(a)
  /\ line' = [line EXCEPT ![a] = "answered"]
  /\ UNCHANGED client

(* An error status, or a verdict: blocked, too long.  Only some statuses   *)
(* (408, 409, 429 and from 500 on) are worth another try to the client;    *)
(* the verdicts come with status 200.                                      *)
Refuse(t) ==
  LET a == Current(t) IN
  /\ stage[t] = "answer" /\ line[a] = "open" /\ a \notin committed
  /\ line' = [line EXCEPT ![a] = "refused"]
  /\ Retry(t) \/ Fails(t)
  /\ UNCHANGED <<token, handed, shown, server>>

(* The request's 'error' event; the answer may be under way. *)
Cut(t) ==
  LET a == Current(t) IN
  /\ stage[t] = "answer" /\ line[a] \in {"open", "answered"}
  /\ line' = [line EXCEPT ![a] = "cut"]
  /\ Retry(t)
  /\ UNCHANGED <<token, handed, shown, server>>

(* LLMProxy returns the answer and the page adds its first choice to the   *)
(* chat; what the vendor said may be an error that has no choices.         *)
GotAnswer(t) ==
  LET a == Current(t) IN
  /\ stage[t] = "answer" /\ line[a] = "answered"
  /\ stage' = [stage EXCEPT ![t] = "over"]
  /\ \E r \in {source[a], Failure} : reply' = [reply EXCEPT ![t] = r]
  /\ UNCHANGED <<token, handed, tries, line, shown, server>>

Done == (\A t \in Turns : stage[t] = "over") /\ UNCHANGED vars

Next ==
  \/ \E t \in Turns :
       \/ SendMessage(t) \/ GotToken(t) \/ NoToken(t)
       \/ TorFetch(t) \/ TorFetchFails(t)
       \/ Refuse(t) \/ Cut(t) \/ GotAnswer(t)
  \/ \E a \in Attempts : Record(a) \/ RecordStray(a) \/ Answer(a)
  \/ Done

(* What is fair: generate-token answers (its requests end), an attempt is  *)
(* made or fails, and is answered, refused or cut off.  The answers that   *)
(* get lost are not owed another.                                          *)
Advance(t) ==
  \/ GotToken(t) \/ NoToken(t) \/ TorFetch(t) \/ TorFetchFails(t)
  \/ Refuse(t) \/ Cut(t) \/ GotAnswer(t)

Spec == Init /\ [][Next]_vars /\ \A t \in Turns : WF_vars(Advance(t))
-------------------------------------------------------------------------------
(* The reply a turn shows was produced for one of its own attempts: never  *)
(* for another turn's prompt, though repetitions and lost answers make the *)
(* server hand out what it recorded for an earlier attempt.                *)
RepliesAreOwn ==
  \A t \in Turns : reply[t] \in Attempts => reply[t][1] = t

(* The repetitions of a turn buy no second answer on the record: whatever  *)
(* is cut off, refused or killed half way, one of its attempts at most is  *)
(* recorded as the answer of its token in time.  (Writes of attempts that  *)
(* were killed may still land: they are the strays of TokenPromise.)       *)
TurnsBuyOnce ==
  \A a, b \in committed : a[1] = b[1] => a = b

(* Every turn ends, and the interface with it stops to be "loading".       *)
Waiting(t) == stage[t] \in {"token", "sending", "answer"}
TurnsEnd == \A t \in Turns : Waiting(t) ~> ~Waiting(t)

(* What that rests on: a step of a turn takes it closer to its end, and a  *)
(* turn that waits for an answer has a connection that can be answered,    *)
(* refused or cut.                                                         *)
Progress(t) ==
  CASE stage[t] = "over" -> 3 * MaxRetries + 4
    [] stage[t] = "idle" -> 3 * tries[t]
    [] stage[t] = "token" -> 3 * tries[t] + 1
    [] stage[t] = "sending" -> 3 * tries[t] + 2
    [] stage[t] = "answer" -> 3 * tries[t] + 3
TurnsAdvance ==
  [][\A t \in Turns : UNCHANGED <<stage[t], tries[t]>> \/ Progress(t)' > Progress(t)]_vars
AnswersAreAwaited ==
  \A t \in Turns : stage[t] = "answer" => line[Current(t)] \in {"open", "answered"}
===============================================================================
