------------------------------ MODULE Redemption ------------------------------
(***************************************************************************)
(* The redemption of auth tokens by the proxy: LLMProxy.ServeRequest of    *)
(* src/llm-proxy/llm_proxy.go, at the granularity of its network calls.    *)
(* A request presents an unblinded token and its signature; the handler    *)
(* takes the token's semaphore, reads the token's document, and either     *)
(* answers from the response cached there or has the request moderated,    *)
(* forwards it to the vendor and caches what came back.                    *)
(*                                                                         *)
(* Requests are the handler's invocations in one server process (the       *)
(* semaphores live in its memory).  Any call may fail and the client may   *)
(* leave at any moment; the database may apply an Upsert whose caller has  *)
(* given up, and may do so late.                                           *)
(***************************************************************************)
EXTENDS Naturals, FiniteSets

CONSTANTS
  Requests,   \* invocations of ServeRequest
  Tokens,     \* unblinded tokens; the key of AuthToken documents
  Bodies,     \* the HTTP bodies clients send
  Verified,   \* <<token, signature, model>> accepted by VerifyUnBlindedToken
  Offensive,  \* prompts whose worst category is above MaxOffensiveContentSeverity
  Nil,        \* "not there": no document, no response, no holder
  MaxFaults   \* bound: how many requests the environment may kill

ASSUME BodiesAssumption ==
  \A b \in Bodies : /\ DOMAIN b = {"form", "token", "sig", "model", "prompt"}
                    /\ b.form \in {"ok", "oversized", "malformed"}
                    /\ b.token \in Tokens
ASSUME RequestsAssumption == IsFiniteSet(Requests)
ASSUME FaultsAssumption == MaxFaults \in Nat

VARIABLES
  pc,         \* where each request is in ServeRequest
  body,       \* what it carries
  lock,       \* lock[t]: the holder of semaphore "auth-token-" + t
  tokenDoc,   \* tokenDoc[t]: the AuthToken document in the database
  draft,      \* the handler's local authToken
  answer,     \* the LLMProxyResponse it returned
  forwarded,  \* history: requests whose prompt went to the vendor
  write,      \* history: what became of the request's Upsert
  faults      \* requests killed so far

vars == <<pc, body, lock, tokenDoc, draft, answer, forwarded, write, faults>>

Hash(b) == <<b.token, b.sig, b.model>>
Hashes == {Hash(b) : b \in Bodies}
Responses == [kind : {"reply", "blocked", "oversized"}, by : Requests]
Docs == [hash : Hashes, resp : Responses \cup {Nil}, expired : BOOLEAN]

ASSUME NilAssumption ==
  Nil \notin Requests \cup Bodies \cup Responses \cup Docs /\ Nil \notin Hashes

Ended == {"answered", "failed"}
Holding == {"fetching", "decrypting", "moderating", "forwarding", "awaiting",
            "wrapping", "saving", "replying"}
InFlight == Holding \cup {"locking"}

Tok(r) == body[r].token
Stored(t) == tokenDoc[t] # Nil
Pending(r) == pc[r] \in InFlight
Unsettled(t) == \E r \in Requests : body[r] # Nil /\ Tok(r) = t /\ (Pending(r) \/ write[r] = "late")

-------------------------------------------------------------------------------

Init ==
  /\ pc = [r \in Requests |-> "idle"]
  /\ body = [r \in Requests |-> Nil]
  /\ lock = [t \in Tokens |-> Nil]
  /\ tokenDoc = [t \in Tokens |-> Nil]
  /\ draft = [r \in Requests |-> Nil]
  /\ answer = [r \in Requests |-> Nil]
  /\ forwarded = {}
  /\ write = [r \in Requests |-> "none"]
  /\ faults = 0

Acceptable(b) == b.form = "ok" /\ <<b.token, b.sig, b.model>> \in Verified

(* Seeded fault: the semaphore's limit is not enforced.                    *)
FreeForAll(t) == t \in Tokens
Free(t) == lock[t] = Nil

ReleasedBy(R) == [t \in Tokens |-> IF lock[t] \in R THEN Nil ELSE lock[t]]
Respond(r, resp) == answer' = [answer EXCEPT ![r] = resp]
Goto(r, l) == pc' = [pc EXCEPT ![r] = l]
Return(r, l) == Goto(r, l) /\ lock' = ReleasedBy({r})

(* ReadAll to VerifyUnBlindedToken: nothing shared is touched yet, and an  *)
(* oversized body is refused before the token in it is looked at.          *)
Arrive(r) ==
  /\ pc[r] = "idle"
  /\ \E b \in Bodies :
       /\ body' = [body EXCEPT ![r] = b]
       /\ \/ /\ b.form = "oversized"
             /\ Goto(r, "answered")
             /\ Respond(r, [kind |-> "oversized", by |-> r])
          \/ /\ b.form # "oversized"
             /\ Goto(r, IF Acceptable(b) THEN "locking" ELSE "failed")
             /\ UNCHANGED answer
  /\ UNCHANGED <<lock, tokenDoc, draft, forwarded, write, faults>>

Lock(r) ==
  /\ pc[r] = "locking"
  /\ Free(Tok(r))
  /\ lock' = [lock EXCEPT ![Tok(r)] = r]
  /\ Goto(r, "fetching")
  /\ UNCHANGED <<body, tokenDoc, draft, answer, forwarded, write, faults>>

(* Seeded faults: a fresh document expires at once; the cached response is *)
(* not looked at.                                                          *)
ExpiredDoc(b) == [hash |-> Hash(b), resp |-> Nil, expired |-> TRUE]
ResumeUncached(doc) == IF doc.expired THEN "decrypting" ELSE "moderating"

FreshDoc(b) == [hash |-> Hash(b), resp |-> Nil, expired |-> FALSE]
Usable(doc, b) == ~doc.expired /\ doc.hash = Hash(b)
Resume(doc) == IF doc.resp # Nil THEN "decrypting" ELSE "moderating"

(* Seeded fault: a refused document is fetched again and again.            *)
FetchRetrying(r) ==
  /\ pc[r] = "fetching"
  /\ LET doc == IF tokenDoc[Tok(r)] = Nil THEN FreshDoc(body[r]) ELSE tokenDoc[Tok(r)] IN
       \/ /\ Usable(doc, body[r])
          /\ draft' = [draft EXCEPT ![r] = doc]
          /\ Goto(r, Resume(doc))
          /\ UNCHANGED lock
       \/ /\ ~Usable(doc, body[r])
          /\ Return(r, "locking")
          /\ UNCHANGED draft
  /\ UNCHANGED <<body, tokenDoc, answer, forwarded, write, faults>>

Fetch(r) ==
  /\ pc[r] = "fetching"
  /\ LET doc == IF tokenDoc[Tok(r)] = Nil THEN FreshDoc(body[r]) ELSE tokenDoc[Tok(r)] IN
       \/ /\ Usable(doc, body[r])
          /\ draft' = [draft EXCEPT ![r] = doc]
          /\ Goto(r, Resume(doc))
          /\ UNCHANGED lock
       \/ /\ ~Usable(doc, body[r])
          /\ Return(r, "failed")
          /\ UNCHANGED draft
  /\ UNCHANGED <<body, tokenDoc, answer, forwarded, write, faults>>

Decrypt(r) ==
  /\ pc[r] = "decrypting"
  /\ Goto(r, "replying")
  /\ UNCHANGED <<body, lock, tokenDoc, draft, answer, forwarded, write, faults>>

Moderate(r) ==
  /\ pc[r] = "moderating"
  /\ \/ /\ body[r].prompt \in Offensive
        /\ draft' = [draft EXCEPT ![r].resp = [kind |-> "blocked", by |-> r]]
        /\ Goto(r, "wrapping")
     \/ /\ body[r].prompt \notin Offensive
        /\ Goto(r, "forwarding")
        /\ UNCHANGED draft
  /\ UNCHANGED <<body, lock, tokenDoc, answer, forwarded, write, faults>>

Forward(r) ==
  /\ pc[r] = "forwarding"
  /\ forwarded' = forwarded \cup {r}
  /\ Goto(r, "awaiting")
  /\ UNCHANGED <<body, lock, tokenDoc, draft, answer, write, faults>>

(* Whatever the vendor's status code, its body becomes the response.       *)
Receive(r) ==
  /\ pc[r] = "awaiting"
  /\ draft' = [draft EXCEPT ![r].resp = [kind |-> "reply", by |-> r]]
  /\ Goto(r, "wrapping")
  /\ UNCHANGED <<body, lock, tokenDoc, answer, forwarded, write, faults>>

(* Seeded fault: the client is answered before the response is cached.     *)
WrapUnsaved(r) ==
  /\ pc[r] = "wrapping"
  /\ Goto(r, "replying")
  /\ UNCHANGED <<body, lock, tokenDoc, draft, answer, forwarded, write, faults>>

Wrap(r) ==
  /\ pc[r] = "wrapping"
  /\ Goto(r, "saving")
  /\ UNCHANGED <<body, lock, tokenDoc, draft, answer, forwarded, write, faults>>

Store(r) == tokenDoc' = [tokenDoc EXCEPT ![Tok(r)] = draft[r]]

Save(r) ==
  /\ pc[r] = "saving"
  /\ Store(r)
  /\ write' = [write EXCEPT ![r] = "saved"]
  /\ Goto(r, "replying")
  /\ UNCHANGED <<body, lock, draft, answer, forwarded, faults>>

Reply(r) ==
  /\ pc[r] = "replying"
  /\ Respond(r, draft[r].resp)
  /\ Return(r, "answered")
  /\ UNCHANGED <<body, tokenDoc, draft, forwarded, write, faults>>

(* An error return from any of the calls, or the client going away, which  *)
(* cancels the context of the call that is running.  An Upsert given up on *)
(* may still be on its way to the database.                                *)
Abort(r) ==
  /\ Pending(r) /\ pc[r] # "replying"
  /\ faults < MaxFaults
  /\ faults' = faults + 1
  /\ Return(r, "failed")
  /\ \/ UNCHANGED write
     \/ pc[r] = "saving" /\ write' = [write EXCEPT ![r] = "late"]
  /\ UNCHANGED <<body, tokenDoc, draft, answer, forwarded>>

(* The database applied the Upsert and only its response was lost.         *)
SaveUnreported(r) ==
  /\ pc[r] = "saving"
  /\ faults < MaxFaults
  /\ faults' = faults + 1
  /\ Store(r)
  /\ write' = [write EXCEPT ![r] = "saved"]
  /\ Return(r, "failed")
  /\ UNCHANGED <<body, draft, answer, forwarded>>

LandLate(r) ==
  /\ write[r] = "late"
  /\ Store(r)
  /\ write' = [write EXCEPT ![r] = "landed"]
  /\ UNCHANGED <<pc, body, lock, draft, answer, forwarded, faults>>

(* Seeded fault: the clean-up job of the TODO at models/auth_token.go:19   *)
(* empties an expired document instead of leaving it be.                   *)
ExpireEmptying(t) ==
  /\ Stored(t) /\ ~tokenDoc[t].expired
  /\ ~Unsettled(t)
  /\ tokenDoc' = [tokenDoc EXCEPT ![t].expired = TRUE, ![t].resp = Nil]
  /\ UNCHANGED <<pc, body, lock, draft, answer, forwarded, write, faults>>

(* Five days pass: far longer than any request on the token is in flight.  *)
Expire(t) ==
  /\ Stored(t) /\ ~tokenDoc[t].expired
  /\ ~Unsettled(t)
  /\ tokenDoc' = [tokenDoc EXCEPT ![t].expired = TRUE]
  /\ UNCHANGED <<pc, body, lock, draft, answer, forwarded, write, faults>>

(* The process dies and with it every request and semaphore in it.         *)
Restart ==
  LET lost == {r \in Requests : Pending(r)} IN
  /\ lost # {}
  /\ faults + Cardinality(lost) <= MaxFaults
  /\ faults' = faults + Cardinality(lost)
  /\ pc' = [r \in Requests |-> IF r \in lost THEN "failed" ELSE pc[r]]
  /\ lock' = [t \in Tokens |-> Nil]
  /\ \E L \in SUBSET {r \in lost : pc[r] = "saving"} :
       write' = [r \in Requests |-> IF r \in L THEN "late" ELSE write[r]]
  /\ UNCHANGED <<body, tokenDoc, draft, answer, forwarded>>

Step(r) ==
  \/ Fetch(r) \/ Decrypt(r) \/ Moderate(r) \/ Forward(r)
  \/ Receive(r) \/ Wrap(r) \/ Save(r) \/ Reply(r)

AllEnded == \A r \in Requests : pc[r] \in Ended
Done == AllEnded /\ UNCHANGED vars

Next ==
  \/ \E r \in Requests :
       \/ Arrive(r) \/ Lock(r) \/ Step(r)
       \/ Abort(r) \/ SaveUnreported(r) \/ LandLate(r)
  \/ \E t \in Tokens : Expire(t)
  \/ Restart
  \/ Done

Spec == Init /\ [][Next]_vars

(* Each call the handler makes ends one way or the other, and the          *)
(* semaphore is handed over in arrival order (semaphore.Weighted).         *)
Fairness ==
  \A r \in Requests : WF_vars(Step(r)) /\ SF_vars(Lock(r))

FairSpec == Spec /\ Fairness

-------------------------------------------------------------------------------

Asked(t) == {r \in Requests : body[r] # Nil /\ body[r].form = "ok" /\ Tok(r) = t}
Answered(t) == {r \in Asked(t) : pc[r] = "answered"}
Landed(t) == \E r \in Asked(t) : write[r] = "landed"

(* Every variable has the shape the code gives it.                         *)
TypeOK ==
  /\ pc \in [Requests -> InFlight \cup Ended \cup {"idle"}]
  /\ body \in [Requests -> Bodies \cup {Nil}]
  /\ lock \in [Tokens -> Requests \cup {Nil}]
  /\ tokenDoc \in [Tokens -> Docs \cup {Nil}]
  /\ draft \in [Requests -> Docs \cup {Nil}]
  /\ answer \in [Requests -> Responses \cup {Nil}]
  /\ \A r \in Requests : (pc[r] = "answered") <=> (answer[r] # Nil)
  /\ forwarded \in SUBSET Requests
  /\ write \in [Requests -> {"none", "saved", "late", "landed"}]
  /\ faults \in Nat

(* A token buys one vendor call: of two requests whose prompts were sent   *)
(* to the vendor on one token, at least one was killed before it could     *)
(* answer its client.  ServeRequest's semaphore and cached response.       *)
SingleUse ==
  \A r, q \in forwarded :
    (r # q /\ Tok(r) = Tok(q)) => (pc[r] = "failed" \/ pc[q] = "failed")

(* A token's answer is recorded in time by one request at most, however    *)
(* many present it, are killed and are repeated: the semaphore covers the  *)
(* Fetch and the Upsert of one handler, and a stored document is reused.   *)
SavedOnce ==
  \A r, q \in Requests :
    (write[r] = "saved" /\ write[q] = "saved" /\ Tok(r) = Tok(q)) => r = q

(* All clients answered on one token got the same answer, the one recorded *)
(* in its document, unless an Upsert given up on landed late.  This is     *)
(* what makes a retry after a lost reply harmless (models/auth_token.go,   *)
(* CachedResponse).                                                        *)
AnswersAgree ==
  \A t \in Tokens : ~Landed(t) =>
    \A r \in Answered(t) : Stored(t) /\ tokenDoc[t].resp = answer[r]

(* Even when late writes land, a client is never given an answer fetched   *)
(* for a request with another RequestHash.                                 *)
AnswerMatchesHash ==
  \A t \in Tokens : \A r \in Answered(t) :
    \E q \in Asked(t) : answer[r].by = q /\ Hash(body[q]) = Hash(body[r])

(* A client that repeats one acceptable request has it answered once it    *)
(* tries more often than the environment kills its attempts (unless the    *)
(* token's document expired in between): no partial failure, at whatever   *)
(* point of the handler, leaves the token unusable.                        *)
RetriesSucceed ==
  (/\ AllEnded
   /\ Cardinality(Requests) > MaxFaults
   /\ \A r \in Requests : Acceptable(body[r])
   /\ \A r, q \in Requests : Hash(body[r]) = Hash(body[q]))
  => \E r \in Requests : \/ pc[r] = "answered"
                         \/ Stored(Tok(r)) /\ tokenDoc[Tok(r)].expired

(* Once spent a token stays spent for the same request and the same        *)
(* answer; only an Upsert given up on can still replace them.              *)
SpentForGood ==
  [][\A t \in Tokens : Stored(t) =>
       \/ Stored(t)' /\ tokenDoc'[t].hash = tokenDoc[t].hash
                     /\ tokenDoc'[t].resp = tokenDoc[t].resp
       \/ Landed(t)']_vars

(* Every request that arrives is answered or refused, whatever dies while  *)
(* it waits for the token's semaphore.                                     *)
EveryRequestEnds ==
  \A r \in Requests : (pc[r] = "locking") ~> (pc[r] \in Ended)

(* What that rests on: no request is at any point of the handler twice,    *)
(* and a semaphore that is taken is taken by a request at work under it.   *)
Position ==
  [idle |-> 0, locking |-> 1, fetching |-> 2, decrypting |-> 3, moderating |-> 3, forwarding |-> 4,
   awaiting |-> 5, wrapping |-> 6, saving |-> 7, replying |-> 8, answered |-> 9, failed |-> 9]
RequestsAdvance ==
  [][\A r \in Requests : pc'[r] = pc[r] \/ Position[pc'[r]] > Position[pc[r]]]_vars
HoldersAtWork ==
  \A t \in Tokens : lock[t] # Nil =>
    lock[t] \in Requests /\ pc[lock[t]] \in Holding /\ Tok(lock[t]) = t

(* The handler implements the abstract promise: every step commits, leaves *)
(* a stray answer, delivers, or is not visible to it.                      *)
TokenOf(h) == h[1]
IsAsk(b) == b # Nil /\ b.form = "ok"

Promise == INSTANCE TokenPromise WITH
  ask <- [r \in Requests |-> IF IsAsk(body[r]) THEN Hash(body[r]) ELSE Nil],
  committed <- {r \in Requests : write[r] = "saved"},
  stray <- {r \in Requests : write[r] = "landed"},
  source <- [r \in Requests |-> IF pc[r] = "answered" /\ IsAsk(body[r])
                                THEN answer[r].by ELSE Nil]

KeepsPromise == Promise!Spec
===============================================================================
