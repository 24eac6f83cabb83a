--------------------------- MODULE RedemptionProofs ---------------------------
(***************************************************************************)
(* Proofs about Redemption, for every set of requests, tokens and bodies   *)
(* and any number of faults.  The inductive invariant IInv says what the   *)
(* token's semaphore protects: between its Fetch and its Upsert a handler  *)
(* that missed the cache (Missed) can rely on no other request having      *)
(* saved an answer, and whatever is in a document, a draft or an answer    *)
(* was written by a request with the same hash.  That repetitions succeed  *)
(* is a matter of counting (RetryInv): what fails has a lasting reason or  *)
(* has cost the environment a fault.  The last section is about progress:  *)
(* a request goes one way, and a semaphore is held by one at work.         *)
(***************************************************************************)
EXTENDS Redemption, FiniteSetTheorems, TLAPS

Missed == {"moderating", "forwarding", "awaiting", "wrapping", "saving"}
Wrote(q) == write[q] \in {"saved", "landed"}

(* resp is the recorded answer of a request with hash h. *)
Recorded(resp, h) ==
  /\ resp \in Responses
  /\ body[resp.by] # Nil /\ Hash(body[resp.by]) = h
  /\ Wrote(resp.by) /\ draft[resp.by].resp = resp

BodyInv ==
  \A r \in Requests :
    /\ (body[r] = Nil) <=> (pc[r] = "idle")
    /\ (Pending(r) \/ write[r] # "none") => body[r].form = "ok"
    /\ (pc[r] = "answered" /\ body[r].form # "ok") => body[r].form = "oversized"

LockInv ==
  \A r \in Requests : pc[r] \in Holding => lock[Tok(r)] = r

WriteInv ==
  \A r \in Requests :
    /\ write[r] # "none" => /\ pc[r] \in {"replying"} \cup Ended
                            /\ draft[r] \in Docs
                            /\ draft[r].hash = Hash(body[r])
                            /\ draft[r].resp \in Responses
                            /\ draft[r].resp.by = r
    /\ write[r] \in {"late", "landed"} => pc[r] = "failed"
    /\ Wrote(r) => Stored(Tok(r))

DocInv ==
  \A t \in Tokens : Stored(t) =>
    /\ Recorded(tokenDoc[t].resp, tokenDoc[t].hash)
    /\ tokenDoc[t].hash[1] = t

DraftInv ==
  \A r \in Requests :
    /\ pc[r] \in Missed \cup {"decrypting", "replying"} =>
         draft[r] \in Docs /\ draft[r].hash = Hash(body[r])
    /\ pc[r] \in {"moderating", "forwarding", "awaiting"} => draft[r].resp = Nil
    /\ pc[r] \in {"wrapping", "saving"} => draft[r].resp \in Responses /\ draft[r].resp.by = r
    /\ pc[r] \in {"decrypting", "replying"} => Recorded(draft[r].resp, Hash(body[r]))

FreshInv ==
  \A r \in Requests : pc[r] \in Missed =>
    /\ \A q \in Requests : (write[q] = "saved") => Tok(q) # Tok(r)
    /\ Stored(Tok(r)) => Landed(Tok(r))

ForwardInv ==
  \A r \in forwarded :
    /\ pc[r] \in {"awaiting", "wrapping", "saving", "replying"} \cup Ended
    /\ pc[r] \in {"replying", "answered"} => write[r] = "saved"

AnswerInv ==
  \A r \in Requests :
    (pc[r] = "answered" /\ body[r].form = "ok") => Recorded(answer[r], Hash(body[r]))

IInv ==
  /\ TypeOK
  /\ BodyInv
  /\ LockInv
  /\ WriteInv
  /\ DocInv
  /\ DraftInv
  /\ FreshInv
  /\ SavedOnce
  /\ ForwardInv
  /\ AnswerInv

-------------------------------------------------------------------------------

THEOREM InitIInv == Init => IInv
  <1> SUFFICES ASSUME Init PROVE IInv
    OBVIOUS
  <1> USE NilAssumption, FaultsAssumption DEF Init
  <1>1. TypeOK
    BY DEF TypeOK
  <1>2. BodyInv /\ LockInv /\ WriteInv
    BY DEF BodyInv, LockInv, WriteInv, Pending, InFlight, Holding, Wrote
  <1>3. DocInv /\ DraftInv /\ FreshInv
    BY DEF DocInv, DraftInv, FreshInv, Stored, Missed
  <1>4. SavedOnce /\ ForwardInv /\ AnswerInv
    BY DEF SavedOnce, ForwardInv, AnswerInv
  <1> QED BY <1>1, <1>2, <1>3, <1>4 DEF IInv

LEMMA ArriveInv ==
  ASSUME IInv, NEW r \in Requests, Arrive(r) PROVE IInv'
  <1> USE NilAssumption DEF Arrive, IInv
  <1> PICK b \in Bodies :
        /\ body' = [body EXCEPT ![r] = b]
        /\ \/ /\ b.form = "oversized"
              /\ Goto(r, "answered")
              /\ Respond(r, [kind |-> "oversized", by |-> r])
           \/ /\ b.form # "oversized"
              /\ Goto(r, IF Acceptable(b) THEN "locking" ELSE "failed")
              /\ UNCHANGED answer
    OBVIOUS
  <1>1. TypeOK'
    BY DEF TypeOK, Goto, Respond, Responses, InFlight, Ended
  <1>2. BodyInv'
    BY DEF BodyInv, TypeOK, WriteInv, Goto, Respond, Acceptable, Pending, InFlight, Holding, Ended
  <1>3. LockInv' /\ WriteInv'
    BY DEF LockInv, WriteInv, BodyInv, TypeOK, Goto, Holding, Ended, Wrote, Stored, Tok
  <1> DEFINE Same(q) == body'[q] = body[q] /\ pc'[q] = pc[q] /\ answer'[q] = answer[q]
  <1>4. \A q \in Requests \ {r} : Same(q)
    BY DEF TypeOK, Goto, Respond
  <1>5. pc[r] = "idle" /\ body[r] = Nil /\ write[r] = "none"
    BY DEF BodyInv, WriteInv, TypeOK, Ended
  <1>6. \A resp, h : Recorded(resp, h) => Recorded(resp, h)'
    BY <1>4, <1>5 DEF Recorded, Wrote, Responses
  <1>7. pc'[r] \in {"answered", "locking", "failed"}
    BY DEF TypeOK, Goto
  <1>8. DocInv'
    BY <1>6 DEF DocInv, Stored
  <1>9. DraftInv'
    BY <1>4, <1>6, <1>7 DEF DraftInv, Missed
  <1>10. FreshInv'
    BY <1>4, <1>5, <1>7 DEF FreshInv, Missed, Stored, Landed, Asked, Tok
  <1>11. SavedOnce' /\ ForwardInv'
    BY <1>4, <1>5, <1>7 DEF SavedOnce, ForwardInv, Tok, Ended, TypeOK
  <1>12. AnswerInv'
    BY <1>4, <1>6, <1>7 DEF AnswerInv, TypeOK, Goto, Acceptable
  <1> QED BY <1>1, <1>2, <1>3, <1>8, <1>9, <1>10, <1>11, <1>12
(* What is recorded stays so as long as requests keep their bodies, and    *)
(* those whose answer was written keep it.                                 *)
LEMMA RecordedStable ==
  ASSUME body' = body,
         \A q \in Requests : Wrote(q) => Wrote(q)' /\ draft'[q] = draft[q],
         NEW resp, NEW h, Recorded(resp, h)
  PROVE  Recorded(resp, h)'
  BY DEF Recorded, Responses

LEMMA LockStep ==
  ASSUME IInv, NEW r \in Requests, Lock(r) PROVE IInv'
  <1> USE DEF Lock, IInv
  <1>1. TypeOK' /\ BodyInv'
    BY DEF TypeOK, BodyInv, Goto, InFlight, Holding, Pending, Ended
  <1>2. LockInv'
    BY NilAssumption, BodiesAssumption
    DEF LockInv, BodyInv, TypeOK, Free, Goto, Tok, Holding, Pending, InFlight
  <1>3. \A q \in Requests \ {r} : pc'[q] = pc[q]
    BY DEF TypeOK, Goto
  <1>4. pc'[r] = "fetching"
    BY DEF TypeOK, Goto
  <1>5. WriteInv' /\ DocInv'
    BY <1>3, <1>4, RecordedStable DEF WriteInv, DocInv, Wrote, Stored, Ended, Tok
  <1>6. DraftInv'
    BY <1>3, <1>4, RecordedStable DEF DraftInv, Missed, Wrote
  <1>7. FreshInv'
    BY <1>3, <1>4 DEF FreshInv, Missed, Tok, Landed, Asked, Stored
  <1>8. SavedOnce' /\ ForwardInv'
    BY <1>3, <1>4 DEF SavedOnce, ForwardInv, Ended, Tok, TypeOK
  <1>9. AnswerInv'
    BY <1>3, <1>4, RecordedStable DEF AnswerInv, Wrote
  <1> QED BY <1>1, <1>2, <1>5, <1>6, <1>7, <1>8, <1>9

LEMMA FetchStep ==
  ASSUME IInv, NEW r \in Requests, Fetch(r) PROVE IInv'
  <1> USE DEF IInv
  <1> DEFINE t == Tok(r)
             doc == IF tokenDoc[t] = Nil THEN FreshDoc(body[r]) ELSE tokenDoc[t]
  <1>1. /\ pc[r] = "fetching" /\ body[r] \in Bodies /\ t \in Tokens /\ lock[t] = r
        /\ body[r].form = "ok" /\ write[r] = "none"
    BY BodiesAssumption DEF Fetch, BodyInv, LockInv, WriteInv, TypeOK, Tok, Holding, InFlight, Pending, Ended
  <1>2. Hash(body[r]) \in Hashes /\ Hash(body[r])[1] = t
    BY <1>1 DEF Hashes, Hash, Tok
  <1>3. doc \in Docs
    BY <1>1, <1>2 DEF FreshDoc, Docs, TypeOK
  <1>4. doc.resp # Nil => Recorded(doc.resp, doc.hash) /\ Stored(t)
    BY <1>1 DEF FreshDoc, DocInv, Stored
  <1>5. doc.resp = Nil => ~Stored(t)
    BY <1>1, NilAssumption DEF DocInv, Stored, Recorded
  <1>6. /\ UNCHANGED <<body, tokenDoc, answer, forwarded, write, faults>>
        /\ \A q \in Requests \ {r} : pc'[q] = pc[q] /\ draft'[q] = draft[q]
        /\ \A q \in Requests \ {r} : \A u \in Tokens : lock[u] = q => lock'[u] = q
    BY DEF Fetch, Goto, Return, ReleasedBy, TypeOK
  <1>7. \/ /\ pc'[r] = Resume(doc) /\ draft'[r] = doc /\ lock' = lock
           /\ doc.hash = Hash(body[r])
        \/ pc'[r] = "failed" /\ draft'[r] = draft[r]
    BY DEF Fetch, Goto, Return, TypeOK, Usable
  <1>8. \A q \in Requests : Wrote(q) => Wrote(q)' /\ draft'[q] = draft[q]
    BY <1>1, <1>6 DEF Wrote
  <1>9. TypeOK'
    BY <1>1, <1>3 DEF TypeOK, Fetch, Goto, Return, ReleasedBy, Resume, InFlight, Holding, Ended
  <1>10. BodyInv'
    BY <1>1, <1>6, <1>7 DEF BodyInv, Resume, InFlight, Holding, Pending, Ended
  <1>11. LockInv'
    BY <1>1, <1>6, <1>7, BodiesAssumption, NilAssumption DEF LockInv, BodyInv, TypeOK, Tok, Holding, Resume
  <1>12. WriteInv'
    BY <1>1, <1>6, <1>8 DEF WriteInv, Stored, Tok, Wrote
  <1>13. DocInv'
    BY <1>6, <1>8, RecordedStable DEF DocInv, Stored
  <1>14. DraftInv'
    BY <1>1, <1>3, <1>4, <1>6, <1>7, <1>8, RecordedStable DEF DraftInv, Missed, Resume
  <1>15. FreshInv'
    BY <1>1, <1>5, <1>6, <1>7 DEF FreshInv, WriteInv, Wrote, Missed, Tok, Landed, Asked, Stored, Resume
  <1>16. SavedOnce' /\ ForwardInv'
    BY <1>1, <1>6, <1>7 DEF SavedOnce, ForwardInv, Ended, Tok, TypeOK
  <1>17. AnswerInv'
    BY <1>6, <1>7, <1>8, RecordedStable DEF AnswerInv, Resume
  <1> QED BY <1>9, <1>10, <1>11, <1>12, <1>13, <1>14, <1>15, <1>16, <1>17
LEMMA DecryptStep ==
  ASSUME IInv, NEW r \in Requests, Decrypt(r) PROVE IInv'
  <1> USE DEF IInv, Decrypt
  <1>1. pc[r] = "decrypting" /\ pc'[r] = "replying" /\ \A q \in Requests \ {r} : pc'[q] = pc[q]
    BY DEF TypeOK, Goto
  <1>2. TypeOK' /\ BodyInv'
    BY DEF TypeOK, BodyInv, Goto, InFlight, Holding, Pending, Ended
  <1>3. LockInv' /\ WriteInv'
    BY <1>1 DEF LockInv, WriteInv, Tok, Holding, Stored, Wrote, Ended
  <1>4. DocInv' /\ DraftInv' /\ AnswerInv'
    BY <1>1, RecordedStable DEF DocInv, DraftInv, AnswerInv, Stored, Wrote, Missed
  <1>5. FreshInv'
    BY <1>1 DEF FreshInv, Missed, Tok, Landed, Asked, Stored
  <1>6. SavedOnce' /\ ForwardInv'
    BY <1>1 DEF SavedOnce, ForwardInv, Tok, Ended, TypeOK
  <1> QED BY <1>2, <1>3, <1>4, <1>5, <1>6

LEMMA ModerateStep ==
  ASSUME IInv, NEW r \in Requests, Moderate(r) PROVE IInv'
  <1> USE DEF IInv
  <1>1. /\ UNCHANGED <<body, lock, tokenDoc, answer, forwarded, write, faults>>
        /\ pc[r] = "moderating" /\ pc'[r] \in {"wrapping", "forwarding"}
        /\ \A q \in Requests \ {r} : pc'[q] = pc[q] /\ draft'[q] = draft[q]
    BY DEF Moderate, TypeOK, Goto
  <1>2. write[r] = "none" /\ draft[r] \in Docs /\ draft[r].hash = Hash(body[r])
    BY <1>1 DEF WriteInv, DraftInv, TypeOK, Ended, Missed
  <1>3. /\ draft'[r] \in Docs /\ draft'[r].hash = Hash(body[r])
        /\ pc'[r] = "forwarding" => draft'[r].resp = Nil
        /\ pc'[r] = "wrapping" => draft'[r].resp \in Responses /\ draft'[r].resp.by = r
    BY <1>1, <1>2 DEF Moderate, Goto, TypeOK, DraftInv, Docs, Responses
  <1>4. \A q \in Requests : Wrote(q) => Wrote(q)' /\ draft'[q] = draft[q]
    BY <1>1, <1>2 DEF Wrote
  <1>5. TypeOK' /\ BodyInv'
    BY <1>1, <1>3 DEF Moderate, TypeOK, BodyInv, Goto, InFlight, Holding, Pending, Ended
  <1>6. LockInv' /\ WriteInv'
    BY <1>1, <1>2 DEF LockInv, WriteInv, Tok, Holding, Stored, Wrote, Ended
  <1>7. DocInv' /\ AnswerInv'
    BY <1>1, <1>4, RecordedStable DEF DocInv, AnswerInv, Stored
  <1>8. DraftInv'
    BY <1>1, <1>3, <1>4, RecordedStable DEF DraftInv, Missed
  <1>9. FreshInv'
    BY <1>1 DEF FreshInv, Missed, Tok, Landed, Asked, Stored
  <1>10. SavedOnce' /\ ForwardInv'
    BY <1>1 DEF SavedOnce, ForwardInv, Tok, Ended, TypeOK
  <1> QED BY <1>5, <1>6, <1>7, <1>8, <1>9, <1>10

LEMMA ForwardStep ==
  ASSUME IInv, NEW r \in Requests, Forward(r) PROVE IInv'
  <1> USE DEF IInv, Forward
  <1>1. pc[r] = "forwarding" /\ pc'[r] = "awaiting" /\ \A q \in Requests \ {r} : pc'[q] = pc[q]
    BY DEF TypeOK, Goto
  <1>2. TypeOK' /\ BodyInv'
    BY DEF TypeOK, BodyInv, Goto, InFlight, Holding, Pending, Ended
  <1>3. LockInv' /\ WriteInv'
    BY <1>1 DEF LockInv, WriteInv, Tok, Holding, Stored, Wrote, Ended
  <1>4. DocInv' /\ DraftInv' /\ AnswerInv'
    BY <1>1, RecordedStable DEF DocInv, DraftInv, AnswerInv, Stored, Wrote, Missed
  <1>5. FreshInv'
    BY <1>1 DEF FreshInv, Missed, Tok, Landed, Asked, Stored
  <1>6. SavedOnce' /\ ForwardInv'
    BY <1>1 DEF SavedOnce, ForwardInv, Tok, Ended, TypeOK
  <1> QED BY <1>2, <1>3, <1>4, <1>5, <1>6

LEMMA ReceiveStep ==
  ASSUME IInv, NEW r \in Requests, Receive(r) PROVE IInv'
  <1> USE DEF IInv, Receive
  <1>1. /\ pc[r] = "awaiting" /\ pc'[r] = "wrapping"
        /\ \A q \in Requests \ {r} : pc'[q] = pc[q] /\ draft'[q] = draft[q]
    BY DEF TypeOK, Goto
  <1>2. write[r] = "none" /\ draft[r] \in Docs /\ draft[r].hash = Hash(body[r])
    BY <1>1 DEF WriteInv, DraftInv, TypeOK, Ended, Missed
  <1>3. /\ draft'[r] \in Docs /\ draft'[r].hash = Hash(body[r])
        /\ draft'[r].resp \in Responses /\ draft'[r].resp.by = r
    BY <1>2 DEF TypeOK, Docs, Responses
  <1>4. \A q \in Requests : Wrote(q) => Wrote(q)' /\ draft'[q] = draft[q]
    BY <1>1, <1>2 DEF Wrote
  <1>5. TypeOK' /\ BodyInv'
    BY <1>1, <1>3 DEF TypeOK, BodyInv, Goto, InFlight, Holding, Pending, Ended
  <1>6. LockInv' /\ WriteInv'
    BY <1>1, <1>2 DEF LockInv, WriteInv, Tok, Holding, Stored, Wrote, Ended
  <1>7. DocInv' /\ AnswerInv'
    BY <1>1, <1>4, RecordedStable DEF DocInv, AnswerInv, Stored
  <1>8. DraftInv'
    BY <1>1, <1>3, <1>4, RecordedStable DEF DraftInv, Missed
  <1>9. FreshInv'
    BY <1>1 DEF FreshInv, Missed, Tok, Landed, Asked, Stored
  <1>10. SavedOnce' /\ ForwardInv'
    BY <1>1 DEF SavedOnce, ForwardInv, Tok, Ended, TypeOK
  <1> QED BY <1>5, <1>6, <1>7, <1>8, <1>9, <1>10

LEMMA WrapStep ==
  ASSUME IInv, NEW r \in Requests, Wrap(r) PROVE IInv'
  <1> USE DEF IInv, Wrap
  <1>1. pc[r] = "wrapping" /\ pc'[r] = "saving" /\ \A q \in Requests \ {r} : pc'[q] = pc[q]
    BY DEF TypeOK, Goto
  <1>2. TypeOK' /\ BodyInv'
    BY DEF TypeOK, BodyInv, Goto, InFlight, Holding, Pending, Ended
  <1>3. LockInv' /\ WriteInv'
    BY <1>1 DEF LockInv, WriteInv, Tok, Holding, Stored, Wrote, Ended
  <1>4. DocInv' /\ DraftInv' /\ AnswerInv'
    BY <1>1, RecordedStable DEF DocInv, DraftInv, AnswerInv, Stored, Wrote, Missed
  <1>5. FreshInv'
    BY <1>1 DEF FreshInv, Missed, Tok, Landed, Asked, Stored
  <1>6. SavedOnce' /\ ForwardInv'
    BY <1>1 DEF SavedOnce, ForwardInv, Tok, Ended, TypeOK
  <1> QED BY <1>2, <1>3, <1>4, <1>5, <1>6
(* What Save, SaveUnreported and LandLate share: the draft of a request    *)
(* that missed the cache, which becomes the document, is well formed.      *)
LEMMA DraftToStore ==
  ASSUME IInv, NEW r \in Requests, pc[r] = "saving" \/ write[r] = "late"
  PROVE  /\ body[r] \in Bodies /\ body[r] # Nil /\ body[r].form = "ok"
         /\ Tok(r) \in Tokens /\ Hash(body[r])[1] = Tok(r)
         /\ draft[r] \in Docs /\ draft[r] # Nil /\ draft[r].hash = Hash(body[r])
         /\ draft[r].resp \in Responses /\ draft[r].resp.by = r
  <1>1. pc[r] # "idle" /\ body[r].form = "ok"
    BY DEF IInv, WriteInv, BodyInv, Ended, Pending, InFlight, Holding
  <1>2. body[r] \in Bodies /\ body[r] # Nil
    BY <1>1, NilAssumption DEF IInv, TypeOK, BodyInv
  <1>3. /\ draft[r] \in Docs /\ draft[r].hash = Hash(body[r])
        /\ draft[r].resp \in Responses /\ draft[r].resp.by = r
    BY DEF IInv, WriteInv, DraftInv, Missed
  <1> QED BY <1>1, <1>2, <1>3, BodiesAssumption, NilAssumption DEF Hash, Tok

(* A timely Upsert: what Save and SaveUnreported do before they part ways. *)
LEMMA SaveStep ==
  ASSUME IInv, NEW r \in Requests, Save(r) \/ SaveUnreported(r) PROVE IInv'
  <1> USE DEF IInv
  <1>1. /\ UNCHANGED <<body, draft, answer, forwarded>>
        /\ pc[r] = "saving" /\ pc'[r] \in {"replying", "failed"}
        /\ tokenDoc' = [tokenDoc EXCEPT ![Tok(r)] = draft[r]]
        /\ write' = [write EXCEPT ![r] = "saved"]
        /\ \A q \in Requests \ {r} : pc'[q] = pc[q] /\ write'[q] = write[q]
    BY DEF Save, SaveUnreported, Store, TypeOK, Goto, Return
  <1>2. \A q \in Requests \ {r}, u \in Tokens : lock[u] = q => lock'[u] = q
    BY DEF Save, SaveUnreported, Return, ReleasedBy, TypeOK
  <1>3. (pc'[r] = "replying") => lock' = lock
    BY DEF Save, SaveUnreported, Return, Goto, TypeOK
  <1>4. write'[r] = "saved" /\ tokenDoc'[Tok(r)] = draft[r]
    BY <1>1, DraftToStore DEF TypeOK
  <1>5. \A u \in Tokens : u # Tok(r) => tokenDoc'[u] = tokenDoc[u]
    BY <1>1 DEF TypeOK
  <1>6. \A q \in Requests : Wrote(q) => Wrote(q)' /\ draft'[q] = draft[q]
    BY <1>1, <1>4 DEF Wrote
  <1>7. Recorded(draft[r].resp, Hash(body[r]))'
    BY <1>1, <1>4, DraftToStore DEF Recorded, Wrote
  <1>8. TypeOK'
    <2>1. tokenDoc' \in [Tokens -> Docs \cup {Nil}] /\ lock' \in [Tokens -> Requests \cup {Nil}]
      BY <1>1, DraftToStore DEF TypeOK, Save, SaveUnreported, Return, ReleasedBy
    <2>2. pc' \in [Requests -> InFlight \cup Ended \cup {"idle"}]
      BY DEF TypeOK, Save, SaveUnreported, Return, Goto, InFlight, Holding, Ended
    <2>3. faults' \in Nat
      BY DEF TypeOK, Save, SaveUnreported
    <2>4. \A q \in Requests : (pc'[q] = "answered") <=> (answer'[q] # Nil)
      BY <1>1 DEF TypeOK
    <2>5. write' \in [Requests -> {"none", "saved", "late", "landed"}]
      BY <1>1 DEF TypeOK
    <2> QED BY <1>1, <2>1, <2>2, <2>3, <2>4, <2>5 DEF TypeOK
  <1>9. BodyInv'
    BY <1>1, DraftToStore DEF BodyInv, Pending, InFlight, Holding
  <1>10. LockInv'
    <2>1. \A q \in Requests \ {r} : pc[q] \in Holding => Tok(q) \in Tokens
      BY BodiesAssumption, NilAssumption
      DEF BodyInv, TypeOK, Tok, Holding
    <2> QED BY <1>1, <1>2, <1>3, <2>1 DEF LockInv, Holding, Tok
  <1>11. \A u \in Tokens : Stored(u) => Stored(u)'
    BY <1>1, <1>4, <1>5, DraftToStore DEF Stored
  <1>12. \A q \in Requests : Wrote(q) => Tok(q) \in Tokens
    BY BodiesAssumption, NilAssumption DEF WriteInv, BodyInv, TypeOK, Wrote, Tok, Ended
  <1>13. WriteInv'
    <2>1. Stored(Tok(r))'
      BY <1>1, <1>4, DraftToStore DEF Stored, Tok
    <2> QED
      BY <1>1, <1>4, <1>11, <1>12, <2>1, DraftToStore DEF WriteInv, Wrote, Ended, Tok, Stored
  <1>14. DocInv'
    BY <1>1, <1>4, <1>5, <1>6, <1>7, RecordedStable, DraftToStore DEF DocInv, Stored
  <1>15. DraftInv'
    BY <1>1, <1>6, <1>7, RecordedStable, DraftToStore DEF DraftInv, Missed
  <1>16. FreshInv'
    <2>1. \A q \in Requests \ {r} : pc[q] \in Missed => Tok(q) # Tok(r) /\ Tok(q) \in Tokens
      BY <1>1, BodiesAssumption, NilAssumption
      DEF LockInv, BodyInv, TypeOK, Tok, Missed, Holding
    <2>2. \A u : Landed(u) => Landed(u)'
      BY <1>1, DraftToStore DEF Landed, Asked, Tok, WriteInv, Ended
    <2> QED BY <1>1, <1>4, <1>5, <2>1, <2>2 DEF FreshInv, Missed, Stored, Tok
  <1>17. SavedOnce'
    BY <1>1 DEF SavedOnce, FreshInv, Missed, Tok
  <1>18. ForwardInv' /\ AnswerInv'
    BY <1>1, <1>4, <1>6, RecordedStable DEF ForwardInv, AnswerInv, Ended, TypeOK
  <1> QED BY <1>8, <1>9, <1>10, <1>13, <1>14, <1>15, <1>16, <1>17, <1>18

LEMMA LandLateStep ==
  ASSUME IInv, NEW r \in Requests, LandLate(r) PROVE IInv'
  <1> USE DEF IInv
  <1>1. /\ UNCHANGED <<pc, body, lock, draft, answer, forwarded, faults>>
        /\ write[r] = "late" /\ pc[r] = "failed"
        /\ tokenDoc' = [tokenDoc EXCEPT ![Tok(r)] = draft[r]]
        /\ write' = [write EXCEPT ![r] = "landed"]
    BY DEF LandLate, Store, WriteInv
  <1>2. /\ write'[r] = "landed" /\ tokenDoc'[Tok(r)] = draft[r]
        /\ \A q \in Requests \ {r} : write'[q] = write[q]
        /\ \A u \in Tokens : u # Tok(r) => tokenDoc'[u] = tokenDoc[u]
    BY <1>1, DraftToStore DEF TypeOK
  <1>3. \A q \in Requests : Wrote(q) => Wrote(q)' /\ draft'[q] = draft[q]
    BY <1>1, <1>2 DEF Wrote
  <1>4. Recorded(draft[r].resp, Hash(body[r]))'
    BY <1>1, <1>2, DraftToStore DEF Recorded, Wrote
  <1>5. TypeOK'
    BY <1>1, DraftToStore DEF TypeOK
  <1>6. BodyInv' /\ LockInv'
    BY <1>1, <1>2, DraftToStore DEF BodyInv, LockInv, Tok, Pending
  <1>7. \A u \in Tokens : Stored(u) => Stored(u)'
    BY <1>1, <1>2, DraftToStore DEF Stored
  <1>8. \A q \in Requests : Wrote(q) => Tok(q) \in Tokens
    BY BodiesAssumption, NilAssumption DEF WriteInv, BodyInv, TypeOK, Wrote, Tok, Ended
  <1>9. WriteInv'
    <2>1. Stored(Tok(r))'
      BY <1>1, <1>2, DraftToStore DEF Stored, Tok
    <2> QED
      BY <1>1, <1>2, <1>7, <1>8, <2>1, DraftToStore DEF WriteInv, Wrote, Ended, Tok, Stored
  <1>10. DocInv'
    BY <1>1, <1>2, <1>3, <1>4, RecordedStable, DraftToStore DEF DocInv, Stored
  <1>11. DraftInv' /\ AnswerInv'
    BY <1>1, <1>3, RecordedStable DEF DraftInv, AnswerInv
  <1>12. FreshInv'
    <2>1. Landed(Tok(r))'
      BY <1>1, <1>2, DraftToStore DEF Landed, Asked, Tok
    <2>2. \A u : Landed(u) => Landed(u)'
      BY <1>1, <1>2 DEF Landed, Asked, Tok
    <2>3. \A q \in Requests : pc[q] \in Missed => Tok(q) \in Tokens
      BY BodiesAssumption, NilAssumption DEF BodyInv, TypeOK, Tok, Missed
    <2> QED BY <1>1, <1>2, <2>1, <2>2, <2>3 DEF FreshInv, Stored, Tok
  <1>13. SavedOnce' /\ ForwardInv'
    BY <1>1, <1>2 DEF SavedOnce, ForwardInv, Tok, TypeOK
  <1> QED BY <1>5, <1>6, <1>9, <1>10, <1>11, <1>12, <1>13
LEMMA ReplyStep ==
  ASSUME IInv, NEW r \in Requests, Reply(r) PROVE IInv'
  <1> USE DEF IInv
  <1>1. /\ UNCHANGED <<body, tokenDoc, draft, forwarded, write, faults>>
        /\ pc[r] = "replying" /\ pc'[r] = "answered"
        /\ answer'[r] = draft[r].resp
        /\ \A q \in Requests \ {r} : pc'[q] = pc[q] /\ answer'[q] = answer[q]
        /\ \A q \in Requests \ {r}, u \in Tokens : lock[u] = q => lock'[u] = q
    BY DEF Reply, Respond, TypeOK, Goto, Return, ReleasedBy
  <1>2. Recorded(draft[r].resp, Hash(body[r])) /\ draft[r].resp \in Responses
    BY <1>1 DEF DraftInv, Recorded
  <1>3. TypeOK'
    BY <1>1, <1>2, NilAssumption
    DEF TypeOK, Reply, Respond, Return, Goto, ReleasedBy, InFlight, Holding, Ended
  <1>4. BodyInv'
    BY <1>1, NilAssumption DEF BodyInv, Pending, InFlight, Holding
  <1>5. LockInv'
    BY <1>1, BodiesAssumption, NilAssumption DEF LockInv, BodyInv, TypeOK, Tok, Holding
  <1>6. WriteInv' /\ DocInv' /\ DraftInv' /\ AnswerInv'
    BY <1>1, <1>2, RecordedStable
    DEF WriteInv, DocInv, DraftInv, AnswerInv, Missed, Wrote, Stored, Tok, Ended
  <1>7. FreshInv'
    BY <1>1 DEF FreshInv, Missed, Tok, Landed, Asked, Stored
  <1>8. SavedOnce' /\ ForwardInv'
    BY <1>1 DEF SavedOnce, ForwardInv, Tok, Ended, TypeOK
  <1> QED BY <1>3, <1>4, <1>5, <1>6, <1>7, <1>8

LEMMA AbortStep ==
  ASSUME IInv, NEW r \in Requests, Abort(r) PROVE IInv'
  <1> USE DEF IInv
  <1>1. /\ UNCHANGED <<body, tokenDoc, draft, answer, forwarded>>
        /\ Pending(r) /\ pc[r] # "replying" /\ pc'[r] = "failed"
        /\ \A q \in Requests \ {r} : pc'[q] = pc[q] /\ write'[q] = write[q]
        /\ \A q \in Requests \ {r}, u \in Tokens : lock[u] = q => lock'[u] = q
    BY DEF Abort, TypeOK, Goto, Return, ReleasedBy
  <1>2. /\ write[r] = "none"
        /\ write'[r] = "none" \/ (pc[r] = "saving" /\ write'[r] = "late")
    <2>1. write[r] = "none"
      BY <1>1 DEF WriteInv, Pending, InFlight, Holding, Ended
    <2>2. CASE write' = write
      BY <2>1, <2>2
    <2>3. CASE pc[r] = "saving" /\ write' = [write EXCEPT ![r] = "late"]
      BY <2>1, <2>3 DEF TypeOK
    <2> QED BY <2>2, <2>3 DEF Abort
  <1>3. \A q \in Requests : Wrote(q) <=> Wrote(q)'
    BY <1>1, <1>2 DEF Wrote
  <1>4. TypeOK'
    BY <1>1, <1>2 DEF TypeOK, Abort, Return, Goto, ReleasedBy, Pending, InFlight, Holding, Ended
  <1>5. BodyInv'
    BY <1>1, <1>2 DEF BodyInv, Pending, InFlight, Holding
  <1>6. LockInv'
    BY <1>1, <1>2, BodiesAssumption, NilAssumption DEF LockInv, BodyInv, TypeOK, Tok, Holding
  <1>7. WriteInv'
    BY <1>1, <1>2, <1>3, DraftToStore DEF WriteInv, Ended, Stored, Tok, Wrote
  <1>8. DocInv' /\ DraftInv' /\ AnswerInv'
    BY <1>1, <1>2, <1>3, RecordedStable DEF DocInv, DraftInv, AnswerInv, Missed, Stored
  <1>9. FreshInv'
    BY <1>1, <1>2 DEF FreshInv, Missed, Tok, Landed, Asked, Stored
  <1>10. SavedOnce' /\ ForwardInv'
    BY <1>1, <1>2 DEF SavedOnce, ForwardInv, Tok, Ended, TypeOK
  <1> QED BY <1>4, <1>5, <1>6, <1>7, <1>8, <1>9, <1>10

LEMMA Expiring ==
  ASSUME NEW t \in Tokens, tokenDoc \in [Tokens -> Docs \cup {Nil}], tokenDoc[t] # Nil,
         tokenDoc' = [tokenDoc EXCEPT ![t].expired = TRUE]
  PROVE  /\ tokenDoc[t] \in Docs /\ tokenDoc'[t] \in Docs
         /\ tokenDoc'[t].hash = tokenDoc[t].hash /\ tokenDoc'[t].resp = tokenDoc[t].resp
         /\ \A u \in Tokens \ {t} : tokenDoc'[u] = tokenDoc[u]
  <1>1. tokenDoc[t] \in Docs
    OBVIOUS
  <1>2. ASSUME NEW doc \in Docs
        PROVE  LET e == [doc EXCEPT !.expired = TRUE] IN
               e \in Docs /\ e.hash = doc.hash /\ e.resp = doc.resp
    BY DEF Docs
  <1>3. tokenDoc'[t] = [tokenDoc[t] EXCEPT !.expired = TRUE]
    BY DEF Docs
  <1>4. \A u \in Tokens \ {t} : tokenDoc'[u] = tokenDoc[u]
    OBVIOUS
  <1> QED
    BY <1>1, <1>2, <1>3, <1>4

LEMMA ExpireStep ==
  ASSUME IInv, NEW t \in Tokens, Expire(t) PROVE IInv'
  <1> USE DEF IInv, Expire
  <1>1. /\ tokenDoc[t] \in Docs /\ tokenDoc'[t] \in Docs
        /\ tokenDoc'[t].hash = tokenDoc[t].hash /\ tokenDoc'[t].resp = tokenDoc[t].resp
        /\ \A u \in Tokens \ {t} : tokenDoc'[u] = tokenDoc[u]
    BY Expiring, NilAssumption DEF TypeOK, Stored
  <1>2. \A u \in Tokens : Stored(u)' <=> Stored(u)
    BY <1>1, NilAssumption DEF Stored
  <1>3. TypeOK' /\ BodyInv' /\ LockInv'
    BY <1>1 DEF TypeOK, BodyInv, LockInv, Pending, Tok
  <1>4. \A q \in Requests : pc[q] # "idle" => Tok(q) \in Tokens
    BY BodiesAssumption, NilAssumption DEF BodyInv, TypeOK, Tok
  <1>5. WriteInv'
    BY <1>2, <1>4 DEF WriteInv, Wrote, Tok, Ended
  <1>6. DocInv'
    BY <1>1, <1>2, RecordedStable DEF DocInv, Wrote
  <1>7. DraftInv' /\ AnswerInv'
    BY RecordedStable DEF DraftInv, AnswerInv, Wrote
  <1>8. FreshInv'
    BY <1>2, <1>4 DEF FreshInv, Missed, Tok, Landed, Asked
  <1>9. SavedOnce' /\ ForwardInv'
    BY DEF SavedOnce, ForwardInv, Tok
  <1> QED BY <1>3, <1>5, <1>6, <1>7, <1>8, <1>9

LEMMA RestartStep ==
  ASSUME IInv, Restart PROVE IInv'
  <1> USE DEF IInv
  <1>1. PICK L \in SUBSET {q \in Requests : Pending(q) /\ pc[q] = "saving"} :
          write' = [q \in Requests |-> IF q \in L THEN "late" ELSE write[q]]
    BY DEF Restart
  <1>2. /\ UNCHANGED <<body, tokenDoc, draft, answer, forwarded>>
        /\ \A q \in Requests : pc'[q] = IF Pending(q) THEN "failed" ELSE pc[q]
        /\ lock' = [t \in Tokens |-> Nil]
    BY DEF Restart
  <1>3. \A q \in Requests : pc'[q] \in Ended \cup {"idle"}
    BY <1>2 DEF TypeOK, Pending, InFlight, Ended
  <1>4. \A q \in L : write[q] = "none" /\ pc[q] = "saving" /\ pc'[q] = "failed"
    BY <1>1, <1>2 DEF WriteInv, Ended
  <1>5. \A q \in Requests : Wrote(q) <=> Wrote(q)'
    BY <1>1, <1>4 DEF Wrote
  <1>6. TypeOK'
    <2>1. Cardinality({q \in Requests : Pending(q)}) \in Nat
      BY RequestsAssumption, FS_Subset, FS_CardinalityType
    <2> QED BY <1>1, <1>2, <2>1 DEF TypeOK, Restart, Pending, InFlight, Holding, Ended
  <1>7. BodyInv' /\ LockInv'
    BY <1>1, <1>2, <1>3, <1>4 DEF BodyInv, LockInv, Pending, InFlight, Holding, Ended
  <1>8. WriteInv'
    BY <1>1, <1>2, <1>4, <1>5, DraftToStore
    DEF WriteInv, Ended, Stored, Tok, Wrote, Pending, InFlight, Holding
  <1>9. DocInv' /\ DraftInv' /\ AnswerInv'
    BY <1>2, <1>3, <1>5, RecordedStable
    DEF DocInv, DraftInv, AnswerInv, Missed, Stored, Ended, Pending
  <1>10. FreshInv' /\ SavedOnce' /\ ForwardInv'
    BY <1>1, <1>2, <1>3, <1>4
    DEF FreshInv, SavedOnce, ForwardInv, Missed, Tok, Ended, Pending, TypeOK
  <1> QED BY <1>6, <1>7, <1>8, <1>9, <1>10

LEMMA StutterStep ==
  ASSUME IInv, UNCHANGED vars PROVE IInv'
  BY RecordedStable DEF vars, IInv, TypeOK, BodyInv, LockInv, WriteInv, DocInv, DraftInv,
     FreshInv, SavedOnce, ForwardInv, AnswerInv, Tok, Stored, Pending, Landed, Asked, Wrote
THEOREM NextIInv == IInv /\ [Next]_vars => IInv'
  BY ArriveInv, LockStep, FetchStep, DecryptStep, ModerateStep, ForwardStep, ReceiveStep,
     WrapStep, SaveStep, ReplyStep, AbortStep, LandLateStep, ExpireStep, RestartStep,
     StutterStep
  DEF Next, Step, Done

THEOREM Inductive == Spec => []IInv
  BY InitIInv, NextIInv, PTL DEF Spec

-------------------------------------------------------------------------------

(* Every variable has the shape the code gives it.                         *)
THEOREM TypeCorrect == Spec => []TypeOK
  <1>1. IInv => TypeOK
    BY DEF IInv
  <1> QED BY <1>1, Inductive, PTL

(* No interleaving, failure or restart lets one token pay for two vendor   *)
(* calls of which both clients are served.                                 *)
THEOREM TokensAreSingleUse == Spec => []SingleUse
  <1>1. IInv => SingleUse
    <2> SUFFICES ASSUME IInv, NEW r \in forwarded, NEW q \in forwarded, r # q,
                        Tok(r) = Tok(q), pc[r] # "failed", pc[q] # "failed"
                 PROVE  FALSE
      BY DEF SingleUse
    <2>1. r \in Requests /\ q \in Requests
      BY DEF IInv, TypeOK
    <2>2. CASE write[r] = "saved" /\ write[q] = "saved"
      BY <2>1, <2>2 DEF IInv, SavedOnce
    <2>3. CASE pc[r] \in Missed /\ write[q] = "saved"
      BY <2>1, <2>3 DEF IInv, FreshInv
    <2>4. CASE pc[q] \in Missed /\ write[r] = "saved"
      BY <2>1, <2>4 DEF IInv, FreshInv
    <2>5. CASE pc[r] \in Missed /\ pc[q] \in Missed
      BY <2>1, <2>5 DEF IInv, LockInv, Missed, Holding
    <2> QED BY <2>2, <2>3, <2>4, <2>5 DEF IInv, ForwardInv, Missed, Ended
  <1> QED BY <1>1, Inductive, PTL

(* However often a token is presented and its requests are killed, its     *)
(* answer is recorded in time once.                                        *)
THEOREM AnswersAreSavedOnce == Spec => []SavedOnce
  <1>1. IInv => SavedOnce
    BY DEF IInv
  <1> QED BY <1>1, Inductive, PTL

(* Without late writes every client answered on a token has the answer in  *)
(* its document: a retry after a lost reply gets the reply that was lost.  *)
THEOREM RetriesGetTheSameAnswer == Spec => []AnswersAgree
  <1>1. IInv => AnswersAgree
    <2> SUFFICES ASSUME IInv, NEW t \in Tokens, ~Landed(t), NEW r \in Answered(t)
                 PROVE  Stored(t) /\ tokenDoc[t].resp = answer[r]
      BY DEF AnswersAgree
    <2> DEFINE q == answer[r].by
    <2>1. /\ r \in Requests /\ pc[r] = "answered" /\ Tok(r) = t
          /\ Recorded(answer[r], Hash(body[r]))
      BY DEF Answered, Asked, IInv, AnswerInv
    <2>2. q \in Requests /\ Wrote(q) /\ draft[q].resp = answer[r] /\ Tok(q) = t
      BY <2>1 DEF Recorded, Responses, Hash, Tok
    <2>3. body[q] # Nil /\ body[q].form = "ok"
      BY <2>1, <2>2 DEF Recorded, IInv, BodyInv, Wrote
    <2>4. write[q] = "saved" /\ Stored(t)
      BY <2>2, <2>3 DEF Landed, Asked, Wrote, IInv, WriteInv
    <2> DEFINE p == tokenDoc[t].resp.by
    <2>5. /\ p \in Requests /\ Wrote(p) /\ draft[p].resp = tokenDoc[t].resp
          /\ body[p] # Nil /\ Tok(p) = t
      BY <2>4 DEF IInv, DocInv, Recorded, Responses, Hash, Tok
    <2>6. write[p] = "saved"
      BY <2>5 DEF Landed, Asked, Wrote, IInv, BodyInv
    <2>7. p = q
      BY <2>2, <2>4, <2>5, <2>6 DEF IInv, SavedOnce
    <2> QED BY <2>2, <2>4, <2>5, <2>7
  <1> QED BY <1>1, Inductive, PTL

(* Even with late writes nobody gets an answer to another RequestHash.     *)
THEOREM AnswersMatchTheirHash == Spec => []AnswerMatchesHash
  <1>1. IInv => AnswerMatchesHash
    <2> SUFFICES ASSUME IInv, NEW t \in Tokens, NEW r \in Answered(t)
                 PROVE  \E q \in Asked(t) : answer[r].by = q /\ Hash(body[q]) = Hash(body[r])
      BY DEF AnswerMatchesHash
    <2>1. r \in Requests /\ Tok(r) = t /\ Recorded(answer[r], Hash(body[r]))
      BY DEF Answered, Asked, IInv, AnswerInv
    <2>2. answer[r].by \in Asked(t)
      BY <2>1 DEF Recorded, Responses, Asked, Hash, Tok, IInv, BodyInv, Wrote
    <2> QED BY <2>1, <2>2 DEF Recorded
  <1> QED BY <1>1, Inductive, PTL

(* A stored answer is replaced by nothing but an Upsert given up on.       *)
THEOREM StoredAnswersStay == Spec => SpentForGood
  <1> DEFINE Keeps(t) ==
        \/ Stored(t)' /\ tokenDoc'[t].hash = tokenDoc[t].hash
                      /\ tokenDoc'[t].resp = tokenDoc[t].resp
        \/ Landed(t)'
  <1>1. IInv /\ [Next]_vars => \A t \in Tokens : Stored(t) => Keeps(t)
    <2> SUFFICES ASSUME IInv, [Next]_vars, NEW t \in Tokens, Stored(t) PROVE Keeps(t)
      OBVIOUS
    <2>1. CASE tokenDoc' = tokenDoc
      BY <2>1 DEF Stored
    <2>2. ASSUME NEW r \in Requests, Save(r) \/ SaveUnreported(r) PROVE Keeps(t)
      <3>1. CASE Tok(r) = t
        <4>1. PICK q \in Asked(t) : write[q] = "landed"
          BY <2>2, <3>1 DEF IInv, FreshInv, Missed, Landed, Save, SaveUnreported
        <4>2. q \in Asked(t)' /\ write'[q] = "landed"
          BY <2>2, <4>1 DEF IInv, WriteInv, Asked, Tok, Save, SaveUnreported, TypeOK, Ended
        <4> QED BY <4>2 DEF Landed
      <3>2. CASE Tok(r) # t
        BY <2>2, <3>2 DEF Save, SaveUnreported, Store, Stored, IInv, TypeOK
      <3> QED BY <3>1, <3>2
    <2>3. ASSUME NEW r \in Requests, LandLate(r) PROVE Keeps(t)
      <3>1. CASE Tok(r) = t
        <4>1. r \in Asked(t)' /\ write'[r] = "landed"
          BY <2>3, <3>1, DraftToStore DEF LandLate, Asked, Tok, IInv, TypeOK
        <4> QED BY <4>1 DEF Landed
      <3>2. CASE Tok(r) # t
        BY <2>3, <3>2 DEF LandLate, Store, Stored, IInv, TypeOK
      <3> QED BY <3>1, <3>2
    <2>4. ASSUME NEW u \in Tokens, Expire(u) PROVE Keeps(t)
      <3>1. CASE u = t
        <4>1. /\ tokenDoc[t] \in Docs /\ tokenDoc'[t] \in Docs
              /\ tokenDoc'[t].hash = tokenDoc[t].hash /\ tokenDoc'[t].resp = tokenDoc[t].resp
          BY <2>4, <3>1, Expiring DEF Expire, Stored, IInv, TypeOK
        <4> QED BY <4>1, NilAssumption DEF Stored
      <3>2. CASE u # t
        BY <2>4, <3>2 DEF Expire, Stored, IInv, TypeOK
      <3> QED BY <3>1, <3>2
    <2> QED
      BY <2>1, <2>2, <2>3, <2>4
      DEF Next, Step, vars, Done, Arrive, Lock, Fetch, Decrypt, Moderate, Forward, Receive,
          Wrap, Reply, Abort, Restart
  <1>2. SpentForGood <=> [][\A t \in Tokens : Stored(t) => Keeps(t)]_vars
    BY DEF SpentForGood
  <1> QED BY <1>1, <1>2, Inductive, PTL DEF Spec

-------------------------------------------------------------------------------
(* The refinement.  A step the promise does not see leaves bodies and      *)
(* answers alone, and who is answered, saved or landed.                    *)
LEMMA Unseen ==
  ASSUME body' = body, answer' = answer,
         \A r \in Requests : /\ (pc'[r] = "answered") <=> (pc[r] = "answered")
                             /\ (write'[r] = "saved") <=> (write[r] = "saved")
                             /\ (write'[r] = "landed") <=> (write[r] = "landed")
  PROVE  UNCHANGED Promise!promiseVars
  BY DEF Promise!promiseVars, IsAsk

(* Whoever has written, or is to write or reply, has asked.                *)
LEMMA WritersAsked ==
  ASSUME IInv, NEW r \in Requests, write[r] # "none" \/ pc[r] \in Holding
  PROVE  /\ body[r] \in Bodies /\ IsAsk(body[r])
         /\ Hash(body[r]) \in Hashes /\ Hash(body[r]) # Nil
         /\ TokenOf(Hash(body[r])) = Tok(r)
  <1>1. pc[r] # "idle" /\ body[r].form = "ok"
    BY DEF IInv, WriteInv, BodyInv, Ended, Pending, InFlight, Holding
  <1>2. body[r] \in Bodies /\ body[r] # Nil
    BY <1>1, NilAssumption DEF IInv, TypeOK, BodyInv
  <1> QED BY <1>1, <1>2, NilAssumption DEF IsAsk, Hashes, Hash, Tok, TokenOf

LEMMA ArriveAsks ==
  ASSUME IInv, NEW r \in Requests, Arrive(r)
  PROVE  Promise!Ask(r) \/ UNCHANGED Promise!promiseVars
  <1>1. PICK b \in Bodies :
          /\ body' = [body EXCEPT ![r] = b]
          /\ \/ /\ b.form = "oversized"
                /\ Goto(r, "answered")
                /\ Respond(r, [kind |-> "oversized", by |-> r])
             \/ /\ b.form # "oversized"
                /\ Goto(r, IF Acceptable(b) THEN "locking" ELSE "failed")
                /\ UNCHANGED answer
    BY DEF Arrive
  <1>2. /\ pc[r] = "idle" /\ body[r] = Nil /\ write' = write /\ b # Nil
        /\ body'[r] = b /\ \A q \in Requests \ {r} : body'[q] = body[q]
    BY <1>1, NilAssumption DEF Arrive, IInv, BodyInv, TypeOK
  <1>3. /\ \A q \in Requests \ {r} : pc'[q] = pc[q] /\ answer'[q] = answer[q]
        /\ b.form = "ok" => pc'[r] # "answered"
    BY <1>1 DEF Goto, Respond, IInv, TypeOK
  <1>4. \A q \in Requests \ {r} : IsAsk(body'[q]) <=> IsAsk(body[q])
    BY <1>2
  <1>5. CASE b.form = "ok"
    <2>1. Hash(b) \in Hashes
      BY DEF Hashes
    <2> QED BY <1>2, <1>3, <1>5, <2>1 DEF Promise!Ask, IsAsk
  <1>6. CASE b.form # "ok"
    BY <1>2, <1>3, <1>6 DEF Promise!promiseVars, IsAsk
  <1> QED BY <1>5, <1>6

LEMMA SaveCommits ==
  ASSUME IInv, NEW r \in Requests, Save(r) \/ SaveUnreported(r)
  PROVE  Promise!Commit(r)
  <1>1. /\ UNCHANGED <<body, answer>>
        /\ pc[r] = "saving" /\ pc'[r] # "answered" /\ write[r] = "none"
        /\ \A q \in Requests \ {r} : pc'[q] = pc[q] /\ write'[q] = write[q]
        /\ write'[r] = "saved"
    BY DEF Save, SaveUnreported, IInv, WriteInv, TypeOK, Goto, Return, Ended
  <1>2. IsAsk(body[r]) /\ Hash(body[r]) # Nil /\ TokenOf(Hash(body[r])) = Tok(r)
    BY <1>1, WritersAsked DEF Holding
  <1>3. ASSUME NEW q \in Requests, write[q] = "saved"
        PROVE  IsAsk(body[q]) /\ TokenOf(Hash(body[q])) # TokenOf(Hash(body[r]))
    BY <1>1, <1>2, <1>3, WritersAsked DEF IInv, FreshInv, Missed
  <1>4. {q \in Requests : write'[q] = "saved"} = {q \in Requests : write[q] = "saved"} \cup {r}
    BY <1>1
  <1>5. {q \in Requests : write'[q] = "landed"} = {q \in Requests : write[q] = "landed"}
    BY <1>1
  <1> QED BY <1>1, <1>2, <1>3, <1>4, <1>5 DEF Promise!Commit

LEMMA LandLateStrays ==
  ASSUME IInv, NEW r \in Requests, LandLate(r)
  PROVE  Promise!Stray(r)
  <1>1. /\ UNCHANGED <<pc, body, answer>>
        /\ write[r] = "late" /\ pc[r] = "failed" /\ write'[r] = "landed"
        /\ \A q \in Requests \ {r} : write'[q] = write[q]
    BY DEF LandLate, IInv, WriteInv, TypeOK
  <1>2. IsAsk(body[r]) /\ Hash(body[r]) # Nil
    BY <1>1, WritersAsked
  <1>3. {q \in Requests : write'[q] = "landed"} = {q \in Requests : write[q] = "landed"} \cup {r}
    BY <1>1
  <1>4. {q \in Requests : write'[q] = "saved"} = {q \in Requests : write[q] = "saved"}
    BY <1>1
  <1> QED BY <1>1, <1>2, <1>3, <1>4 DEF Promise!Stray

LEMMA ReplyDelivers ==
  ASSUME IInv, NEW r \in Requests, Reply(r)
  PROVE  Promise!Deliver(r)
  <1> DEFINE q == draft[r].resp.by
  <1>1. /\ UNCHANGED <<body, write>>
        /\ pc[r] = "replying" /\ pc'[r] = "answered" /\ answer'[r].by = q
        /\ \A p \in Requests \ {r} : pc'[p] = pc[p] /\ answer'[p] = answer[p]
    BY DEF Reply, Respond, IInv, TypeOK, Goto, Return
  <1>2. q \in Requests /\ Wrote(q) /\ Hash(body[q]) = Hash(body[r])
    BY <1>1 DEF IInv, DraftInv, Recorded, Responses
  <1>3. /\ IsAsk(body[r]) /\ Hash(body[r]) # Nil
        /\ IsAsk(body[q]) /\ write[r] # "landed"
    BY <1>1, <1>2, WritersAsked DEF Holding, Wrote, IInv, WriteInv
  <1> HIDE DEF q
  <1>4. [p \in Requests |-> IF pc'[p] = "answered" /\ IsAsk(body'[p])
                            THEN answer'[p].by ELSE Nil]
        = [[p \in Requests |-> IF pc[p] = "answered" /\ IsAsk(body[p])
                               THEN answer[p].by ELSE Nil] EXCEPT ![r] = q]
    BY <1>1, <1>3 DEF IsAsk
  <1> QED BY <1>1, <1>2, <1>3, <1>4 DEF Promise!Deliver, Wrote, IsAsk

LEMMA OthersUnseen ==
  ASSUME IInv, [Next]_vars,
         ~\E r \in Requests : \/ Arrive(r) \/ Save(r) \/ SaveUnreported(r)
                              \/ LandLate(r) \/ Reply(r)
  PROVE  UNCHANGED Promise!promiseVars
  <1>1. ASSUME NEW r \in Requests,
               Lock(r) \/ Fetch(r) \/ Decrypt(r) \/ Moderate(r) \/ Forward(r)
                 \/ Receive(r) \/ Wrap(r)
        PROVE  UNCHANGED Promise!promiseVars
    <2>1. /\ body' = body /\ answer' = answer /\ write' = write
          /\ pc[r] # "answered" /\ pc'[r] # "answered"
          /\ \A q \in Requests \ {r} : pc'[q] = pc[q]
      BY <1>1 DEF Lock, Fetch, Decrypt, Moderate, Forward, Receive, Wrap, Goto, Return,
         Resume, IInv, TypeOK
    <2> QED BY <2>1, Unseen
  <1>2. ASSUME NEW r \in Requests, Abort(r) PROVE UNCHANGED Promise!promiseVars
    <2>1. /\ body' = body /\ answer' = answer /\ write[r] = "none"
          /\ pc[r] # "answered" /\ pc'[r] # "answered"
          /\ \A q \in Requests \ {r} : pc'[q] = pc[q]
      BY <1>2 DEF Abort, Goto, Return, IInv, WriteInv, TypeOK, Pending, InFlight, Holding, Ended
    <2>2. \A q \in Requests : /\ (write'[q] = "saved") <=> (write[q] = "saved")
                              /\ (write'[q] = "landed") <=> (write[q] = "landed")
      BY <1>2, <2>1 DEF Abort, IInv, TypeOK
    <2> QED BY <2>1, <2>2, Unseen
  <1>3. ASSUME Restart PROVE UNCHANGED Promise!promiseVars
    <2>1. PICK L \in SUBSET {q \in Requests : Pending(q) /\ pc[q] = "saving"} :
            write' = [q \in Requests |-> IF q \in L THEN "late" ELSE write[q]]
      BY <1>3 DEF Restart
    <2>2. /\ body' = body /\ answer' = answer
          /\ \A q \in Requests : pc'[q] = IF Pending(q) THEN "failed" ELSE pc[q]
      BY <1>3 DEF Restart
    <2>3. \A q \in Requests : (pc'[q] = "answered") <=> (pc[q] = "answered")
      BY <2>2 DEF Pending, InFlight, Holding
    <2>4. \A q \in L : write[q] = "none"
      BY <2>1 DEF IInv, WriteInv, Ended
    <2>5. \A q \in Requests : /\ (write'[q] = "saved") <=> (write[q] = "saved")
                              /\ (write'[q] = "landed") <=> (write[q] = "landed")
      BY <2>1, <2>4
    <2> QED BY <2>2, <2>3, <2>5, Unseen
  <1>4. ASSUME NEW t \in Tokens, Expire(t) PROVE UNCHANGED Promise!promiseVars
    BY <1>4, Unseen DEF Expire
  <1>5. CASE UNCHANGED vars
    BY <1>5, Unseen DEF vars
  <1> QED BY <1>1, <1>2, <1>3, <1>4, <1>5 DEF Next, Step, Done

(* ServeRequest keeps the promise a redeemed token makes: at most one      *)
(* answer per token is committed, killed requests may leave strays, and    *)
(* every client is given one of these, produced for its own hash.          *)
THEOREM HandlerKeepsPromise == Spec => KeepsPromise
  <1>1. Init => Promise!Init
    BY NilAssumption DEF Init, Promise!Init, IsAsk
  <1>2. IInv /\ [Next]_vars => [Promise!Next]_(Promise!promiseVars)
    BY ArriveAsks, SaveCommits, LandLateStrays, ReplyDelivers, OthersUnseen DEF Promise!Next
  <1> QED BY <1>1, <1>2, Inductive, PTL DEF Spec, KeepsPromise, Promise!Spec

-------------------------------------------------------------------------------
(* Repetitions.                                                            *)

(* A request that is refused for good: by its own fault, because its       *)
(* token's document expired, or because another hash was presented too.    *)
Refused(r) ==
  \/ ~Acceptable(body[r])
  \/ Stored(Tok(r)) /\ tokenDoc[Tok(r)].expired
  \/ \E q \in Requests : body[q] # Nil /\ Hash(body[q]) # Hash(body[r])

Killed == {r \in Requests : pc[r] = "failed" /\ ~Refused(r)}

(* Nobody is about to replace an expired document, so it stays expired.    *)
ExpiredInv ==
  \A t \in Tokens : (Stored(t) /\ tokenDoc[t].expired) =>
    \A r \in Requests : (body[r] # Nil /\ Tok(r) = t) => pc[r] \notin Missed /\ write[r] # "late"

KilledInv == Cardinality(Killed) <= faults /\ faults <= MaxFaults

(* No handler works on an expired document.                                *)
UnexpiredInv ==
  \A r \in Requests : pc[r] \in Missed \/ write[r] = "late" => ~draft[r].expired

RetryInv == UnexpiredInv /\ ExpiredInv /\ KilledInv

LEMMA Killing ==
  ASSUME RequestsAssumption, NEW S, S \subseteq Requests, NEW T, T \subseteq S
  PROVE  /\ Cardinality(S) \in Nat /\ Cardinality(T) \in Nat /\ Cardinality(T) <= Cardinality(S)
         /\ IsFiniteSet(S) /\ IsFiniteSet(T)
  BY FS_Subset, FS_CardinalityType DEF RequestsAssumption

LEMMA InitRetry == Init => RetryInv
  <1> SUFFICES ASSUME Init PROVE RetryInv
    OBVIOUS
  <1>1. Killed = {}
    BY DEF Init, Killed
  <1>2. Cardinality(Killed) = 0
    BY <1>1, FS_EmptySet
  <1> QED
    BY <1>2, FaultsAssumption, NilAssumption DEF Init, RetryInv, KilledInv, ExpiredInv, UnexpiredInv, Missed, Stored

(* Bodies are kept, and so is the reason of a refusal.                     *)
LEMMA BodiesStay ==
  ASSUME IInv, [Next]_vars, NEW r \in Requests, body[r] # Nil
  PROVE  body'[r] = body[r]
  <1>1. ASSUME NEW q \in Requests, Arrive(q) PROVE body'[r] = body[r]
    BY <1>1 DEF IInv, BodyInv, TypeOK, Arrive
  <1> QED
    BY <1>1 DEF Next, Step, vars, Done, Lock, Fetch, Decrypt, Moderate, Forward, Receive, Wrap, Save, Reply,
       Abort, SaveUnreported, LandLate, Expire, Restart

LEMMA ExpiryStays ==
  ASSUME IInv, ExpiredInv, [Next]_vars, NEW t \in Tokens, Stored(t) /\ tokenDoc[t].expired
  PROVE  Stored(t)' /\ tokenDoc'[t].expired
  <1>1. \A r \in Requests : pc[r] = "saving" \/ write[r] = "late" => body[r] # Nil /\ Tok(r) \in Tokens
    BY NilAssumption, BodiesAssumption DEF IInv, BodyInv, TypeOK, Pending, InFlight, Holding, Tok, WriteInv
  <1>2. ASSUME NEW r \in Requests, Store(r), pc[r] = "saving" \/ write[r] = "late"
        PROVE  tokenDoc'[t] = tokenDoc[t]
    BY <1>1, <1>2 DEF ExpiredInv, Missed, Store, IInv, TypeOK
  <1>3. ASSUME NEW u \in Tokens, Expire(u) PROVE Stored(t)' /\ tokenDoc'[t].expired
    <2>1. u # t
      BY <1>3 DEF Expire
    <2> QED
      BY <1>3, <2>1 DEF Expire, IInv, TypeOK, Stored
  <1>4. CASE UNCHANGED tokenDoc
    BY <1>4 DEF Stored
  <1> QED
    BY <1>2, <1>3, <1>4 DEF Next, Step, vars, Done, Lock, Fetch, Decrypt, Moderate, Forward, Receive, Wrap, Save, Reply,
       Abort, SaveUnreported, LandLate, Arrive, Restart, Stored

LEMMA RefusalStays ==
  ASSUME IInv, ExpiredInv, [Next]_vars, NEW r \in Requests, body[r] # Nil, Refused(r)
  PROVE  Refused(r)'
  <1>1. \A q \in Requests : body[q] # Nil => body'[q] = body[q]
    BY BodiesStay
  <1>2. Tok(r)' = Tok(r) /\ (Acceptable(body[r])' <=> Acceptable(body[r])) /\ Hash(body[r])' = Hash(body[r])
    BY <1>1 DEF Tok, Acceptable, Hash
  <1>3. CASE ~Acceptable(body[r])
    BY <1>2, <1>3 DEF Refused
  <1>4. CASE Stored(Tok(r)) /\ tokenDoc[Tok(r)].expired
    <2>1. Tok(r) \in Tokens
      BY BodiesAssumption DEF Tok, IInv, TypeOK
    <2>2. Stored(Tok(r))' /\ tokenDoc'[Tok(r)].expired
      BY <1>2, <1>4, <2>1, ExpiryStays DEF Stored
    <2> QED
      BY <1>2, <2>2 DEF Refused
  <1>5. CASE \E q \in Requests : body[q] # Nil /\ Hash(body[q]) # Hash(body[r])
    <2>1. PICK q \in Requests : body[q] # Nil /\ Hash(body[q]) # Hash(body[r])
      BY <1>5
    <2>2. body'[q] # Nil /\ Hash(body'[q]) # Hash(body'[r])
      BY <1>1, <2>1
    <2> QED
      BY <2>2 DEF Refused
  <1> QED
    BY <1>3, <1>4, <1>5 DEF Refused

(* Whoever is killed now was killed before or is one of those that fail    *)
(* now without a reason.                                                   *)
LEMMA KilledAre ==
  ASSUME IInv, ExpiredInv, [Next]_vars, NEW S \in SUBSET Requests,
         \A r \in Requests : pc'[r] = "failed" => pc[r] = "failed" \/ r \in S \/ Refused(r)'
  PROVE  Killed' \subseteq Killed \cup S
  <1> SUFFICES ASSUME NEW r \in Requests, pc'[r] = "failed", ~Refused(r)', r \notin S
               PROVE  r \in Killed
    BY DEF Killed
  <1>1. pc[r] = "failed" /\ body[r] # Nil
    BY DEF IInv, BodyInv
  <1> QED
    BY <1>1, RefusalStays DEF Killed

(* A request that ends in failure without a fault has a reason.            *)
LEMMA ArrivalRefused ==
  ASSUME IInv, NEW r \in Requests, Arrive(r)
  PROVE  \A q \in Requests : pc'[q] = "failed" => pc[q] = "failed" \/ Refused(q)'
  BY DEF Arrive, IInv, TypeOK, Goto, Refused

LEMMA FetchRefused ==
  ASSUME IInv, NEW r \in Requests, Fetch(r)
  PROVE  \A q \in Requests : pc'[q] = "failed" => pc[q] = "failed" \/ Refused(q)'
  <1> DEFINE t == Tok(r)
  <1>1. body[r] # Nil /\ t \in Tokens /\ body' = body /\ tokenDoc' = tokenDoc
    BY BodiesAssumption DEF Fetch, IInv, BodyInv, TypeOK, Tok
  <1>2. \A q \in Requests \ {r} : pc'[q] = pc[q]
    BY DEF Fetch, Goto, Return, IInv, TypeOK
  <1>3. CASE tokenDoc[t] = Nil
    <2>1. Usable(FreshDoc(body[r]), body[r])
      BY DEF Usable, FreshDoc
    <2>2. pc'[r] # "failed"
      BY <1>3, <2>1 DEF Fetch, Goto, Resume, IInv, TypeOK
    <2> QED
      BY <1>2, <2>2
  <1>4. CASE tokenDoc[t] # Nil /\ tokenDoc[t].expired
    <2>1. Refused(r)'
      BY <1>1, <1>4 DEF Refused, Stored, Tok
    <2> QED
      BY <1>2, <2>1
  <1>5. CASE tokenDoc[t] # Nil /\ ~tokenDoc[t].expired /\ tokenDoc[t].hash = Hash(body[r])
    <2>1. Usable(tokenDoc[t], body[r])
      BY <1>5 DEF Usable
    <2>2. pc'[r] # "failed"
      BY <1>5, <2>1 DEF Fetch, Goto, Resume, IInv, TypeOK
    <2> QED
      BY <1>2, <2>2
  <1>6. CASE tokenDoc[t] # Nil /\ tokenDoc[t].hash # Hash(body[r])
    <2>1. Recorded(tokenDoc[t].resp, tokenDoc[t].hash)
      BY <1>1, <1>6 DEF IInv, DocInv, Stored
    <2>2. PICK q \in Requests : body[q] # Nil /\ Hash(body[q]) = tokenDoc[t].hash
      BY <2>1 DEF Recorded, Responses
    <2>3. Refused(r)'
      BY <1>1, <1>6, <2>2 DEF Refused
    <2> QED
      BY <1>2, <2>3
  <1> QED
    BY <1>3, <1>4, <1>5, <1>6

LEMMA OthersRefuseNone ==
  ASSUME IInv, NEW r \in Requests,
         Lock(r) \/ Decrypt(r) \/ Moderate(r) \/ Forward(r) \/ Receive(r) \/ Wrap(r) \/ Save(r) \/ Reply(r)
           \/ LandLate(r)
  PROVE  (\A q \in Requests : pc'[q] = "failed" => pc[q] = "failed") /\ faults' = faults
  BY DEF Lock, Decrypt, Moderate, Forward, Receive, Wrap, Save, Reply, LandLate, Goto, Return, IInv, TypeOK

(* Without a fault nobody is killed.                                       *)
LEMMA NobodyKilled ==
  ASSUME IInv, RetryInv, [Next]_vars, faults' = faults,
         \A r \in Requests : pc'[r] = "failed" => pc[r] = "failed" \/ Refused(r)'
  PROVE  KilledInv'
  <1>1. Killed' \subseteq Killed
    <2>1. Killed' \subseteq Killed \cup {}
      BY KilledAre DEF RetryInv
    <2> QED
      BY <2>1
  <1>2. Killed \subseteq Requests
    BY DEF Killed
  <1>3. Cardinality(Killed') <= Cardinality(Killed) /\ Cardinality(Killed') \in Nat /\ Cardinality(Killed) \in Nat
    BY <1>1, <1>2, Killing, RequestsAssumption
  <1> QED
    BY <1>3, FaultsAssumption DEF RetryInv, KilledInv, IInv, TypeOK

(* As many are killed as there are faults.                                 *)
LEMMA SomeKilled ==
  ASSUME IInv, RetryInv, [Next]_vars, NEW S \in SUBSET Requests,
         faults' = faults + Cardinality(S), faults' <= MaxFaults,
         \A r \in Requests : pc'[r] = "failed" => pc[r] = "failed" \/ r \in S
  PROVE  KilledInv'
  <1>1. Killed' \subseteq Killed \cup S
    BY KilledAre DEF RetryInv
  <1>2. Killed \subseteq Requests
    BY DEF Killed
  <1>3. /\ IsFiniteSet(Killed) /\ IsFiniteSet(S) /\ Cardinality(Killed) \in Nat /\ Cardinality(S) \in Nat
    BY <1>2, Killing, RequestsAssumption
  <1>4. Cardinality(Killed \cup S) <= Cardinality(Killed) + Cardinality(S)
    <2>1. Cardinality(Killed \cup S) = Cardinality(Killed) + Cardinality(S) - Cardinality(Killed \cap S)
      BY <1>3, FS_Union
    <2>2. Cardinality(Killed \cap S) \in Nat
      BY <1>2, Killing, RequestsAssumption
    <2> QED
      BY <1>3, <2>1, <2>2
  <1>5. Cardinality(Killed') <= Cardinality(Killed \cup S) /\ Cardinality(Killed') \in Nat
        /\ Cardinality(Killed \cup S) \in Nat
    <2>1. Killed \cup S \subseteq Requests
      BY <1>2
    <2> QED
      BY <1>1, <2>1, Killing, RequestsAssumption
  <1> QED
    BY <1>3, <1>4, <1>5, FaultsAssumption DEF RetryInv, KilledInv, IInv, TypeOK

LEMMA NextKilled ==
  ASSUME IInv, RetryInv, Next
  PROVE  KilledInv'
  <1>1. ASSUME NEW r \in Requests, Arrive(r) \/ Fetch(r) PROVE KilledInv'
    <2>1. faults' = faults
      BY <1>1 DEF Arrive, Fetch
    <2> QED
      BY <1>1, <2>1, ArrivalRefused, FetchRefused, NobodyKilled
  <1>2. ASSUME NEW r \in Requests,
               Lock(r) \/ Decrypt(r) \/ Moderate(r) \/ Forward(r) \/ Receive(r) \/ Wrap(r) \/ Save(r)
                 \/ Reply(r) \/ LandLate(r)
        PROVE  KilledInv'
    BY <1>2, OthersRefuseNone, NobodyKilled
  <1>3. ASSUME NEW r \in Requests, Abort(r) \/ SaveUnreported(r) PROVE KilledInv'
    <2>1. faults < MaxFaults /\ faults' = faults + 1 /\ \A q \in Requests \ {r} : pc'[q] = pc[q]
      BY <1>3 DEF Abort, SaveUnreported, Return, Goto, IInv, TypeOK
    <2>2. Cardinality({r}) = 1
      BY FS_Singleton
    <2>3. faults' = faults + Cardinality({r}) /\ faults' <= MaxFaults
      BY <2>1, <2>2, FaultsAssumption DEF IInv, TypeOK
    <2> QED
      BY <2>1, <2>3, SomeKilled
  <1>4. ASSUME Restart PROVE KilledInv'
    <2> DEFINE lost == {r \in Requests : Pending(r)}
    <2>1. /\ faults + Cardinality(lost) <= MaxFaults /\ faults' = faults + Cardinality(lost)
          /\ \A r \in Requests : pc'[r] = "failed" => pc[r] = "failed" \/ r \in lost
      BY <1>4 DEF Restart
    <2> QED
      BY <2>1, SomeKilled
  <1>5. ASSUME NEW t \in Tokens, Expire(t) PROVE KilledInv'
    <2>1. pc' = pc /\ faults' = faults
      BY <1>5 DEF Expire
    <2> QED
      BY <2>1, NobodyKilled
  <1>6. ASSUME Done PROVE KilledInv'
    <2>1. pc' = pc /\ faults' = faults
      BY <1>6 DEF Done, vars
    <2> QED
      BY <2>1, NobodyKilled
  <1> QED
    BY <1>1, <1>2, <1>3, <1>4, <1>5, <1>6 DEF Next, Step

LEMMA NextUnexpired ==
  ASSUME IInv, UnexpiredInv, [Next]_vars
  PROVE  UnexpiredInv'
  <1> SUFFICES ASSUME NEW r \in Requests, pc'[r] \in Missed \/ write'[r] = "late"
               PROVE  ~draft'[r].expired
    BY DEF UnexpiredInv
  <1>1. ASSUME Fetch(r) PROVE ~draft'[r].expired
    <2>1. PICK doc : /\ Usable(doc, body[r]) /\ draft' = [draft EXCEPT ![r] = doc]
      BY <1>1 DEF Fetch, Return, Goto, IInv, TypeOK, Missed, WriteInv, Ended
    <2> QED
      BY <2>1 DEF Usable, IInv, TypeOK
  <1>2. ASSUME Moderate(r) \/ Receive(r) PROVE ~draft'[r].expired
    <2>1. ~draft[r].expired /\ draft[r] \in Docs
      BY <1>2 DEF Moderate, Receive, UnexpiredInv, Missed, IInv, DraftInv
    <2>2. draft'[r].expired = draft[r].expired
      BY <1>2, <2>1 DEF Moderate, Receive, Docs, IInv, TypeOK
    <2> QED
      BY <2>1, <2>2
  <1>3. ASSUME NEW q \in Requests, q # r, Fetch(q) \/ Moderate(q) \/ Receive(q) PROVE ~draft'[r].expired
    <2>1. draft'[r] = draft[r] /\ pc'[r] = pc[r] /\ write'[r] = write[r]
      BY <1>3 DEF Fetch, Moderate, Receive, Return, Goto, IInv, TypeOK
    <2> QED
      BY <2>1 DEF UnexpiredInv
  <1>4. ASSUME UNCHANGED draft, pc'[r] \in Missed => pc[r] \in Missed,
               write'[r] = "late" => write[r] = "late" \/ pc[r] = "saving"
        PROVE  ~draft'[r].expired
    BY <1>4 DEF UnexpiredInv, Missed
  <1>5. ASSUME NEW q \in Requests,
               Arrive(q) \/ Lock(q) \/ Decrypt(q) \/ Forward(q) \/ Wrap(q) \/ Save(q) \/ Reply(q)
                 \/ Abort(q) \/ SaveUnreported(q) \/ LandLate(q)
        PROVE  ~draft'[r].expired
    <2>1. UNCHANGED draft
      BY <1>5 DEF Arrive, Lock, Decrypt, Forward, Wrap, Save, Reply, Abort, SaveUnreported, LandLate
    <2>2. pc'[r] \in Missed => pc[r] \in Missed
      BY <1>5 DEF Arrive, Lock, Decrypt, Forward, Wrap, Save, Reply, Abort, SaveUnreported, LandLate, Goto,
                  Return, Missed, IInv, TypeOK
    <2>3. write'[r] = "late" => write[r] = "late" \/ pc[r] = "saving"
      BY <1>5 DEF Arrive, Lock, Decrypt, Forward, Wrap, Save, Reply, Abort, SaveUnreported, LandLate, IInv, TypeOK
    <2> QED
      BY <1>4, <2>1, <2>2, <2>3
  <1>6. ASSUME Restart PROVE ~draft'[r].expired
    BY <1>4, <1>6 DEF Restart, Missed
  <1>7. ASSUME (\E t \in Tokens : Expire(t)) \/ Done \/ UNCHANGED vars PROVE ~draft'[r].expired
    BY <1>4, <1>7 DEF Expire, Done, vars
  <1> QED
    BY <1>1, <1>2, <1>3, <1>5, <1>6, <1>7 DEF Next, Step

LEMMA NextExpired ==
  ASSUME IInv, UnexpiredInv, ExpiredInv, [Next]_vars
  PROVE  ExpiredInv'
  <1> SUFFICES ASSUME NEW t \in Tokens, Stored(t)', tokenDoc'[t].expired, NEW r \in Requests,
                      body'[r] # Nil, Tok(r)' = t
               PROVE  pc'[r] \notin Missed /\ write'[r] # "late"
    BY DEF ExpiredInv
  <1>1. CASE body[r] = Nil
    <2>1. pc[r] = "idle" /\ write[r] = "none"
      BY <1>1 DEF IInv, BodyInv, WriteInv, TypeOK, Ended
    <2>2. body' # body
      BY <1>1
    <2>3. PICK q \in Requests : Arrive(q)
      BY <2>2 DEF Next, Step, vars, Done, Lock, Fetch, Decrypt, Moderate, Forward, Receive, Wrap, Save, Reply,
         Abort, SaveUnreported, LandLate, Expire, Restart
    <2>4. pc'[r] \in {"idle", "answered", "locking", "failed"} /\ write' = write
      BY <2>1, <2>3 DEF Arrive, Goto, IInv, TypeOK
    <2> QED
      BY <2>1, <2>4 DEF Missed
  <1>2. CASE body[r] # Nil
    <2>1. Tok(r) = t
      BY <1>2, BodiesStay DEF Tok
    <2>2. CASE Stored(t) /\ tokenDoc[t].expired
      <3>1. pc[r] \notin Missed /\ write[r] # "late"
        BY <1>2, <2>1, <2>2 DEF ExpiredInv
      <3>2. ASSUME NEW q \in Requests, Step(q) \/ Arrive(q) \/ Lock(q) PROVE pc'[r] \notin Missed /\ write'[r] # "late"
        <4>1. ASSUME Fetch(r) PROVE pc'[r] \notin Missed
          BY <2>1, <2>2, <4>1 DEF Fetch, Usable, Stored, Return, Goto, IInv, TypeOK, Missed
        <4>2. pc'[r] \notin Missed
          BY <1>2, <3>1, <3>2, <4>1 DEF Step, Fetch, Arrive, Lock, Decrypt, Moderate, Forward, Receive, Wrap, Save, Reply,
             Goto, Return, IInv, TypeOK, Missed
        <4>3. write'[r] # "late"
          BY <3>1, <3>2 DEF Step, Fetch, Arrive, Lock, Decrypt, Moderate, Forward, Receive, Wrap, Save, Reply, IInv, TypeOK
        <4> QED
          BY <4>2, <4>3
      <3>3. ASSUME NEW q \in Requests, Abort(q) \/ SaveUnreported(q) \/ LandLate(q)
            PROVE  pc'[r] \notin Missed /\ write'[r] # "late"
        BY <3>1, <3>3 DEF Abort, SaveUnreported, LandLate, Goto, Return, IInv, TypeOK, Missed
      <3>4. ASSUME Restart \/ (\E u \in Tokens : Expire(u)) \/ Done \/ UNCHANGED vars
            PROVE  pc'[r] \notin Missed /\ write'[r] # "late"
        BY <3>1, <3>4 DEF Restart, Expire, Done, vars, Missed
      <3> QED
        BY <3>2, <3>3, <3>4 DEF Next
    <2>3. CASE ~(Stored(t) /\ tokenDoc[t].expired)
      <3>1. tokenDoc'[t] # tokenDoc[t]
        BY <2>3 DEF Stored
      <3>2. ASSUME NEW q \in Requests, Save(q) \/ SaveUnreported(q) \/ LandLate(q) PROVE FALSE
        <4>1. Store(q) /\ (pc[q] = "saving" \/ write[q] = "late")
          BY <3>2 DEF Save, SaveUnreported, LandLate
        <4>2. tokenDoc'[t] = draft[q]
          BY <3>1, <4>1 DEF Store, IInv, TypeOK
        <4> QED
          BY <4>1, <4>2 DEF UnexpiredInv, Missed
      <3>3. PICK u \in Tokens : Expire(u)
        BY <3>1, <3>2 DEF Next, Step, vars, Done, Lock, Fetch, Decrypt, Moderate, Forward, Receive, Wrap, Reply,
           Abort, Arrive, Restart
      <3>4. u = t
        BY <3>1, <3>3 DEF Expire, IInv, TypeOK
      <3>5. ~Pending(r) /\ write[r] # "late"
        BY <1>2, <2>1, <3>3, <3>4 DEF Expire, Unsettled
      <3> QED
        BY <3>3, <3>5 DEF Expire, Pending, InFlight, Holding, Missed
    <2> QED
      BY <2>2, <2>3
  <1> QED
    BY <1>1, <1>2

LEMMA RetryInductive == Spec => [](IInv /\ RetryInv)
  <1>1. Init => IInv /\ RetryInv
    BY InitIInv, InitRetry
  <1>2. IInv /\ RetryInv /\ [Next]_vars => (IInv /\ RetryInv)'
    <2> SUFFICES ASSUME IInv, RetryInv, [Next]_vars PROVE IInv' /\ RetryInv'
      OBVIOUS
    <2>1. IInv'
      BY NextIInv
    <2>2. UnexpiredInv' /\ ExpiredInv'
      BY NextUnexpired, NextExpired DEF RetryInv
    <2>3. CASE Next
      BY <2>1, <2>2, <2>3, NextKilled DEF RetryInv
    <2>4. CASE UNCHANGED vars
      <3>1. pc' = pc /\ faults' = faults
        BY <2>4 DEF vars
      <3> QED
        BY <2>1, <2>2, <3>1, NobodyKilled DEF RetryInv
    <2> QED
      BY <2>3, <2>4
  <1> QED
    BY <1>1, <1>2, PTL DEF Spec

(* Whoever repeats a request more often than it is killed gets its answer, *)
(* unless the document expired: no error of ServeRequest, wherever it      *)
(* comes from, makes a token unusable.                                     *)
THEOREM RepetitionSucceeds == Spec => []RetriesSucceed
  <1>1. IInv /\ RetryInv => RetriesSucceed
    <2> SUFFICES ASSUME IInv, RetryInv, AllEnded, Cardinality(Requests) > MaxFaults,
                        \A r \in Requests : Acceptable(body[r]),
                        \A r, q \in Requests : Hash(body[r]) = Hash(body[q]),
                        \A r \in Requests : /\ pc[r] # "answered"
                                             /\ ~(Stored(Tok(r)) /\ tokenDoc[Tok(r)].expired)
                 PROVE  FALSE
      BY DEF RetriesSucceed
    <2>1. \A r \in Requests : pc[r] = "failed" /\ ~Refused(r)
      BY DEF AllEnded, Ended, Refused
    <2>2. Killed = Requests
      BY <2>1 DEF Killed
    <2>3. Cardinality(Requests) \in Nat
      BY RequestsAssumption, FS_CardinalityType DEF RequestsAssumption
    <2> QED
      BY <2>2, <2>3, FaultsAssumption DEF RetryInv, KilledInv, IInv, TypeOK
  <1> QED
    BY <1>1, RetryInductive, PTL
-------------------------------------------------------------------------------
(* Requests end.                                                           *)

LEMMA RequestStep ==
  IInv /\ [Next]_vars =>
    \A r \in Requests : pc'[r] = pc[r] \/ Position[pc'[r]] > Position[pc[r]]
  <1> SUFFICES ASSUME IInv, [Next]_vars, NEW r \in Requests
               PROVE  pc'[r] = pc[r] \/ Position[pc'[r]] > Position[pc[r]]
    OBVIOUS
  <1> USE DEF IInv, TypeOK, Goto, Return
  <1>1. ASSUME NEW q \in Requests \ {r},
               Arrive(q) \/ Lock(q) \/ Step(q) \/ Abort(q) \/ SaveUnreported(q) \/ LandLate(q)
        PROVE  pc'[r] = pc[r]
    BY <1>1 DEF Arrive, Lock, Step, Fetch, Decrypt, Moderate, Forward, Receive, Wrap, Save, Reply,
                Abort, SaveUnreported, LandLate
  <1>2. CASE Arrive(r) \/ Lock(r) \/ Fetch(r) \/ Decrypt(r) \/ Moderate(r)
    <2>1. \/ pc[r] = "idle" /\ pc'[r] \in {"answered", "locking", "failed"}
          \/ pc[r] = "locking" /\ pc'[r] = "fetching"
          \/ pc[r] = "fetching" /\ pc'[r] \in {"decrypting", "moderating", "failed"}
          \/ pc[r] = "decrypting" /\ pc'[r] = "replying"
          \/ pc[r] = "moderating" /\ pc'[r] \in {"wrapping", "forwarding"}
      BY <1>2 DEF Arrive, Lock, Fetch, Resume, Decrypt, Moderate
    <2> QED BY <2>1 DEF Position
  <1>3. CASE Forward(r) \/ Receive(r) \/ Wrap(r) \/ Save(r) \/ Reply(r) \/ LandLate(r)
    <2>1. \/ pc[r] = "forwarding" /\ pc'[r] = "awaiting"
          \/ pc[r] = "awaiting" /\ pc'[r] = "wrapping"
          \/ pc[r] = "wrapping" /\ pc'[r] = "saving"
          \/ pc[r] = "saving" /\ pc'[r] = "replying"
          \/ pc[r] = "replying" /\ pc'[r] = "answered"
          \/ pc'[r] = pc[r]
      BY <1>3 DEF Forward, Receive, Wrap, Save, Reply, LandLate
    <2> QED BY <2>1 DEF Position
  <1>4. CASE Abort(r) \/ SaveUnreported(r) \/ Restart
    <2>1. CASE Abort(r) \/ SaveUnreported(r)
      <3>1. pc'[r] = "failed" /\ pc[r] \in InFlight
        BY <2>1 DEF Abort, SaveUnreported, Pending, InFlight, Holding
      <3> QED BY <3>1 DEF Position, InFlight, Holding
    <2>2. CASE Restart
      <3>1. pc'[r] = IF pc[r] \in InFlight THEN "failed" ELSE pc[r]
        BY <2>2 DEF Restart, Pending
      <3> QED BY <3>1 DEF Position, InFlight, Holding
    <2> QED BY <1>4, <2>1, <2>2
  <1>5. CASE Done \/ UNCHANGED vars \/ \E t \in Tokens : Expire(t)
    BY <1>5 DEF Done, vars, Expire
  <1> QED BY <1>1, <1>2, <1>3, <1>4, <1>5 DEF Next, Step

LEMMA HolderStep == IInv /\ HoldersAtWork /\ [Next]_vars => HoldersAtWork'
  <1> SUFFICES ASSUME IInv, HoldersAtWork, [Next]_vars, NEW t \in Tokens, lock'[t] # Nil
               PROVE  /\ lock'[t] \in Requests /\ pc'[lock'[t]] \in Holding
                      /\ body'[lock'[t]].token = t
    BY DEF HoldersAtWork, Tok
  <1> DEFINE h == lock'[t]
  <1> USE DEF IInv, TypeOK, Goto, Return, HoldersAtWork, Tok
  <1>1. ASSUME NEW r \in Requests, Arrive(r) PROVE h \in Requests /\ pc'[h] \in Holding /\ body'[h].token = t
    <2>1. /\ lock' = lock /\ pc[r] = "idle" /\ pc[h] \in Holding
          /\ \A q \in Requests \ {r} : pc'[q] = pc[q] /\ body'[q] = body[q]
      BY <1>1 DEF Arrive
    <2> QED BY <2>1 DEF Holding
  <1>2. ASSUME NEW r \in Requests, Lock(r) PROVE h \in Requests /\ pc'[h] \in Holding /\ body'[h].token = t
    <2>1. /\ lock' = [lock EXCEPT ![body[r].token] = r] /\ pc[r] = "locking" /\ body' = body
          /\ pc' = [pc EXCEPT ![r] = "fetching"]
      BY <1>2 DEF Lock
    <2>2. CASE t = body[r].token
      BY <2>1, <2>2 DEF Holding
    <2>3. CASE t # body[r].token
      BY <2>1, <2>3 DEF Holding
    <2> QED BY <2>2, <2>3
  <1>3. ASSUME NEW r \in Requests, pc' = [pc EXCEPT ![r] = pc'[r]], UNCHANGED body,
               \/ lock' = lock /\ pc'[r] \in Holding
               \/ lock' = ReleasedBy({r})
        PROVE  h \in Requests /\ pc'[h] \in Holding /\ body'[h].token = t
    BY <1>3 DEF ReleasedBy
  <1>4. ASSUME NEW r \in Requests, Step(r) \/ Abort(r) \/ SaveUnreported(r) \/ LandLate(r)
        PROVE  h \in Requests /\ pc'[h] \in Holding /\ body'[h].token = t
    <2>1. CASE LandLate(r)
      BY <2>1 DEF LandLate
    <2>2. CASE ~LandLate(r)
      <3>1. /\ pc' = [pc EXCEPT ![r] = pc'[r]] /\ UNCHANGED body
            /\ \/ lock' = lock /\ pc'[r] \in Holding
               \/ lock' = ReleasedBy({r})
        BY <1>4, <2>2 DEF Step, Fetch, Resume, Decrypt, Moderate, Forward, Receive, Wrap, Save, Reply,
                    Abort, SaveUnreported, Holding
      <3> QED BY <1>3, <3>1
    <2> QED BY <2>1, <2>2
  <1>5. CASE Restart
    BY <1>5 DEF Restart
  <1>6. CASE Done \/ UNCHANGED vars \/ \E k \in Tokens : Expire(k)
    BY <1>6 DEF Done, vars, Expire
  <1> QED BY <1>1, <1>2, <1>4, <1>5, <1>6 DEF Next

(* However requests are repeated, killed and refused, each is at a point   *)
(* of ServeRequest once, and waits for the semaphore of its token only     *)
(* while another request is at work under it.  With the fairness of        *)
(* FairSpec, every request ends.                                           *)
THEOREM RequestsGetOn == Spec => RequestsAdvance /\ []HoldersAtWork
  <1>1. Init => HoldersAtWork
    BY DEF Init, HoldersAtWork
  <1>2. Spec => []HoldersAtWork
    BY <1>1, HolderStep, Inductive, PTL DEF Spec
  <1>3. IInv /\ [Next]_vars =>
          [\A r \in Requests : pc'[r] = pc[r] \/ Position[pc'[r]] > Position[pc[r]]]_vars
    BY RequestStep
  <1>4. Spec => RequestsAdvance
    BY <1>3, Inductive, PTL DEF Spec, RequestsAdvance
  <1> QED BY <1>2, <1>4, PTL
===============================================================================
