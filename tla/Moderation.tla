------------------------------ MODULE Moderation ------------------------------
(***************************************************************************)
(* Content moderation: ContentModerator.AnalyzeGPTReq                      *)
(* (src/llm-proxy/content_moderator.go) walks over a request's messages    *)
(* with ChatGPTContentChunker (content_chunker.go), cuts texts into        *)
(* chunks, has each chunk analysed by the vendor unless the database has   *)
(* its analysis, and merges what it gets into one severity per category.   *)
(*                                                                         *)
(* A request is a sequence of messages.  The content of a message is a     *)
(* string or a list of parts; a text is given by its 9000-byte chunks, an  *)
(* image is one chunk.  A step is a call of Next, or a network call.       *)
(***************************************************************************)
EXTENDS Naturals, Sequences, SequencesExt, FiniteSetsExt

CONSTANTS
  Moderations,  \* invocations of AnalyzeGPTReq
  Chunks,       \* chunks of text and images; the key of TextAnalysis documents
  Requests,     \* what AnalyzeGPTReq is called with
  Categories,
  Analyses,     \* Analyses[c]: what the vendor may find in c
  MaxSeverity,
  None,
  MaxFaults     \* bound: how many calls the environment may break

Analysis == [Categories -> 0..MaxSeverity]
Parts == [type : {"text", "image_url", "other"}, chunks : Seq(Chunks)]
Messages ==
  [kind : {"string"}, chunks : Seq(Chunks)] \cup [kind : {"parts"}, parts : Seq(Parts)]

ASSUME RequestsAssumption == Requests \subseteq Seq(Messages)
ASSUME AnalysesAssumption ==
  /\ MaxSeverity \in Nat /\ MaxFaults \in Nat
  /\ Analyses \in [Chunks -> (SUBSET Analysis) \ {{}}]
  /\ None \notin Analysis \cup Requests

VARIABLES
  stage,     \* where each invocation is
  msgs,      \* the messages it walks over
  idx,       \* its message, counted from 1
  partIdx,   \* its part of that message, counted from 1
  todo,      \* the chunks of its content it has yet to look at
  found,     \* the analysis it was last given by the vendor
  verdict,   \* the severities merged so far
  cache,     \* the TextAnalysis documents
  late,      \* <<chunk, analysis>> whose Upsert was given up on
  known,     \* history: the analyses the vendor gave of each chunk
  faults     \* history: how many calls the environment broke

walk == <<msgs, idx, partIdx>>
modVars == <<stage, msgs, idx, partIdx, todo, found, verdict, cache, late, known, faults>>

Working == {"next", "looking", "analyzing", "saving"}
Over == {"done", "failed"}
Harmless == [k \in Categories |-> 0]

ModInit ==
  /\ stage = [m \in Moderations |-> "idle"]
  /\ msgs = [m \in Moderations |-> <<>>]
  /\ idx = [m \in Moderations |-> 1]
  /\ partIdx = [m \in Moderations |-> 1]
  /\ todo = [m \in Moderations |-> <<>>]
  /\ found = [m \in Moderations |-> Harmless]
  /\ verdict = [m \in Moderations |-> Harmless]
  /\ cache = [c \in Chunks |-> None]
  /\ late = {}
  /\ known = [c \in Chunks |-> {}]
  /\ faults = 0

MoveTo(m, l) == stage' = [stage EXCEPT ![m] = l]

Begin(m) ==
  /\ stage[m] = "idle"
  /\ \E q \in Requests : msgs' = [msgs EXCEPT ![m] = q]
  /\ MoveTo(m, "next")
  /\ UNCHANGED <<idx, partIdx, todo, found, verdict, cache, late, known, faults>>

-------------------------------------------------------------------------------
(* The chunker.                                                            *)

(* Seeded fault: a message is not left behind.                             *)
AdvanceNever(m, n) ==
  /\ partIdx' = [partIdx EXCEPT ![m] = IF @ = n THEN 1 ELSE @ + 1]
  /\ UNCHANGED idx

(* To the next of the n parts, or from the last to the next message.       *)
Advance(m, n) ==
  /\ idx' = [idx EXCEPT ![m] = IF partIdx[m] = n THEN @ + 1 ELSE @]
  /\ partIdx' = [partIdx EXCEPT ![m] = IF @ = n THEN 1 ELSE @ + 1]

(* Content without chunks (an empty text) is passed over.                  *)
Take(m, chunks) ==
  /\ todo' = [todo EXCEPT ![m] = chunks]
  /\ MoveTo(m, IF chunks = <<>> THEN "next" ELSE "looking")

HasNext(m) == idx[m] <= Len(msgs[m])
Message(m) == msgs[m][idx[m]]

NextString(m) ==
  /\ stage[m] = "next" /\ HasNext(m)
  /\ Message(m).kind = "string"
  /\ Take(m, Message(m).chunks)
  /\ idx' = [idx EXCEPT ![m] = @ + 1]
  /\ UNCHANGED <<msgs, partIdx, found, verdict, cache, late, known, faults>>

NextPart(m) ==
  /\ stage[m] = "next" /\ HasNext(m)
  /\ Message(m).kind = "parts" /\ Message(m).parts # <<>>
  /\ LET part == Message(m).parts[partIdx[m]] IN
       /\ part.type # "other"
       /\ Take(m, part.chunks)
  /\ Advance(m, Len(Message(m).parts))
  /\ UNCHANGED <<msgs, found, verdict, cache, late, known, faults>>

(* An empty list of parts is indexed out of range and panics; a part of    *)
(* another type is an error.                                               *)
NextBroken(m) ==
  /\ stage[m] = "next" /\ HasNext(m)
  /\ Message(m).kind = "parts"
  /\ IF Message(m).parts = <<>> THEN TRUE ELSE Message(m).parts[partIdx[m]].type = "other"
  /\ MoveTo(m, "failed")
  /\ UNCHANGED <<todo, found, verdict, cache, late, known, faults>>
  /\ UNCHANGED walk

Finish(m) ==
  /\ stage[m] = "next" /\ ~HasNext(m)
  /\ MoveTo(m, "done")
  /\ UNCHANGED <<todo, found, verdict, cache, late, known, faults>>
  /\ UNCHANGED walk

-------------------------------------------------------------------------------
(* analyzeContentWithCaching and the merge.                                *)

(* Seeded fault: the last analysis of a category stands.                   *)
MergeLast(v, a) == [k \in DOMAIN v |-> a[k]]

MergeAnalysis(v, a) == [k \in DOMAIN v |-> IF a[k] > v[k] THEN a[k] ELSE v[k]]

Merge(m, a) ==
  /\ verdict' = [verdict EXCEPT ![m] = MergeAnalysis(@, a)]
  /\ todo' = [todo EXCEPT ![m] = Tail(@)]
  /\ MoveTo(m, IF Len(todo[m]) = 1 THEN "next" ELSE "looking")

Look(m) ==
  /\ stage[m] = "looking"
  /\ LET a == cache[Head(todo[m])] IN
       \/ /\ a # None
          /\ Merge(m, a)
       \/ /\ a = None
          /\ MoveTo(m, "analyzing")
          /\ UNCHANGED <<todo, verdict>>
  /\ UNCHANGED <<found, cache, late, known, faults>>
  /\ UNCHANGED walk

Analyze(m) ==
  /\ stage[m] = "analyzing"
  /\ LET c == Head(todo[m]) IN
       \E a \in Analyses[c] :
         /\ found' = [found EXCEPT ![m] = a]
         /\ known' = [known EXCEPT ![c] = @ \cup {a}]
  /\ MoveTo(m, "saving")
  /\ UNCHANGED <<todo, verdict, cache, late, faults>>
  /\ UNCHANGED walk

Save(m) ==
  /\ stage[m] = "saving"
  /\ cache' = [cache EXCEPT ![Head(todo[m])] = found[m]]
  /\ Merge(m, found[m])
  /\ UNCHANGED <<found, late, known, faults>>
  /\ UNCHANGED walk

(* A call fails (an image the vendor cannot read, too), its answer is lost *)
(* or the client leaves; an Upsert may still happen.                       *)
Break(m) ==
  /\ stage[m] \in Working \ {"next"}
  /\ faults < MaxFaults
  /\ faults' = faults + 1
  /\ MoveTo(m, "failed")
  /\ \/ UNCHANGED <<cache, late>>
     \/ /\ stage[m] = "saving"
        /\ cache' = [cache EXCEPT ![Head(todo[m])] = found[m]]
        /\ UNCHANGED late
     \/ /\ stage[m] = "saving"
        /\ late' = late \cup {<<Head(todo[m]), found[m]>>}
        /\ UNCHANGED cache
  /\ UNCHANGED <<todo, found, verdict, known>>
  /\ UNCHANGED walk

LandLate ==
  /\ \E w \in late :
       /\ cache' = [cache EXCEPT ![w[1]] = w[2]]
       /\ late' = late \ {w}
  /\ UNCHANGED <<stage, todo, found, verdict, known, faults>>
  /\ UNCHANGED walk

ModStep(m) ==
  \/ Begin(m) \/ NextString(m) \/ NextPart(m) \/ NextBroken(m) \/ Finish(m)
  \/ Look(m) \/ Analyze(m) \/ Save(m)
ModDone == (\A m \in Moderations : stage[m] \in Over) /\ UNCHANGED modVars

ModNext == (\E m \in Moderations : ModStep(m) \/ Break(m)) \/ LandLate \/ ModDone

ModSpec == ModInit /\ [][ModNext]_modVars

(* Calls that have begun end; the vendor and the database answer.          *)
ModFairSpec == ModSpec /\ \A m \in Moderations : WF_modVars(ModStep(m))
-------------------------------------------------------------------------------
(* What an analysis of the whole request is about: a definition of its     *)
(* own, that knows of no order and no indices.                             *)

ChunksOf(msg) ==
  IF msg.kind = "string" THEN ToSet(msg.chunks)
  ELSE UNION {ToSet(msg.parts[i].chunks) : i \in 1..Len(msg.parts)}
Content(q) == UNION {ChunksOf(q[i]) : i \in 1..Len(q)}

(* A verdict leaves no chunk of the request out and makes nothing up: it   *)
(* is at least some analysis the vendor gave of each chunk, and each of    *)
(* its severities is one the vendor gave.  AnalyzeGPTReq, over the         *)
(* chunker's two indices, the cache and other requests that fill it.       *)
VerdictCoversRequest ==
  \A m \in Moderations : stage[m] = "done" =>
    LET content == Content(msgs[m]) IN
    /\ \A c \in content : \E a \in known[c] : \A k \in Categories : a[k] <= verdict[m][k]
    /\ \A k \in Categories :
         \/ verdict[m][k] = 0
         \/ \E c \in content : \E a \in known[c] : a[k] = verdict[m][k]

(* Every moderation ends: the chunker always gets on.                      *)
EveryModerationEnds == \A m \in Moderations : stage[m] # "idle" ~> stage[m] \in Over

(* What that rests on: a step of a moderation ends it, or takes the index  *)
(* of messages forward, or that of parts within a message, or shortens the *)
(* list it has to look at, or brings an analysis further.                  *)
Further(m) ==
  \/ stage[m] = "idle" /\ stage'[m] = "next"
  \/ idx'[m] > idx[m]
  \/ idx'[m] = idx[m] /\ partIdx'[m] > partIdx[m]
  \/ /\ idx'[m] = idx[m] /\ partIdx'[m] = partIdx[m]
     /\ \/ Len(todo'[m]) < Len(todo[m])
        \/ /\ todo'[m] = todo[m]
           /\ <<stage[m], stage'[m]>> \in {<<"looking", "analyzing">>, <<"analyzing", "saving">>}
WalksAdvance ==
  [][\A m \in Moderations : stage'[m] \in Over \/ Further(m)
        \/ UNCHANGED <<stage[m], idx[m], partIdx[m], todo[m]>>]_modVars
===============================================================================
