------------------------------- MODULE Sessions -------------------------------
(***************************************************************************)
(* The sessions of one user: signInUser and UserSignOutHandler of          *)
(* src/svc/signin.go, which list the user's sessions, delete them one by   *)
(* one and, for a sign-in, store a new one and hand out its cookie; and    *)
(* AuthMiddleware (src/svc/middlewares.go), which admits a sign-out that   *)
(* carries the cookie of a stored session.  Nothing serialises them.       *)
(*                                                                         *)
(* A step is one database call.  A user's sessions fit one page of the     *)
(* query, which has no ORDER BY: a list may be in any order.  The          *)
(* account's own Upsert in signInUser is in module Ledger.                 *)
(***************************************************************************)
EXTENDS Naturals

CONSTANTS
  SignIns, SignOuts,  \* the requests; a sign-in names the session it makes
  OldSessions,        \* the sessions there are at first
  MaxFaults           \* bound: how many calls the environment may break

Handlers == SignIns \cup SignOuts
Sessions == SignIns \cup OldSessions

ASSUME HandlersAssumption == SignIns \cap SignOuts = {} /\ SignIns \cap OldSessions = {}
ASSUME FaultsAssumption == MaxFaults \in Nat

VARIABLES
  pc,        \* where each request is
  stored,    \* the session documents
  todo,      \* the listed sessions a request has yet to delete
  cookies,   \* the sessions whose cookie some browser has
  lateSaves, lateDeletes,  \* writes given up on that are on their way
  before,    \* history: sessions and cookies there were when a request began
  listed,    \* history: sessions some request has listed
  deleted,   \* history: the sessions each request has deleted
  faults     \* history: how many calls the environment has broken

sessionsVars == <<pc, stored, todo, cookies, lateSaves, lateDeletes, before, listed, deleted, faults>>

Working == {"listing", "deleting", "saving"}
Ended == {"done", "failed", "refused"}

SessionsInit ==
  /\ pc = [h \in Handlers |-> "idle"]
  /\ stored = OldSessions
  /\ todo = [h \in Handlers |-> {}]
  /\ cookies = OldSessions
  /\ lateSaves = {} /\ lateDeletes = {}
  /\ before = [h \in Handlers |-> {}]
  /\ listed = {}
  /\ deleted = [h \in Handlers |-> {}]
  /\ faults = 0

Goto(h, l) == pc' = [pc EXCEPT ![h] = l]
Put(x) == stored' = stored \cup {x}
Drop(x) == stored' = stored \ {x}

(* Where a request goes when it has deleted what it listed.                *)
AfterClearing(h) == IF h \in SignIns THEN "saving" ELSE "done"

Begin(h) ==
  /\ pc[h] = "idle"
  /\ \/ /\ h \in SignIns
        /\ Goto(h, "listing")
     \/ /\ h \in SignOuts
        /\ \E c \in cookies :
             Goto(h, IF c \in stored THEN "listing" ELSE "refused")
  /\ before' = [before EXCEPT ![h] = cookies \cup stored]
  /\ UNCHANGED <<stored, todo, cookies, lateSaves, lateDeletes, listed, deleted, faults>>

(* Seeded fault: one session is left out. *)
ListAllButOne(h) ==
  /\ pc[h] = "listing"
  /\ \E x \in stored : todo' = [todo EXCEPT ![h] = stored \ {x}]
  /\ Goto(h, IF todo'[h] = {} THEN AfterClearing(h) ELSE "deleting")
  /\ listed' = listed \cup stored
  /\ UNCHANGED <<stored, cookies, lateSaves, lateDeletes, before, deleted, faults>>

List(h) ==
  /\ pc[h] = "listing"
  /\ todo' = [todo EXCEPT ![h] = stored]
  /\ Goto(h, IF stored = {} THEN AfterClearing(h) ELSE "deleting")
  /\ listed' = listed \cup stored
  /\ UNCHANGED <<stored, cookies, lateSaves, lateDeletes, before, deleted, faults>>

(* Seeded fault: a deletion is sent twice, and is an error the second time. *)
DeleteTwice(h) ==
  /\ pc[h] = "deleting"
  /\ \E x \in todo[h] :
       /\ Drop(x)
       /\ deleted' = [deleted EXCEPT ![h] = @ \cup ({x} \cap stored)]
  /\ Goto(h, "failed")
  /\ UNCHANGED <<todo, cookies, lateSaves, lateDeletes, before, listed, faults>>

(* Deleting a session that is gone already is an error.                    *)
Delete(h) ==
  /\ pc[h] = "deleting"
  /\ \E x \in todo[h] :
       \/ /\ x \in stored
          /\ Drop(x)
          /\ todo' = [todo EXCEPT ![h] = @ \ {x}]
          /\ deleted' = [deleted EXCEPT ![h] = @ \cup {x}]
          /\ Goto(h, IF todo[h] = {x} THEN AfterClearing(h) ELSE "deleting")
       \/ /\ x \notin stored
          /\ Goto(h, "failed")
          /\ UNCHANGED <<stored, todo, deleted>>
  /\ UNCHANGED <<cookies, lateSaves, lateDeletes, before, listed, faults>>

(* Seeded fault: the cookie does not depend on the Upsert's success.       *)
SaveOrNot(s) ==
  /\ pc[s] = "saving"
  /\ Put(s) \/ UNCHANGED stored
  /\ cookies' = cookies \cup {s}
  /\ Goto(s, "done")
  /\ UNCHANGED <<todo, lateSaves, lateDeletes, before, listed, deleted, faults>>

Save(s) ==
  /\ pc[s] = "saving"
  /\ Put(s)
  /\ cookies' = cookies \cup {s}
  /\ Goto(s, "done")
  /\ UNCHANGED <<todo, lateSaves, lateDeletes, before, listed, deleted, faults>>

(* A database call fails, or its answer is lost, or the server goes down:  *)
(* a write may have happened, may never, or may be on its way.             *)
Break(h) ==
  /\ pc[h] \in Working
  /\ faults < MaxFaults
  /\ faults' = faults + 1
  /\ Goto(h, "failed")
  /\ \/ UNCHANGED <<stored, lateSaves, lateDeletes>>
     \/ /\ pc[h] = "saving"
        /\ \/ Put(h) /\ UNCHANGED lateSaves
           \/ lateSaves' = lateSaves \cup {h} /\ UNCHANGED stored
        /\ UNCHANGED lateDeletes
     \/ /\ pc[h] = "deleting"
        /\ \E x \in todo[h] :
             \/ Drop(x) /\ UNCHANGED lateDeletes
             \/ lateDeletes' = lateDeletes \cup {x} /\ UNCHANGED stored
        /\ UNCHANGED lateSaves
  /\ UNCHANGED <<todo, cookies, before, listed, deleted>>

LandLate ==
  /\ \/ \E s \in lateSaves :
          /\ Put(s)
          /\ lateSaves' = lateSaves \ {s}
          /\ UNCHANGED lateDeletes
     \/ \E x \in lateDeletes :
          /\ Drop(x)
          /\ lateDeletes' = lateDeletes \ {x}
          /\ UNCHANGED lateSaves
  /\ UNCHANGED <<pc, todo, cookies, before, listed, deleted, faults>>

AllEnded == (\A h \in Handlers : pc[h] \in Ended) /\ UNCHANGED sessionsVars

SessionsNext ==
  \/ \E h \in Handlers : Begin(h) \/ List(h) \/ Delete(h) \/ Break(h)
  \/ \E s \in SignIns : Save(s)
  \/ LandLate
  \/ AllEnded

SessionsSpec == SessionsInit /\ [][SessionsNext]_sessionsVars
-------------------------------------------------------------------------------

(* Once a sign-out or a sign-in has succeeded, no session and no cookie of *)
(* the time it began is good any more, nor will be.                        *)
ClearedForGood ==
  \A h \in Handlers : pc[h] = "done" => before[h] \cap stored = {}

(* A browser holds a cookie that works, or one a later clearing has met.   *)
CookiesWork == cookies \ stored \subseteq listed

(* However requests meet over the same sessions, unless a call breaks they *)
(* all fail only if two of them deleted one session each.  So over a       *)
(* single session they do not all fail: who deletes it goes on.            *)
SomeoneSucceeds ==
  (faults = 0 /\ \A h \in Handlers : pc[h] \in Ended) =>
    \/ \A h \in Handlers : pc[h] = "refused"
    \/ \E h \in Handlers : pc[h] = "done"
    \/ \E g, h \in Handlers : g # h /\ deleted[g] # {} /\ deleted[h] # {}
===============================================================================
