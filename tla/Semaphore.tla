------------------------------ MODULE Semaphore -------------------------------
(***************************************************************************)
(* The named semaphores of src/common/semaphore.go, which serialise the    *)
(* redemptions of a token and the issues of an account.  A manager keeps a *)
(* semaphore per handle, made at first use under the manager's mutex, and  *)
(* AcquireSemaphore then waits on it under no lock of its own.  Every      *)
(* caller uses BinarySemaphoreConf, so a semaphore has one unit.           *)
(*                                                                         *)
(* The semaphore is semaphore.Weighted of golang.org/x/sync: waiters are   *)
(* served in the order of their arrival, a call whose context is done      *)
(* leaves the queue, and one that is granted the unit and finds itself     *)
(* cancelled puts it back.  Its operations are atomic, under its own mutex.*)
(***************************************************************************)
EXTENDS Naturals, FiniteSets

CONSTANTS
  Calls,      \* calls that acquire and later release a semaphore
  Handles,    \* the names they use
  HandleOf,   \* the name each call uses
  Nil

ASSUME CallsAssumption == IsFiniteSet(Calls) /\ HandleOf \in [Calls -> Handles] /\ Nil \notin Calls

VARIABLES
  pc,         \* where each call is
  manager,    \* the call that holds the manager's mutex, or Nil
  made,       \* how many semaphores were made: they are 1..made
  handles,    \* the manager's map: the semaphore of a handle, or 0
  sem,        \* the semaphore a call found, or 0
  held,       \* the semaphores whose unit is taken
  arrivals,   \* how many calls have come to a semaphore
  ticket,     \* which of them each call was, or 0
  cancelled   \* the calls whose context is done

vars == <<pc, manager, made, handles, sem, held, arrivals, ticket, cancelled>>

AtManager == {"finding", "creating", "refinding"}
InSection == {"holding", "leaving", "refinding", "releasing"}
Ended == {"done", "failed", "panicked"}
Places == AtManager \cup InSection \cup Ended \cup {"idle", "acquiring", "queued", "granted"}

Init ==
  /\ pc = [c \in Calls |-> "idle"]
  /\ manager = Nil
  /\ made = 0
  /\ handles = [h \in Handles |-> 0]
  /\ sem = [c \in Calls |-> 0]
  /\ held = {}
  /\ arrivals = 0
  /\ ticket = [c \in Calls |-> 0]
  /\ cancelled = {}

Goto(c, l) == pc' = [pc EXCEPT ![c] = l]
Waiters(s, at) == {w \in Calls : at[w] = "queued" /\ sem[w] = s}

FirstOf(w, W) == w \in W /\ \A v \in W : ticket[w] <= ticket[v]

(* notifyWaiters, when the units in taken are and calls are where at says. *)
NotifyWaiters(s, taken, at) ==
  \/ /\ s \in taken \/ Waiters(s, at) = {}
     /\ held' = taken /\ pc' = at
  \/ /\ s \notin taken
     /\ \E w \in Waiters(s, at) :
          /\ FirstOf(w, Waiters(s, at))
          /\ held' = taken \cup {s}
          /\ pc' = [at EXCEPT ![w] = "granted"]

-------------------------------------------------------------------------------
(* The manager.                                                            *)

(* Seeded fault: the map is read and written under no mutex.               *)
LockNothing(c) ==
  /\ \/ pc[c] = "idle" /\ Goto(c, "finding")
     \/ pc[c] = "leaving" /\ Goto(c, "refinding")
  /\ manager' = c
  /\ UNCHANGED <<made, handles, sem, held, arrivals, ticket, cancelled>>

(* AcquireSemaphore and ReleaseSemaphore lock the manager first.           *)
LockManager(c) ==
  /\ manager = Nil
  /\ \/ pc[c] = "idle" /\ Goto(c, "finding")
     \/ pc[c] = "leaving" /\ Goto(c, "refinding")
  /\ manager' = c
  /\ UNCHANGED <<made, handles, sem, held, arrivals, ticket, cancelled>>

Find(c) ==
  LET s == handles[HandleOf[c]] IN
  /\ pc[c] = "finding"
  /\ \/ /\ s # 0
        /\ sem' = [sem EXCEPT ![c] = s]
        /\ manager' = Nil
        /\ Goto(c, "acquiring")
     \/ /\ s = 0
        /\ Goto(c, "creating")
        /\ UNCHANGED <<sem, manager>>
  /\ UNCHANGED <<made, handles, held, arrivals, ticket, cancelled>>

(* Seeded fault: the new semaphore is not kept.                            *)
CreateLocally(c) ==
  /\ pc[c] = "creating"
  /\ made' = made + 1
  /\ sem' = [sem EXCEPT ![c] = made + 1]
  /\ manager' = Nil
  /\ Goto(c, "acquiring")
  /\ UNCHANGED <<handles, held, arrivals, ticket, cancelled>>
Create(c) ==
  /\ pc[c] = "creating"
  /\ made' = made + 1
  /\ handles' = [handles EXCEPT ![HandleOf[c]] = made + 1]
  /\ sem' = [sem EXCEPT ![c] = made + 1]
  /\ manager' = Nil
  /\ Goto(c, "acquiring")
  /\ UNCHANGED <<held, arrivals, ticket, cancelled>>

(* ReleaseSemaphore looks the semaphore up again.  Its assertion panics    *)
(* with the mutex locked.                                                  *)
Refind(c) ==
  LET s == handles[HandleOf[c]] IN
  /\ pc[c] = "refinding"
  /\ \/ /\ s # 0
        /\ sem' = [sem EXCEPT ![c] = s]
        /\ manager' = Nil
        /\ Goto(c, "releasing")
     \/ /\ s = 0
        /\ Goto(c, "panicked")
        /\ UNCHANGED <<sem, manager>>
  /\ UNCHANGED <<made, handles, held, arrivals, ticket, cancelled>>

-------------------------------------------------------------------------------
(* semaphore.Weighted.                                                     *)

Acquire(c) ==
  /\ pc[c] = "acquiring"
  /\ \/ /\ c \in cancelled
        /\ Goto(c, "failed")
        /\ UNCHANGED <<held, arrivals, ticket>>
     \/ /\ c \notin cancelled
        /\ arrivals' = arrivals + 1
        /\ ticket' = [ticket EXCEPT ![c] = arrivals + 1]
        /\ \/ /\ sem[c] \notin held /\ Waiters(sem[c], pc) = {}
              /\ held' = held \cup {sem[c]}
              /\ Goto(c, "holding")
           \/ /\ sem[c] \in held \/ Waiters(sem[c], pc) # {}
              /\ Goto(c, "queued")
              /\ UNCHANGED held
  /\ UNCHANGED <<manager, made, handles, sem, cancelled>>

(* The waiter finds its ready channel closed, and its context not done.    *)
Wake(c) ==
  /\ pc[c] = "granted"
  /\ c \notin cancelled
  /\ Goto(c, "holding")
  /\ UNCHANGED <<manager, made, handles, sem, held, arrivals, ticket, cancelled>>

(* Seeded faults: what was granted is put back without notice, or kept.    *)
GiveUpQuietly(c) ==
  /\ c \in cancelled
  /\ \/ /\ pc[c] = "queued"
        /\ UNCHANGED held
     \/ /\ pc[c] = "granted"
        /\ held' = held \ {sem[c]}
  /\ Goto(c, "failed")
  /\ UNCHANGED <<manager, made, handles, sem, arrivals, ticket, cancelled>>
GiveUpHolding(c) ==
  /\ c \in cancelled
  /\ pc[c] \in {"queued", "granted"}
  /\ Goto(c, "failed")
  /\ UNCHANGED <<manager, made, handles, sem, held, arrivals, ticket, cancelled>>

(* A cancelled waiter puts back what it was granted; one that was not yet  *)
(* leaves the queue, and when it was the first lets the next one look.     *)
GiveUp(c) ==
  LET failed == [pc EXCEPT ![c] = "failed"] IN
  /\ c \in cancelled
  /\ \/ /\ pc[c] = "granted"
        /\ NotifyWaiters(sem[c], held \ {sem[c]}, failed)
     \/ /\ pc[c] = "queued"
        /\ FirstOf(c, Waiters(sem[c], pc))
        /\ NotifyWaiters(sem[c], held, failed)
     \/ /\ pc[c] = "queued"
        /\ ~FirstOf(c, Waiters(sem[c], pc))
        /\ Goto(c, "failed")
        /\ UNCHANGED held
  /\ UNCHANGED <<manager, made, handles, sem, arrivals, ticket, cancelled>>

(* Releasing more than is held panics.                                     *)
Release(c) ==
  /\ pc[c] = "releasing"
  /\ \/ /\ sem[c] \in held
        /\ NotifyWaiters(sem[c], held \ {sem[c]}, [pc EXCEPT ![c] = "done"])
     \/ /\ sem[c] \notin held
        /\ Goto(c, "panicked")
        /\ UNCHANGED held
  /\ UNCHANGED <<manager, made, handles, sem, arrivals, ticket, cancelled>>

-------------------------------------------------------------------------------
(* The handlers that use it.                                               *)

(* The handler returns; ReleaseSemaphore is deferred.                      *)
Leave(c) ==
  /\ pc[c] = "holding"
  /\ Goto(c, "leaving")
  /\ UNCHANGED <<manager, made, handles, sem, held, arrivals, ticket, cancelled>>

(* The client of the request goes away.                                    *)
Cancel(c) ==
  /\ pc[c] \notin Ended \cup {"idle"}
  /\ c \notin cancelled
  /\ cancelled' = cancelled \cup {c}
  /\ UNCHANGED <<pc, manager, made, handles, sem, held, arrivals, ticket>>

Step(c) ==
  \/ LockManager(c) \/ Find(c) \/ Create(c) \/ Refind(c)
  \/ Acquire(c) \/ Wake(c) \/ GiveUp(c) \/ Release(c) \/ Leave(c)
Done == (\A c \in Calls : pc[c] \in Ended) /\ UNCHANGED vars

Next == (\E c \in Calls : Step(c) \/ Cancel(c)) \/ Done

Spec == Init /\ [][Next]_vars

(* Goroutines run, sync.Mutex does not starve a locker (it hands itself    *)
(* over to one that waited a millisecond), and a handler that holds a      *)
(* semaphore returns.  Clients need not go away.                           *)
Fairness == \A c \in Calls : WF_vars(Step(c)) /\ SF_vars(LockManager(c))
FairSpec == Spec /\ Fairness
-------------------------------------------------------------------------------

TypeOK ==
  /\ pc \in [Calls -> Places]
  /\ manager \in Calls \cup {Nil}
  /\ made \in Nat
  /\ handles \in [Handles -> 0..made]
  /\ sem \in [Calls -> 0..made]
  /\ held \subseteq 1..made
  /\ arrivals \in Nat
  /\ ticket \in [Calls -> 0..arrivals]
  /\ cancelled \subseteq Calls

(* What auth_token.go and llm_proxy.go lock for: between the return of     *)
(* AcquireSemaphore without an error and the end of ReleaseSemaphore, no   *)
(* other call is there with the same handle.                               *)
MutualExclusion ==
  \A c, d \in Calls :
    (c # d /\ HandleOf[c] = HandleOf[d]) => ~(pc[c] \in InSection /\ pc[d] \in InSection)

(* Nobody waits for a unit that is free: a wake-up is never lost, whoever  *)
(* is cancelled and whenever.                                              *)
NobodyWaitsForNothing ==
  \A c \in Calls : pc[c] = "queued" => sem[c] \in held

(* No call is served while one that came to its semaphore earlier waits.   *)
ServedInOrder ==
  \A c, d \in Calls :
    (pc[c] = "queued" /\ pc[d] \in InSection \cup {"granted"} /\ sem[c] = sem[d])
      => ticket[d] < ticket[c]

(* Both, over every order of arrivals, cancellations and releases: what    *)
(* AcquireSemaphore's callers wait for comes to them, in their order.      *)
WaitersAreServed == NobodyWaitsForNothing /\ ServedInOrder

(* The line of FairLine that the calls stand in: the manager and the       *)
(* mutexes, failed look-ups, wake-ups and the walk through the section     *)
(* take no step of it.                                                     *)
PlaceInLine(c) ==
  CASE ticket[c] = 0 -> "away"
    [] ticket[c] # 0 /\ pc[c] = "queued" -> "waiting"
    [] ticket[c] # 0 /\ pc[c] \in InSection \cup {"granted"} -> "served"
    [] OTHER -> "gone"
Line == INSTANCE FairLine WITH
  at <- [c \in Calls |-> PlaceInLine(c)], number <- ticket, drawn <- arrivals

(* What AcquireSemaphore's callers rely on: they stand in one line per     *)
(* handle, and whoever is cancelled and whenever, the step in which one    *)
(* leaves the unit is the step in which it is the next one's.              *)
KeepsLine == Line!Spec

(* ReleaseSemaphore's assertion (semaphore.go:52) and Weighted's check for *)
(* released units that nobody held are never tripped.                      *)
NeverPanics == \A c \in Calls : pc[c] # "panicked"

(* Whoever waits, for the manager's mutex or for a unit, waits for a call  *)
(* that is at work with it and did not end: were the assertion tripped,    *)
(* with the mutex locked, no call would get any semaphore again.           *)
NobodyIsStuck ==
  /\ manager # Nil => pc[manager] \in AtManager
  /\ \A c \in Calls : pc[c] = "queued" =>
       \E d \in Calls : sem[d] = sem[c] /\ pc[d] \in InSection \cup {"granted"}

(* A call that waits gets the semaphore or gives up.                       *)
WaitersGetOn == \A c \in Calls : pc[c] = "queued" ~> pc[c] \in InSection \cup Ended

(* What that rests on, beside NobodyIsStuck: no call is anywhere twice.    *)
Position ==
  [idle |-> 0, finding |-> 1, creating |-> 2, acquiring |-> 3, queued |-> 4, granted |-> 5,
   holding |-> 6, leaving |-> 7, refinding |-> 8, releasing |-> 9,
   done |-> 10, failed |-> 10, panicked |-> 10]
CallsAdvance ==
  [][\A c \in Calls : pc'[c] = pc[c] \/ Position[pc'[c]] > Position[pc[c]]]_vars
===============================================================================
