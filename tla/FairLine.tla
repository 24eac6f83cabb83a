------------------------------- MODULE FairLine -------------------------------
(***************************************************************************)
(* What the named semaphores promise, without mutexes, maps and wake-ups:  *)
(* a line per handle.  Whoever comes draws a number; one of a line is      *)
(* served at a time; whoever is in a line may leave it; and when the one   *)
(* that is served leaves, the lowest number of those that wait is served   *)
(* in the same step.  Semaphore implements it (Semaphore!KeepsLine).       *)
(***************************************************************************)
EXTENDS Naturals

CONSTANTS Calls, HandleOf

VARIABLES
  at,      \* "away", "waiting", "served" or "gone"
  number,  \* the number each call drew, or 0
  drawn    \* how many were drawn

lineVars == <<at, number, drawn>>

Init ==
  /\ at = [c \in Calls |-> "away"]
  /\ number = [c \in Calls |-> 0]
  /\ drawn = 0

Waiting(c) == {w \in Calls : HandleOf[w] = HandleOf[c] /\ at[w] = "waiting"}
Served(c) == {w \in Calls : HandleOf[w] = HandleOf[c] /\ at[w] = "served"}

Arrive(c) ==
  /\ at[c] = "away"
  /\ drawn' = drawn + 1
  /\ number' = [number EXCEPT ![c] = drawn + 1]
  /\ \/ Waiting(c) \cup Served(c) = {} /\ at' = [at EXCEPT ![c] = "served"]
     \/ Waiting(c) \cup Served(c) # {} /\ at' = [at EXCEPT ![c] = "waiting"]

GiveUp(c) ==
  /\ at[c] = "waiting"
  /\ at' = [at EXCEPT ![c] = "gone"]
  /\ UNCHANGED <<number, drawn>>

Leave(c) ==
  /\ at[c] = "served"
  /\ \/ Waiting(c) = {} /\ at' = [at EXCEPT ![c] = "gone"]
     \/ \E w \in Waiting(c) :
          /\ \A v \in Waiting(c) : number[w] <= number[v]
          /\ at' = [at EXCEPT ![c] = "gone", ![w] = "served"]
  /\ UNCHANGED <<number, drawn>>

Next == \E c \in Calls : Arrive(c) \/ GiveUp(c) \/ Leave(c)

Spec == Init /\ [][Next]_lineVars
===============================================================================
