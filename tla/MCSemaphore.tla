----------------------------- MODULE MCSemaphore ------------------------------
(* Three calls that use one handle.                                        *)
EXTENDS Semaphore

CONSTANTS c1, c2, c3, h1

HandleOfMC == [c \in Calls |-> h1]
===============================================================================
