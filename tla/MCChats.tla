------------------------------- MODULE MCChats --------------------------------
(* Chats for TLC: turns are interchangeable. *)
EXTENDS Chats, TLC

TurnSymmetry == Permutations(Turns)
===============================================================================
