------------------------------ MODULE MCTokenUse ------------------------------
(* TokenUse for TLC: two turns, two tokens.  No symmetry: the run checks a   *)
(* liveness property.                                                        *)
EXTENDS TokenUse
===============================================================================
