----------------------------- MODULE MCTokenPool ------------------------------
(* A pool of three; a prefetch for every call and every start of the app.  *)
EXTENDS TokenPool

CONSTANTS c1, c2

FourPrefetches == 1..4
===============================================================================
