------------------------------ MODULE MCSessions ------------------------------
(* Two sessions from overlapping sign-ins of the past, then new requests.  *)
EXTENDS Sessions, TLC

CONSTANTS old1, old2, s1, s2, s3, o1, o2

Sym == Permutations({old1, old2}) \cup Permutations({s1, s2, s3}) \cup Permutations({o1, o2})
===============================================================================
