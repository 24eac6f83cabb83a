-------------------------------- MODULE MCPage --------------------------------
(* Page for TLC. *)
EXTENDS Page, TLC

(* Nothing, a word between an image by data and one by link, words with     *)
(* marks of images that are none, and what begins an image.                 *)
TypedMC ==
  {<<>>} \cup (Data \X Words \X Links)
    \cup UNION {{<<w, "]", "](", w, ")">>, <<"![", w, "](">>} : w \in Words}

(* Only one part moves, so one permutation may stand for a change of names  *)
(* in each: the parts are given the same values for what is interchangeable.*)
Symmetry == Permutations(Images \cup Notices) \cup Permutations(Batches \cup UserMessages \cup Places)
===============================================================================
