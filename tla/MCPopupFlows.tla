---------------------------- MODULE MCPopupFlows -----------------------------
(* PopupFlows for TLC: the flows of a kind and the packages are interchangeable. *)
EXTENDS PopupFlows, TLC

FlowSymmetry == Permutations(AuthFlows) \cup Permutations(Purchases) \cup Permutations(Packages)
===============================================================================
