----------------------------- MODULE MCRedemption -----------------------------
(* Small instances of Redemption for TLC.                                  *)
EXTENDS Redemption

CONSTANTS r1, r2, r3, t1, t2, s1, s2, m1, m2, hello, rude

Body(f, t, s, m, p) == [form |-> f, token |-> t, sig |-> s, model |-> m, prompt |-> p]

MCVerified == {<<t1, s1, m1>>, <<t1, s2, m2>>, <<t2, s1, m1>>}

(* On one token: a request, an offensive one, one under the token's second *)
(* signature, one with a signature that does not verify, an oversized one; *)
(* and a request on another token.                                         *)
MixedBodies ==
  {Body("ok", t1, s1, m1, hello), Body("ok", t1, s1, m1, rude),
   Body("ok", t1, s2, m2, hello), Body("ok", t1, s2, m1, hello),
   Body("oversized", t1, s1, m1, hello), Body("ok", t2, s1, m1, hello)}
===============================================================================
