----------------------------- MODULE MCSessions -----------------------------
(* Sessions for TLC: two connections and one id that both may log in with.  *)
EXTENDS Sessions, TLC

CONSTANTS k1, k2, ann, noOne

MCKeys == {k1, k2}
MCIds == {ann}
MCMaxFailed == k1 :> 2 @@ k2 :> 0
=============================================================================
