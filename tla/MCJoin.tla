------------------------------- MODULE MCJoin -------------------------------
(* Small instances of Join for TLC: two threads share one flow's handle. *)
EXTENDS Join, TLC

CONSTANTS f1, f2, j1, j2, w1

Shares == (j1 :> f1) @@ (j2 :> f1)
=============================================================================
