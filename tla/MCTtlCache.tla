----------------------------- MODULE MCTtlCache -----------------------------
(* TtlCache with one guarded key, whose entry the others can push out.     *)
EXTENDS TtlCache

CONSTANTS k1, k2, k3
=============================================================================
