----------------------------- MODULE MCBackfill -----------------------------
(* Backfill on a small chain: one row in the first second, two in the next, *)
(* so that a batch can end inside a second.                                *)
EXTENDS Backfill

MCCreated == [r \in Rows |-> (r \div 2) + 1]
=============================================================================
