---------------------------- MODULE MCPostStore -----------------------------
(* PostStore with two communities and two authors; the second post may be  *)
(* moved from one community to the other, the third is in none.            *)
EXTENDS PostStore, TLC

CONSTANTS stream, backfill

MCTagsOf ==
  [p \in Posts |-> CASE p = 1 -> {"c"} [] p = 2 -> {"c", "d"} [] p = 3 -> {NoCommunity}]
MCAuthorOf == [p \in Posts |-> IF p = 1 THEN "a" ELSE "b"]

MCSavers == {stream, backfill}
Symmetry == Permutations(MCSavers)
=============================================================================
