-------------------------------- MODULE Orders ------------------------------
(* Sets of posts in the order of their numbers, the newest first.          *)
EXTENDS Naturals, FiniteSets, Sequences

Above(S, p) == {r \in S : r > p}

Newest(S, n) == {p \in S : Cardinality(Above(S, p)) < n}

InOrder(S) ==
  [i \in 1 .. Cardinality(S) |-> CHOOSE p \in S : Cardinality(Above(S, p)) = i - 1]

\* What is left of the sequence s, in its order, without the members of M.
Without(s, M) ==
  LET kept == InOrder({i \in DOMAIN s : s[i] \notin M})
  IN  [j \in 1 .. Len(kept) |-> s[kept[Len(kept) + 1 - j]]]
=============================================================================
