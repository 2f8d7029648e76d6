------------------------------ MODULE MCWorker ------------------------------
(* Worker on a chain with one post in the first block and two in the next. *)
EXTENDS Worker

MCBlockOf == [p \in Posts |-> (p \div 2) + 1]
=============================================================================
