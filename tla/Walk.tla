-------------------------------- MODULE Walk --------------------------------
(***************************************************************************)
(* What one backward walk over the chain's history promises, whatever its  *)
(* batches, cursors and retries look like.  A walk is begun with a set of  *)
(* rows it owes a decision on; rows only ever leave that set; and the walk *)
(* may report that it is complete only when it owes nothing.  A walk that  *)
(* is cut short promises nothing about the rest.                           *)
(***************************************************************************)
CONSTANT Rows

VARIABLES status,  \* "idle", "running" or "complete"
          owed     \* rows the running walk has not decided yet

vars == <<status, owed>>

Init == status = "idle" /\ owed = {}

Begin ==
  /\ status = "idle"
  /\ status' = "running"
  /\ owed' \in SUBSET Rows

Settle ==
  /\ status = "running"
  /\ owed' \in SUBSET owed
  /\ UNCHANGED status

Complete ==
  /\ status = "running"
  /\ owed = {}
  /\ status' = "complete"
  /\ UNCHANGED owed

\* The thread is stopped, dies, or its process goes away.
Abort ==
  /\ status' = "idle"
  /\ owed' = {}

Next == Begin \/ Settle \/ Complete \/ Abort

Spec == Init /\ [][Next]_vars
=============================================================================
