------------------------------ MODULE MCReports -----------------------------
(* Three requests of one user, whose reputation is low, for two connections. *)
EXTENDS Reports
=============================================================================
