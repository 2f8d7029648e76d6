------------------------------- MODULE MCPages ------------------------------
(* Two lists, one visitor and the warm task; two connections for the four. *)
EXTENDS Pages
=============================================================================
