---------------------------- MODULE MCBlacklist -----------------------------
(* Blacklist with two authors and pages of one.                            *)
EXTENDS Blacklist
=============================================================================
