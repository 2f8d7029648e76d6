------------------------------- MODULE MCSeeder -----------------------------
(* Four posts, the newest of them poor and not there at first, and a queue of two. *)
EXTENDS Seeder

MCPoor == {4}
MCTagged == {1, 2}
=============================================================================
