------------------------------- MODULE MCFeed -------------------------------
(* Three posts on pages of one, the third of them saved later, in the second   *)
(* of the one before.  The server accepts offsets up to one.                   *)
EXTENDS Feed

CreatedValue == <<1, 2, 2>>
=============================================================================
