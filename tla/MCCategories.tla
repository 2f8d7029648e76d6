---------------------------- MODULE MCCategories ----------------------------
(* Two categories of two parents; three posts of two authors, two of them of *)
(* one second.                                                               *)
EXTENDS Categories

MCParentOf == "food" :> "lifestyle" @@ "art" :> "creative"
MCAuthorOf == <<"ann", "ann", "bob">>
MCCreatedOf == <<1, 2, 2>>
=============================================================================
