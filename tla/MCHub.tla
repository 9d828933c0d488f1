------------------------------- MODULE MCHub -------------------------------
(* Small instances of Hub: two tabs of "ann", the first opened with a
   token from before "ann" became an admin. *)
EXTENDS Hub, TLC

CONSTANTS ann, bob, tab1, tab2

Owners == (tab1 :> ann) @@ (tab2 :> ann)
=============================================================================
