----------------------------- MODULE MCSession ------------------------------
(* Two accounts, two tabs. *)
EXTENDS Session
CONSTANTS ann, bob, tab1, tab2
=============================================================================
