------------------------------ MODULE MCForms -------------------------------
(* Every page, two saves. *)
EXTENDS Forms
AllPages == {"site", "anon", "profile", "bot"}
MCSaves == 1..2
=============================================================================
