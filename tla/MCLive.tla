------------------------------- MODULE MCLive -------------------------------
(* Every scene. *)
EXTENDS Live
AllScenes == {"notices", "chat", "list", "office"}
=============================================================================
