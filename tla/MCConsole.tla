------------------------------ MODULE MCConsole ------------------------------
(* Two administrators, two rows, two handlers each. *)
EXTENDS Console

CONSTANTS ann, bea

MCAdmins == {ann, bea}
MCIds == 1..2
MCLanes == 1..2
AllPages == {"users", "bots", "invites", "anon", "topics", "categories", "words",
             "announcements", "reports", "logs", "dashboard", "audit", "botlogs",
             "messages", "notifications", "llm", "credits"}
SharedPages == {"topics"}
Symmetry == Permutations(MCAdmins)
=============================================================================
