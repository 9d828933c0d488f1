-------------------------- MODULE RegistrationApart --------------------------
(***************************************************************************)
(* Registration with a history variable that tells whether any two requests*)
(* were at work at once, and what holds as long as none were.              *)
(***************************************************************************)
EXTENDS Registration

\* History: some request began while another was at work.
VARIABLE overlap

apartVars == <<vars, overlap>>

AtWork == {w \in Workers : req[w] # Idle}

BeginsBesideOthers == AtWork # {} /\ \E w \in AtWork' : w \notin AtWork

ApartInit == Init /\ overlap = FALSE

ApartNext == Next /\ overlap' = (overlap \/ BeginsBesideOthers)

ApartSpec == ApartInit /\ [][ApartNext]_apartVars

-----------------------------------------------------------------------------
\* As long as no two requests overlapped one admin was made (Register,
\* EnsureAdminExists), and a code admitted no more accounts than it has uses,
\* those left aside whose redemption a restart cut off.
ExactApart ==
  ~overlap =>
    /\ OneBootstrapAdmin
    /\ \A c \in Codes : Cardinality(Admitted(c) \ cut) <= MaxUses[c]
=============================================================================
