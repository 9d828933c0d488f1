----------------------------- MODULE ThreadApart -----------------------------
(***************************************************************************)
(* Thread with a history variable that tells whether any two goroutines of *)
(* the forum were at work at once, and what holds as long as none were.    *)
(***************************************************************************)
EXTENDS Thread

\* History: some request began while another goroutine was at work.
VARIABLE overlap

apartVars == <<vars, overlap>>

BeginsBesideOthers ==
  InFlight > 0 /\ \E r \in Requests : req[r] = Idle /\ req'[r] # Idle

ApartInit == Init /\ overlap = FALSE

ApartNext == Next /\ overlap' = (overlap \/ BeginsBesideOthers)

ApartSpec == ApartInit /\ [][ApartNext]_apartVars

-----------------------------------------------------------------------------
\* reply_count is the number of visible replies as long as no two goroutines
\* overlapped (CreatePost, SoftDeletePost), restarts in between or not.
ReplyCountExactApart == ~overlap => ReplyCountExact

\* "CreatePost atomically assigns the next floor number": as long as no two
\* goroutines overlapped every floor is given once.
FloorsUniqueApart == ~overlap => FloorsUnique

\* Requests that come one by one, restarts in between or not: the count is the
\* number of visible replies and no floor is given twice.
ThreadExactApart == ReplyCountExactApart /\ FloorsUniqueApart

\* "block a rapid double-submit from the same author in the same topic with
\* identical content": as long as no two goroutines overlapped, no user's reply
\* is inserted beside its recent twin.
NoDoublePostApart ==
  [][\A p \in DOMAIN post' \ DOMAIN post :
       overlap \/ post'[p].bot \/ ~IsDuplicate(post'[p].author, post'[p].topic, post'[p].text)]_apartVars
=============================================================================
