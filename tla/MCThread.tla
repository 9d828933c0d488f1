------------------------------ MODULE MCThread ------------------------------
\* Small instances of Thread: one topic opened by the user "ann", a moderator
\* "mod", and reply ids and request slots as model values.
EXTENDS ThreadApart, TLC

CONSTANTS t1, p1, p2, p3

OneTopic == {t1}
OneUser == {"ann"}
TwoUsers == {"ann", "mod"}
ModOnly == {"mod"}
OwnedByAnn == [t \in Topics |-> "ann"]

-----------------------------------------------------------------------------
\* To keep the instance small replies come in as "hello", edits bring "edited",
\* and a run has edits or a restart.
Submitted ==
  \A r \in Requests :
    /\ req'[r] \in Posting => req'[r].text = "hello"
    /\ req'[r].pc = "update" => req'[r].text = "edited" /\ crashes = 0
Edited ==
  \/ \E r \in Requests : req[r].pc = "update"
  \/ \E p \in DOMAIN post : post[p].text = "edited"

MCNext ==
  /\ Next
  /\ Submitted
  /\ Edited => crashes' = 0
  /\ overlap' = (overlap \/ BeginsBesideOthers)

MCSpec == ApartInit /\ [][MCNext]_apartVars

ThreadSymmetry == Permutations(Posts) \cup Permutations(Requests)
=============================================================================
