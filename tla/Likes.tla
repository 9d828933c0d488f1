------------------------------- MODULE Likes -------------------------------
(***************************************************************************)
(* Likes of topics and posts: ToggleTopicLike and TogglePostLike           *)
(* (internal/forum/service.go) over repository.ToggleLike.                 *)
(*                                                                         *)
(* ToggleLike is one READ COMMITTED transaction: it looks the like up,     *)
(* deletes that row or inserts a new one, and moves the like_count column  *)
(* of the target.  The look-up takes no lock, so it is a step of its own;  *)
(* the two writes are one step, at the commit (see Thread).                *)
(***************************************************************************)
EXTENDS Site, Integers, FiniteSets

CONSTANTS
  Targets,     \* topics and posts
  OwnerOf,     \* the author of each target
  AnonTargets, \* targets on anonymous boards
  MaxLikes     \* bound: rows ever inserted into likes

ASSUME LikesAssumption ==
  /\ OwnerOf \in [Targets -> Users]
  /\ AnonTargets \subseteq Targets
  /\ MaxLikes \in Nat

VARIABLES
  likes,      \* the rows of table likes
  nextId,     \* its primary key sequence
  likeCount,  \* the like_count column of each target
  deleted,    \* targets whose deleted_at is set
  toggle      \* where each request is

likesVars == <<likes, nextId, likeCount, deleted, toggle>>

LikeRow == [id: Nat, user: Users, target: Targets]

Idle == [pc |-> "idle"]

Toggling == [pc: {"delete", "insert", "target", "tell"},
             user: Users, target: Targets, row: Nat]

\* Only the author of a signed topic or post hears of a like, never of his own.
Fits(q) == q.pc = "tell" => q.target \notin AnonTargets /\ OwnerOf[q.target] # q.user

LikesTypeOK ==
  /\ likes \subseteq LikeRow
  /\ nextId \in Nat
  /\ likeCount \in [Targets -> Int]
  /\ deleted \subseteq Targets
  /\ toggle \in [Workers -> {Idle} \cup Toggling]
  /\ \A w \in Workers : Fits(toggle[w])

LikesInit ==
  /\ likes = {}
  /\ nextId = 0
  /\ likeCount = [t \in Targets |-> 0]
  /\ deleted = {}
  /\ toggle = [w \in Workers |-> Idle]

LikesOf(t) == {l \in likes : l.target = t}

-----------------------------------------------------------------------------
Done(w) == toggle' = [toggle EXCEPT ![w] = Idle]

Inserting == {w \in Workers : toggle[w] # Idle}

\* The SELECT of ToggleLike: the row found is remembered by its primary key.
Lookup(w, u, t) ==
  LET mine == {l \in LikesOf(t) : l.user = u}
  IN /\ toggle[w] = Idle
     /\ nextId + Cardinality(Inserting) < MaxLikes
     /\ \/ /\ mine = {}
           /\ toggle' = [toggle EXCEPT ![w] = [pc |-> "insert", user |-> u, target |-> t, row |-> 0]]
        \/ \E l \in mine :
             toggle' = [toggle EXCEPT ![w] =
                          [pc |-> "delete", user |-> u, target |-> t, row |-> l.id]]
     /\ UNCHANGED <<likes, nextId, likeCount, deleted>>

\* Slip: the counter is left alone.
DeleteUncounted(w) ==
  /\ toggle[w].pc = "delete"
  /\ likes' = {l \in likes : l.id # toggle[w].row}
  /\ Done(w)
  /\ UNCHANGED <<likeCount, nextId, deleted>>

\* DELETE by primary key.  It is no error if the row is gone: the counter is
\* decremented all the same.
DeleteLike(w) ==
  /\ toggle[w].pc = "delete"
  /\ likes' = {l \in likes : l.id # toggle[w].row}
  /\ likeCount' = [likeCount EXCEPT ![toggle[w].target] = @ - 1]
  /\ Done(w)
  /\ UNCHANGED <<nextId, deleted>>

\* Slip: the unique index is missing.
NeverTaken(u, t) == FALSE

\* The unique index on (user_id, target_type, target_id) refuses the row.
Taken(u, t) == \E l \in LikesOf(t) : l.user = u

InsertLike(w) ==
  LET u == toggle[w].user
      t == toggle[w].target
  IN /\ toggle[w].pc = "insert"
     /\ ~Taken(u, t)
     /\ likes' = likes \cup {[id |-> nextId, user |-> u, target |-> t]}
     /\ nextId' = nextId + 1
     /\ likeCount' = [likeCount EXCEPT ![t] = @ + 1]
     /\ toggle' = [toggle EXCEPT ![w].pc = "target"]
     /\ UNCHANGED deleted

\* The unique index fails the INSERT: the transaction rolls back.
InsertRefused(w) ==
  /\ toggle[w].pc = "insert"
  /\ Taken(toggle[w].user, toggle[w].target)
  /\ Done(w)
  /\ UNCHANGED <<likes, nextId, likeCount, deleted>>

\* After a like: TopicByID or PostByID, and who must not be told or rewarded.
ReadTarget(w) ==
  LET t == toggle[w].target
  IN /\ toggle[w].pc = "target"
     /\ IF t \in deleted \/ t \in AnonTargets \/ OwnerOf[t] = toggle[w].user
          THEN Done(w)
          ELSE toggle' = [toggle EXCEPT ![w].pc = "tell"]
     /\ UNCHANGED <<likes, nextId, likeCount, deleted>>

\* NotifyLike and the call of AwardLikeReceived, which module LikeRewards joins
\* to this step.
TellOwner(w) ==
  /\ toggle[w].pc = "tell"
  /\ Done(w)
  /\ UNCHANGED <<likes, nextId, likeCount, deleted>>

\* A moderator deletes the topic or the post; its likes stay.
DeleteTarget(t) ==
  /\ t \notin deleted
  /\ deleted' = deleted \cup {t}
  /\ UNCHANGED <<likes, nextId, likeCount, toggle>>

\* Everything a request does but the call into the wallet.
ToggleStep(w) ==
  \/ \E u \in Users, t \in Targets : Lookup(w, u, t)
  \/ DeleteLike(w) \/ InsertLike(w) \/ InsertRefused(w) \/ ReadTarget(w)

LikesNext ==
  \/ \E w \in Workers : ToggleStep(w) \/ TellOwner(w)
  \/ \E t \in Targets : DeleteTarget(t)

LikesSpec == LikesInit /\ [][LikesNext]_likesVars

-----------------------------------------------------------------------------
\* One vote for each user and target, however the requests of a user overlap
\* (the unique index of table likes).
OneVote ==
  \A k, l \in likes : k.user = l.user /\ k.target = l.target => k = l

\* like_count never claims more likes than there are rows: an unlike that finds
\* its row gone still decrements, a like that loses the race is rolled back.
LikeCountNeverOver ==
  \A t \in Targets : likeCount[t] <= Cardinality(LikesOf(t))

\* "flips a like row and bumps/decrements the denormalized count on the target
\* in one transaction": the counter is the number of rows.
LikeCountExact ==
  \A t \in Targets : likeCount[t] = Cardinality(LikesOf(t))
=============================================================================
