---------------------------- MODULE LikeRewards ----------------------------
(***************************************************************************)
(* Likes and the rewards they bring: after ToggleLike committed a like,    *)
(* the same request calls AwardLikeReceived for the author of the target.  *)
(* Other requests reward topics, replies and new accounts.                 *)
(***************************************************************************)
EXTENDS Likes, Rewards

ASSUME LikeRewardsAssumption == Targets \ AnonTargets \subseteq Refs

likeRewardsVars == <<likesVars, rewardsVars>>

TypeOK == LikesTypeOK /\ RewardsTypeOK

LikeRewardsInit == LikesInit /\ RewardsInit

AtWork == {w \in Workers : toggle[w] # Idle \/ award[w] # NoAward}

Toggle(w) == award[w] = NoAward /\ ToggleStep(w) /\ UNCHANGED rewardsVars

\* TellOwner and the call of AwardLikeReceived, which returns at once if likes
\* bring no XP.
Reward(w) ==
  LET q == toggle[w]
  IN /\ TellOwner(w)
     /\ IF RewardXP["like_received"] > 0
          THEN BeginLikeAward(w, OwnerOf[q.target], q.target, q.user)
          ELSE UNCHANGED rewardsVars

\* A registration, topic or reply is rewarded.
RewardOther(w, u, kind, ref) ==
  /\ toggle[w] = Idle
  /\ BeginAward(w, u, kind, ref)
  /\ UNCHANGED likesVars

\* Restarts roll open transactions back and end the requests.
CrashAll ==
  /\ CrashRewards
  /\ toggle' = [w \in Workers |-> Idle]
  /\ UNCHANGED <<likes, nextId, likeCount, deleted>>

LikeRewardsNext ==
  \/ \E w \in Workers :
       \/ Toggle(w)
       \/ AwardStep(w) /\ UNCHANGED likesVars
       \/ /\ RoomFor(Rewarding)
          /\ \/ Reward(w)
             \/ \E u \in Users, kind \in RewardKinds, ref \in Refs : RewardOther(w, u, kind, ref)
  \/ \E t \in Targets : DeleteTarget(t) /\ UNCHANGED rewardsVars
  \/ Midnight(Days) /\ UNCHANGED <<award, likesVars>>
  \/ CrashAll

LikeRewardsSpec == LikeRewardsInit /\ [][LikeRewardsNext]_likeRewardsVars

-----------------------------------------------------------------------------
\* XP for a like goes to the author of a signed target, from somebody else
\* (ToggleTopicLike, TogglePostLike and AwardLikeReceived together).
LikeXPGoesToAuthor ==
  \A i \in DOMAIN ledger :
    ledger[i].kind = "like_received" =>
      /\ ledger[i].user = OwnerOf[ledger[i].ref]
      /\ ledger[i].actor # ledger[i].user
      /\ ledger[i].ref \notin AnonTargets

\* However requests overlap, rewards stay inside their bounds: the daily cap and
\* the once-per-liker rule are passed by the overlapping calls at most, and XP
\* for likes goes to the author.
RewardsKept == CapNearlyHeld /\ LikeRewardsBounded /\ LikeXPGoesToAuthor
=============================================================================
