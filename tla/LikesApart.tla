----------------------------- MODULE LikesApart -----------------------------
(***************************************************************************)
(* LikeRewards with a history variable that tells whether any two requests *)
(* were at work at once, and what holds as long as none were.              *)
(***************************************************************************)
EXTENDS LikeRewards

\* History: some request began while another was at work.
VARIABLE overlap

apartVars == <<likeRewardsVars, overlap>>

BeginsBesideOthers == AtWork # {} /\ \E w \in AtWork' : w \notin AtWork

ApartInit == LikeRewardsInit /\ overlap = FALSE

ApartNext == LikeRewardsNext /\ overlap' = (overlap \/ BeginsBesideOthers)

ApartSpec == ApartInit /\ [][ApartNext]_apartVars

-----------------------------------------------------------------------------
\* "flips a like row and bumps/decrements the denormalized count on the target
\* in one transaction": as long as no two requests overlapped like_count is the
\* number of like rows, restarts in between or not.
LikeCountExactApart == ~overlap => LikeCountExact

\* "re-toggling a like never yields more than one XP per (post, liker) pair", as
\* long as no two requests overlapped: likes given and taken back any number of
\* times, over midnight and restarts, are rewarded once.
LikeRewardedOnceApart == ~overlap => LikeRewardedOnce

\* Requests that come one by one: the counter is exact, a like is rewarded once.
LikesExactApart == LikeCountExactApart /\ LikeRewardedOnceApart
=============================================================================
