--------------------------- MODULE MCLikeRewards ---------------------------
(* Small instances of LikesApart. *)
EXTENDS LikesApart, TLC

CONSTANTS ann, topic, reply

AnnOwnsAll == [t \in Targets |-> ann]
NoAdjustments == {}
\* Only the author, whom likes reward, is rewarded for replies.
OfAnn == [w \in Workers |-> {ann}]

\* Signup and topic rewards are off; replies and likes bring one XP each, once
\* a day.
One == [k \in RewardKinds |-> IF k \in {"post_reward", "like_received"} THEN 1 ELSE 0]
NoCredits == [k \in RewardKinds |-> 0]

LikeRewardsSymmetry == Permutations(Workers)
=============================================================================
