------------------------------ MODULE Rewards ------------------------------
(***************************************************************************)
(* Award and AwardLikeReceived (internal/credits/service.go): the duplicate*)
(* check, the daily cap, then Apply.  Each check is a query of its own,    *)
(* committed before the transaction of Apply begins.                       *)
(***************************************************************************)
EXTENDS Wallet

CONSTANTS
  Refs,      \* rewarded objects: the topics, posts and users ref_type, ref_id name
  RewardXP,  \* configured xp of each kind of reward
  RewardCredits,
  DailyCap,  \* configured daily cap of each kind, 0 for none
  Days       \* bound: days that pass

RewardKinds == {"signup_bonus", "topic_reward", "post_reward", "like_received"}

ASSUME RewardsAssumption ==
  /\ RewardXP \in [RewardKinds -> Nat]
  /\ RewardCredits \in [RewardKinds -> Nat]
  /\ RewardCredits["like_received"] = 0
  /\ DailyCap \in [RewardKinds -> Nat]
  /\ DailyCap["signup_bonus"] = 0
  /\ IsFiniteSet(Workers)

VARIABLE award  \* where each call of Award or AwardLikeReceived is

rewardsVars == <<wallet, ledger, apply, day, restarts, award>>

NoAward == [pc |-> "idle"]

Awarding == [pc: {"dedupe", "cap", "apply"}, user: Users, kind: RewardKinds, ref: Refs,
             actor: Users \cup {NoRef}]

RewardsTypeOK ==
  /\ WalletTypeOK
  /\ award \in [Workers -> {NoAward} \cup Awarding]
  /\ \A w \in Workers :
       /\ award[w].pc # "apply" => apply[w].pc = "idle"
       /\ award[w] # NoAward => award[w].user # award[w].actor

RewardsInit == WalletInit /\ award = [w \in Workers |-> NoAward]

Rewarding == {w \in Workers : award[w] # NoAward}

-----------------------------------------------------------------------------
\* Award returns at once if nothing is configured for the kind.
BeginAward(w, u, kind, ref) ==
  /\ award[w] = NoAward
  /\ u \in Serves[w]
  /\ kind # "like_received"
  /\ RewardXP[kind] # 0 \/ RewardCredits[kind] # 0
  /\ award' = [award EXCEPT ![w] =
       [pc |-> "cap", user |-> u, kind |-> kind, ref |-> ref, actor |-> NoRef]]
  /\ UNCHANGED walletVars

\* AwardLikeReceived: nobody is rewarded for his own likes.
BeginLikeAward(w, u, ref, actor) ==
  /\ award[w] = NoAward
  /\ u \in Serves[w]
  /\ u # actor
  /\ RewardXP["like_received"] > 0
  /\ award' = [award EXCEPT ![w] =
       [pc |-> "dedupe", user |-> u, kind |-> "like_received", ref |-> ref, actor |-> actor]]
  /\ UNCHANGED walletVars

Drop(w) == award' = [award EXCEPT ![w] = NoAward]

\* Rows of AwardLikeReceived for one recipient, object and liker.
LikeRows(u, ref, actor) ==
  {i \in DOMAIN ledger : /\ ledger[i].user = u /\ ledger[i].kind = "like_received"
                         /\ ledger[i].ref = ref /\ ledger[i].actor = actor}

\* Slip: only the rows of today are searched.
AwardedToday(a) ==
  \E i \in LikeRows(a.user, a.ref, a.actor) : ledger[i].day = day

\* LikeAlreadyAwarded
AlreadyAwarded(a) == LikeRows(a.user, a.ref, a.actor) # {}

CheckAwarded(w) ==
  /\ award[w].pc = "dedupe"
  /\ IF AlreadyAwarded(award[w])
       THEN Drop(w)
       ELSE award' = [award EXCEPT ![w].pc = "cap"]
  /\ UNCHANGED walletVars

\* Slip: one more than the cap is let through.
CapPassed(a) ==
  DailyCap[a.kind] > 0 /\ CountToday(a.user, a.kind) > DailyCap[a.kind]

CapReached(a) ==
  DailyCap[a.kind] > 0 /\ CountToday(a.user, a.kind) >= DailyCap[a.kind]

RewardOrder(a) ==
  Order(a.user, a.kind, RewardXP[a.kind], RewardCredits[a.kind], TRUE, a.ref, a.actor)

\* The daily cap, and on to Apply.
CheckCap(w) ==
  /\ award[w].pc = "cap"
  /\ IF CapReached(award[w])
       THEN Drop(w) /\ UNCHANGED apply
       ELSE /\ BeginApply(w, RewardOrder(award[w]))
            /\ award' = [award EXCEPT ![w].pc = "apply"]
  /\ UNCHANGED <<wallet, ledger, day, restarts>>

\* The result of Apply is only logged.
EndAward(w) ==
  /\ award[w].pc = "apply"
  /\ EndApply(w)
  /\ Drop(w)
  /\ UNCHANGED <<wallet, ledger, day, restarts>>

CrashRewards ==
  /\ CrashWallet
  /\ award' = [w \in Workers |-> NoAward]

AwardStep(w) ==
  \/ CheckAwarded(w) \/ CheckCap(w) \/ EndAward(w)
  \/ ApplyStep(w) /\ UNCHANGED award

RewardsNext ==
  \/ \E w \in Workers :
       \/ /\ RoomFor(Rewarding)
          /\ \E u \in Users, ref \in Refs :
               \/ \E kind \in RewardKinds : BeginAward(w, u, kind, ref)
               \/ \E actor \in Users : BeginLikeAward(w, u, ref, actor)
       \/ AwardStep(w)
  \/ Midnight(Days) /\ UNCHANGED award
  \/ CrashRewards

RewardsSpec == RewardsInit /\ [][RewardsNext]_rewardsVars

-----------------------------------------------------------------------------
\* A user gets at most one reward over the daily cap for each other call that
\* overlaps the one that reaches it: the count is taken before Apply commits.
CapNearlyHeld ==
  \A u \in Users, kind \in RewardKinds :
    DailyCap[kind] > 0 =>
      CountToday(u, kind) <= DailyCap[kind] - 1 + Cardinality(Workers)

\* A liker yields at most one reward for each of his overlapping calls, for ever:
\* after the first row is committed no later call passes the duplicate check.
LikeRewardsBounded ==
  \A u, actor \in Users, ref \in Refs :
    Cardinality(LikeRows(u, ref, actor)) <= Cardinality(Workers)

\* "re-toggling a like never yields more than one XP per (post, liker) pair"
LikeRewardedOnce ==
  \A u, actor \in Users, ref \in Refs : Cardinality(LikeRows(u, ref, actor)) <= 1
=============================================================================
