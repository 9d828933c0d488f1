------------------------------- MODULE Wallet -------------------------------
(***************************************************************************)
(* Credits and XP: the wallet columns of table users and the append-only   *)
(* ledger credit_transactions (internal/credits/repository.go, service.go).*)
(*                                                                         *)
(* Apply reads the wallet, computes the new balances in Go and writes them *)
(* back as absolute values together with a ledger row.  The transaction is *)
(* READ COMMITTED and its SELECT takes no lock: the read is a step, the    *)
(* two writes are one step at the commit (see Thread).                     *)
(***************************************************************************)
EXTENDS Site, Integers, Sequences, FiniteSets

CONSTANTS
  Admins,       \* users allowed to adjust wallets
  Serves,       \* bound: users whose wallets the calls of a worker concern
  Start,        \* credits a user starts with
  Cost,         \* what one charge takes
  Penalty,      \* configured violation penalty, 0 for none
  Adjustments,  \* xp and credits an admin may move: pairs of integers
  MaxRows,      \* bound: ledger rows
  MaxCrashes    \* bound: restarts of the server

ASSUME WalletAssumption ==
  /\ Admins \subseteq Users
  /\ Serves \in [Workers -> SUBSET Users]
  /\ Start \in Nat /\ Cost \in Nat /\ Penalty \in Nat /\ MaxRows \in Nat
  /\ Adjustments \subseteq Int \X Int

VARIABLES
  wallet,   \* users.credits and users.xp
  ledger,   \* credit_transactions, in the order of their commits
  apply,    \* where each call of Apply or ApplyWithActor is
  day,      \* the server's local day
  restarts

walletVars == <<wallet, ledger, apply, day, restarts>>

Kinds == {"signup_bonus", "topic_reward", "post_reward", "like_received",
          "violation_penalty", "translation", "admin_adjust"}

NoRef == "none"

Balance == [credits: Int, xp: Nat]

\* The arguments of ApplyWithActor; Apply has no actor.
Order(u, kind, xp, credits, overdraw, ref, actor) ==
  [user |-> u, kind |-> kind, xp |-> xp, credits |-> credits,
   overdraw |-> overdraw, ref |-> ref, actor |-> actor]

\* The calls the service makes: Charge and its refund, RecordFreeUse,
\* Penalize, AdminAdjust.  Rewards are in module Rewards.
ChargeOrder(u)  == Order(u, "translation", 0, -Cost, FALSE, "translation", NoRef)
RefundOrder(u)  == Order(u, "translation", 0, Cost, TRUE, "translation_refund", NoRef)
FreeUseOrder(u) == Order(u, "translation", 0, 0, TRUE, "translation", NoRef)
PenaltyOrder(u) == Order(u, "violation_penalty", 0, -Penalty, TRUE, NoRef, NoRef)
AdjustOrder(admin, u, a) == Order(u, "admin_adjust", a[1], a[2], TRUE, NoRef, admin)

WalletTypeOK ==
  /\ wallet \in [Users -> Balance]
  /\ \A i \in DOMAIN ledger :
       /\ ledger[i].user \in Users /\ ledger[i].kind \in Kinds
       /\ ledger[i].balanceAfter \in Int /\ ledger[i].xpAfter \in Nat
       /\ ledger[i].day \in 0..day
  /\ \A w \in Workers :
       /\ apply[w].pc \in {"idle", "read", "write", "applied", "refused"}
       /\ apply[w].pc # "idle" => apply[w].order.user \in Users
       /\ apply[w].pc = "write" => apply[w].seen \in Balance
  /\ day \in Nat

WalletInit ==
  /\ wallet = [u \in Users |-> [credits |-> Start, xp |-> 0]]
  /\ ledger = <<>>
  /\ apply = [w \in Workers |-> [pc |-> "idle"]]
  /\ day = 0
  /\ restarts = 0

-----------------------------------------------------------------------------
\* Keeps the ledger within MaxRows.
RoomFor(calls) == Len(ledger) + Cardinality(calls) < MaxRows

Busy == {w \in Workers : apply[w].pc \in {"read", "write"}}

BeginApply(w, order) ==
  /\ apply[w].pc = "idle"
  /\ order.user \in Serves[w]
  /\ apply' = [apply EXCEPT ![w] = [pc |-> "read", order |-> order]]

\* Slip: the sufficiency check is forgotten.
AlwaysAffords(balance, order) == TRUE

\* if newCredits < 0 && !allowNegative { return ErrInsufficient }
Affords(balance, order) == balance.credits + order.credits >= 0 \/ order.overdraw

ReadWallet(w) ==
  LET order == apply[w].order
  IN /\ apply[w].pc = "read"
     /\ apply' = [apply EXCEPT ![w] =
          IF Affords(wallet[order.user], order)
            THEN [pc |-> "write", order |-> order, seen |-> wallet[order.user]]
            ELSE [pc |-> "refused", order |-> order]]
     /\ UNCHANGED <<wallet, ledger, day, restarts>>

\* The balances computed from what was read; XP never drops below zero.
NewBalance(balance, order) ==
  [credits |-> balance.credits + order.credits,
   xp |-> IF balance.xp + order.xp < 0 THEN 0 ELSE balance.xp + order.xp]

Row(order, after) ==
  [user |-> order.user, kind |-> order.kind, xpDelta |-> order.xp,
   creditsDelta |-> order.credits, balanceAfter |-> after.credits, xpAfter |-> after.xp,
   ref |-> order.ref, actor |-> order.actor, day |-> day]

\* Slip: UPDATE users SET credits = credits + delta beside a row computed in Go.
WriteIncrement(w) ==
  LET order == apply[w].order
      after == NewBalance(apply[w].seen, order)
  IN /\ apply[w].pc = "write"
     /\ wallet' = [wallet EXCEPT ![order.user] = NewBalance(@, order)]
     /\ ledger' = Append(ledger, Row(order, after))
     /\ apply' = [apply EXCEPT ![w] = [pc |-> "applied", order |-> order]]
     /\ UNCHANGED <<day, restarts>>

\* The UPDATE of the wallet to absolute values and the INSERT of the ledger row.
WriteWallet(w) ==
  LET order == apply[w].order
      after == NewBalance(apply[w].seen, order)
  IN /\ apply[w].pc = "write"
     /\ wallet' = [wallet EXCEPT ![order.user] = after]
     /\ ledger' = Append(ledger, Row(order, after))
     /\ apply' = [apply EXCEPT ![w] = [pc |-> "applied", order |-> order]]
     /\ UNCHANGED <<day, restarts>>

\* The caller takes the result; some callers go on from it (Translation).
EndApply(w) ==
  /\ apply[w].pc \in {"applied", "refused"}
  /\ apply' = [apply EXCEPT ![w] = [pc |-> "idle"]]

\* CountToday: rows of a kind a user got since midnight.
CountToday(u, kind) ==
  Cardinality({i \in DOMAIN ledger :
                 ledger[i].user = u /\ ledger[i].kind = kind /\ ledger[i].day = day})

Midnight(lastDay) ==
  /\ day < lastDay
  /\ day' = day + 1
  /\ UNCHANGED <<wallet, ledger, apply, restarts>>

CrashWallet ==
  /\ restarts < MaxCrashes
  /\ restarts' = restarts + 1
  /\ apply' = [w \in Workers |-> [pc |-> "idle"]]
  /\ UNCHANGED <<wallet, ledger, day>>

ApplyStep(w) == ReadWallet(w) \/ WriteWallet(w)

\* Every order the service can be asked for.
Orders ==
  {ChargeOrder(u) : u \in Users} \cup {RefundOrder(u) : u \in Users}
    \cup {FreeUseOrder(u) : u \in Users}
    \cup {PenaltyOrder(u) : u \in IF Penalty > 0 THEN Users ELSE {}}
    \cup {AdjustOrder(b, u, a) : b \in Admins, u \in Users, a \in Adjustments}

WalletNext ==
  \/ \E w \in Workers :
       \/ \E order \in Orders :
            RoomFor(Busy) /\ BeginApply(w, order) /\ UNCHANGED <<wallet, ledger, day, restarts>>
       \/ ApplyStep(w)
       \/ EndApply(w) /\ UNCHANGED <<wallet, ledger, day, restarts>>
  \/ CrashWallet

WalletSpec == WalletInit /\ [][WalletNext]_walletVars

-----------------------------------------------------------------------------
RowsOf(u) == {i \in DOMAIN ledger : ledger[i].user = u}

\* The wallet shown to a user is the one his latest ledger row records, even
\* when concurrent calls overwrite each other's balances (Apply writes wallet
\* and row in one transaction, under the lock of the wallet).
WalletIsLastRow ==
  \A u \in Users : \A i \in RowsOf(u) :
    (\A j \in RowsOf(u) : j <= i) =>
      wallet[u] = [credits |-> ledger[i].balanceAfter, xp |-> ledger[i].xpAfter]

\* A charge never leaves a negative balance behind, whatever the penalties and
\* adjustments that overlap it: the balance it checked is the one it writes from.
ChargeNeverOverdraws ==
  \A i \in DOMAIN ledger :
    ledger[i].kind = "translation" /\ ledger[i].creditsDelta < 0 => ledger[i].balanceAfter >= 0

\* Every row starts from a balance its user had: the initial one or the one an
\* earlier row left, though with overlapping calls not always the latest.
RowsStartFromHistory ==
  \A i \in DOMAIN ledger :
    LET r == ledger[i]
        before == r.balanceAfter - r.creditsDelta
    IN before = Start \/ \E j \in RowsOf(r.user) : j < i /\ ledger[j].balanceAfter = before
=============================================================================
