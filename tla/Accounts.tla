------------------------------ MODULE Accounts ------------------------------
(***************************************************************************)
(* What credits/repository.go makes of a wallet: an account that movements *)
(* change in one step.  While calls on one wallet overlap, a movement may  *)
(* start from a balance of the past and undo what came after it; at all    *)
(* other times it starts from the balance there is.                        *)
(***************************************************************************)
EXTENDS Integers

CONSTANTS Users, Start, Cost, Penalty, Adjustments

VARIABLES
  account,
  had,         \* the balances each user ever had
  overlapping  \* users on whose wallet calls overlap at the moment

accountsVars == <<account, had, overlapping>>

NewAccount == [credits |-> Start, xp |-> 0]

AccountsInit ==
  /\ account = [u \in Users |-> NewAccount]
  /\ had = [u \in Users |-> {NewAccount}]
  /\ overlapping = {}

\* Where a movement may start.
Origins(u) == IF u \in overlapping THEN had[u] ELSE {account[u]}

\* Moves credits and XP of one user.  XP stops at zero.
Move(u, from, xp, credits) ==
  account' = [account EXCEPT ![u] =
    [credits |-> from.credits + credits, xp |-> IF from.xp + xp < 0 THEN 0 ELSE from.xp + xp]]

\* A charge is a movement out of a balance that can afford it, so no charge
\* leaves the account in debt; the other movements may.
ChargeAccount(u, from) ==
  /\ from.credits >= Cost
  /\ Move(u, from, 0, -Cost)

Movement(u, from) ==
  \/ ChargeAccount(u, from)
  \/ Move(u, from, 0, Cost)                                 \* a refund
  \/ Move(u, from, 0, 0)                                    \* a free use
  \/ Move(u, from, 0, -Penalty)
  \/ \E a \in Adjustments : Move(u, from, a[1], a[2])

AccountsNext ==
  /\ overlapping' \in SUBSET Users
  /\ \/ \E u \in Users :
          /\ \E from \in Origins(u) : Movement(u, from)
          /\ had' = [had EXCEPT ![u] = @ \cup {account'[u]}]
     \/ UNCHANGED <<account, had>>

AccountsSpec == AccountsInit /\ [][AccountsNext]_accountsVars
=============================================================================
