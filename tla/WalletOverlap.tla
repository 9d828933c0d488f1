---------------------------- MODULE WalletOverlap ----------------------------
(***************************************************************************)
(* Wallet with history variables that tell which calls overlapped another  *)
(* on their wallet, and what the ledger and the account owe to the others. *)
(* Two calls overlap when both have read the wallet and neither has        *)
(* written it.                                                             *)
(***************************************************************************)
EXTENDS Wallet

VARIABLES
  crossed,  \* history: calls about to write that overlapped another on their wallet
  torn      \* history: the ledger rows such calls wrote

overlapVars == <<walletVars, crossed, torn>>

OverlapInit == WalletInit /\ crossed = {} /\ torn = {}

Beside(w) ==
  \E v \in Workers \ {w} :
    apply[v].pc = "write" /\ apply[v].order.user = apply[w].order.user

OverlapNext ==
  /\ WalletNext
  /\ crossed' = {w \in Workers : apply'[w].pc = "write" /\ (w \in crossed \/ Beside(w)')}
  /\ torn' = IF \E w \in crossed : apply'[w].pc = "applied"
               THEN torn \cup {Len(ledger')} ELSE torn

OverlapSpec == OverlapInit /\ [][OverlapNext]_overlapVars

-----------------------------------------------------------------------------
FirstBalance == [credits |-> Start, xp |-> 0]

LeftBy(i) == [credits |-> ledger[i].balanceAfter, xp |-> ledger[i].xpAfter]

\* The balances a row is due after the balance `before`.
Continues(i, before) ==
  /\ ledger[i].balanceAfter = before.credits + ledger[i].creditsDelta
  /\ ledger[i].xpAfter = IF before.xp + ledger[i].xpDelta < 0 THEN 0
                           ELSE before.xp + ledger[i].xpDelta

ContinuesLast(i) ==
  LET earlier == {j \in RowsOf(ledger[i].user) : j < i}
  IN \/ earlier = {} /\ Continues(i, FirstBalance)
     \/ \E j \in earlier : (\A k \in earlier : k <= j) /\ Continues(i, LeftBy(j))

\* A movement is lost only by calls that overlap: a row whose own call overlapped
\* none on its wallet continues from the row before it, with credits and XP,
\* whatever calls on this wallet overlapped before and whatever overlaps on
\* others, restarts in between or not.
LedgerChains == \A i \in DOMAIN ledger : i \notin torn => ContinuesLast(i)

\* "Apply atomically updates the user wallet with the given deltas and writes
\* a transaction row": every row continues from the row before it.
EveryRowChains == \A i \in DOMAIN ledger : ContinuesLast(i)

-----------------------------------------------------------------------------
\* The wallet is an account that moves in one step, from the balance there is
\* unless calls overlap on it, and from one of its past then.
Had(u) == {FirstBalance} \cup {LeftBy(i) : i \in RowsOf(u)}

Account == INSTANCE Accounts WITH
  account <- wallet,
  had <- [u \in Users |-> Had(u)],
  overlapping <- {apply[w].order.user : w \in crossed}

AccountSpec == Account!AccountsSpec
=============================================================================
