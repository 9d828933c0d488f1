---------------------------- MODULE CreditsProofs ----------------------------
(***************************************************************************)
(* Proofs about Wallet: what overlapping calls of Apply leave intact for   *)
(* every number of users, calls and restarts, and that calls which do not  *)
(* overlap on one wallet implement the atomic account; about Translation,  *)
(* its user: charges, refunds and the free quota; then about Likes and     *)
(* LikeRewards, the other: votes, counters and daily caps.                 *)
(***************************************************************************)
EXTENDS Translation, LikesApart, WalletOverlap, FiniteSetTheorems, TLAPS

LedgerRow ==
  [user: Users, kind: Kinds, xpDelta: Int, creditsDelta: Int, balanceAfter: Int,
   xpAfter: Nat, ref: {NoRef, "translation", "translation_refund"},
   actor: Users \cup {NoRef}, day: Nat]

Call == [pc: {"idle"}]
          \cup [pc: {"read", "applied", "refused"}, order: Orders]
          \cup [pc: {"write"}, order: Orders, seen: Balance]

\* Balances a user had: the first one and those his ledger rows left.
Known(u) == {Start} \cup {ledger[j].balanceAfter : j \in RowsOf(u)}

ShapeInv ==
  /\ wallet \in [Users -> Balance]
  /\ ledger \in Seq(LedgerRow)
  /\ apply \in [Workers -> Call]
  /\ day \in Nat
  /\ \A i \in DOMAIN ledger : ledger[i].day <= day

\* A call about to write saw a balance of its user's past, which affords it.
WriteInv ==
  /\ \A u \in Users : wallet[u].credits \in Known(u)
  /\ \A w \in Workers : apply[w].pc = "write" =>
       /\ apply[w].seen.credits \in Known(apply[w].order.user)
       /\ Affords(apply[w].seen, apply[w].order)

WalletInv ==
  /\ ShapeInv
  /\ WriteInv
  /\ WalletIsLastRow
  /\ ChargeNeverOverdraws
  /\ RowsStartFromHistory

-----------------------------------------------------------------------------
LEMMA OrderType ==
  ASSUME NEW o \in Orders
  PROVE  /\ o.user \in Users /\ o.kind \in Kinds /\ o.xp \in Int /\ o.credits \in Int
         /\ o.overdraw \in BOOLEAN
         /\ o.ref \in {NoRef, "translation", "translation_refund"}
         /\ o.actor \in Users \cup {NoRef}
         /\ o.kind = "translation" /\ o.credits < 0 => ~o.overdraw
<1>1. ASSUME NEW u \in Users, o \in {ChargeOrder(u), RefundOrder(u), FreeUseOrder(u), PenaltyOrder(u)}
      PROVE  /\ o.user = u /\ o.kind \in Kinds /\ o.xp = 0 /\ o.credits \in Int
             /\ o.overdraw \in BOOLEAN /\ o.actor = NoRef
             /\ o.ref \in {NoRef, "translation", "translation_refund"}
             /\ o.kind = "translation" /\ o.credits < 0 => ~o.overdraw
  <2>1. CASE o = ChargeOrder(u)
    BY <2>1, WalletAssumption DEF Order, ChargeOrder, Kinds
  <2>2. CASE o = RefundOrder(u)
    BY <2>2, WalletAssumption DEF Order, RefundOrder, Kinds
  <2>3. CASE o = FreeUseOrder(u)
    BY <2>3 DEF Order, FreeUseOrder, Kinds
  <2>4. CASE o = PenaltyOrder(u)
    BY <2>4, WalletAssumption DEF Order, PenaltyOrder, Kinds
  <2> QED
    BY <1>1, <2>1, <2>2, <2>3, <2>4
<1>2. ASSUME NEW a \in Admins, NEW u \in Users, NEW d \in Adjustments, o = AdjustOrder(a, u, d)
      PROVE  /\ o.user = u /\ o.kind = "admin_adjust" /\ o.xp \in Int /\ o.credits \in Int
             /\ o.overdraw = TRUE /\ o.actor \in Users /\ o.ref = NoRef
  BY <1>2, WalletAssumption DEF Order, AdjustOrder
<1>3. \/ \E u \in Users : o \in {ChargeOrder(u), RefundOrder(u), FreeUseOrder(u), PenaltyOrder(u)}
      \/ \E a \in Admins, u \in Users, d \in Adjustments : o = AdjustOrder(a, u, d)
  BY DEF Orders
<1>4. CASE \E u \in Users : o \in {ChargeOrder(u), RefundOrder(u), FreeUseOrder(u), PenaltyOrder(u)}
  BY <1>1, <1>4
<1>5. CASE \E a \in Admins, u \in Users, d \in Adjustments : o = AdjustOrder(a, u, d)
  BY <1>2, <1>5 DEF Kinds
<1> QED
  BY <1>3, <1>4, <1>5

LEMMA NewBalanceType ==
  ASSUME NEW b \in Balance, NEW o \in Orders
  PROVE  /\ NewBalance(b, o) \in Balance
         /\ NewBalance(b, o).credits = b.credits + o.credits
BY OrderType DEF NewBalance, Balance

LEMMA CallFields ==
  ASSUME ShapeInv, NEW w \in Workers
  PROVE  /\ apply[w].pc \in {"idle", "read", "write", "applied", "refused"}
         /\ apply[w].pc # "idle" => apply[w].order \in Orders
         /\ apply[w].pc = "write" => apply[w].seen \in Balance
BY DEF ShapeInv, Call

\* The writing step: the row it appends and the wallet it leaves.
LEMMA WriteEffect ==
  ASSUME ShapeInv, NEW w \in Workers, WriteWallet(w)
  PROVE  LET o == apply[w].order
             b == NewBalance(apply[w].seen, o)
         IN /\ o \in Orders /\ apply[w].seen \in Balance /\ b \in Balance
            /\ b.credits = apply[w].seen.credits + o.credits
            /\ wallet' = [wallet EXCEPT ![o.user] = b]
            /\ Row(o, b) \in LedgerRow
            /\ ledger' = Append(ledger, Row(o, b))
            /\ Len(ledger') = Len(ledger) + 1
            /\ ledger'[Len(ledger) + 1] = Row(o, b)
            /\ \A i \in 1..Len(ledger) : ledger'[i] = ledger[i]
            /\ Len(ledger) \in Nat
            /\ DOMAIN ledger = 1..Len(ledger)
            /\ DOMAIN ledger' = 1..(Len(ledger) + 1)
<1> DEFINE o == apply[w].order
           b == NewBalance(apply[w].seen, o)
<1>1. o \in Orders /\ apply[w].seen \in Balance
  BY CallFields DEF WriteWallet
<1>2. b \in Balance /\ b.credits = apply[w].seen.credits + o.credits
  BY <1>1, NewBalanceType
<1>3. Row(o, b) \in LedgerRow
  BY <1>1, <1>2, OrderType DEF Row, LedgerRow, Balance, ShapeInv
<1>4. wallet' = [wallet EXCEPT ![o.user] = b] /\ ledger' = Append(ledger, Row(o, b))
  BY DEF WriteWallet
<1>5. ledger \in Seq(LedgerRow)
  BY DEF ShapeInv
<1> HIDE DEF o, b
<1> QED
  BY <1>1, <1>2, <1>3, <1>4, <1>5 DEF o, b

LEMMA RowFields ==
  ASSUME NEW o, NEW b
  PROVE  /\ Row(o, b).user = o.user /\ Row(o, b).kind = o.kind
         /\ Row(o, b).creditsDelta = o.credits /\ Row(o, b).xpDelta = o.xp
         /\ Row(o, b).balanceAfter = b.credits /\ Row(o, b).xpAfter = b.xp
         /\ Row(o, b).day = day
BY DEF Row

\* What moves the ledger in every module: the steps of Wallet, without its bound
\* on rows, and midnight.
WalletMove ==
  \/ \E w \in Workers :
       \/ \E order \in Orders : BeginApply(w, order) /\ UNCHANGED <<wallet, ledger, day, restarts>>
       \/ ApplyStep(w)
       \/ EndApply(w) /\ UNCHANGED <<wallet, ledger, day, restarts>>
  \/ CrashWallet \/ Midnight(LastDay)

LEMMA NextIsMove == WalletNext => WalletMove
BY DEF WalletNext, WalletMove

LEMMA ShapeStep ==
  ASSUME ShapeInv, [WalletMove]_walletVars
  PROVE  ShapeInv'
<1>1. ASSUME NEW w \in Workers, NEW order \in Orders, BeginApply(w, order),
             UNCHANGED <<wallet, ledger, day, restarts>>
      PROVE  ShapeInv'
  BY <1>1 DEF BeginApply, ShapeInv, Call
<1>2. ASSUME NEW w \in Workers, ReadWallet(w)
      PROVE  ShapeInv'
  <2>1. apply[w].order \in Orders
    BY <1>2, CallFields DEF ReadWallet
  <2>2. wallet[apply[w].order.user] \in Balance
    BY <2>1, OrderType DEF ShapeInv
  <2> QED
    BY <1>2, <2>1, <2>2 DEF ReadWallet, ShapeInv, Call
<1>3. ASSUME NEW w \in Workers, WriteWallet(w)
      PROVE  ShapeInv'
  <2> DEFINE o == apply[w].order
             b == NewBalance(apply[w].seen, o)
  <2>1. o \in Orders /\ b \in Balance /\ Row(o, b) \in LedgerRow
    BY <1>3, WriteEffect
  <2>2. wallet' \in [Users -> Balance]
    BY <1>3, <2>1, WriteEffect DEF ShapeInv
  <2>3. ledger' \in Seq(LedgerRow)
    BY <1>3, <2>1, WriteEffect DEF ShapeInv
  <2>4. apply' \in [Workers -> Call] /\ day' = day
    BY <1>3, <2>1 DEF WriteWallet, ShapeInv, Call
  <2>5. \A i \in DOMAIN ledger' : ledger'[i].day <= day
    <3>1. Row(o, b).day = day /\ day \in Nat
      BY RowFields DEF ShapeInv
    <3> QED
      BY <1>3, <3>1, WriteEffect DEF ShapeInv
  <2> QED
    BY <2>2, <2>3, <2>4, <2>5 DEF ShapeInv
<1>4. ASSUME NEW w \in Workers, EndApply(w), UNCHANGED <<wallet, ledger, day, restarts>>
      PROVE  ShapeInv'
  BY <1>4 DEF EndApply, ShapeInv, Call
<1>5. CASE CrashWallet
  BY <1>5 DEF CrashWallet, ShapeInv, Call
<1>6. CASE UNCHANGED walletVars
  BY <1>6 DEF walletVars, ShapeInv
<1>7. CASE Midnight(LastDay)
  <2>1. \A i \in DOMAIN ledger : ledger[i].day \in Nat /\ ledger[i].day <= day
    <3>1. \A i \in DOMAIN ledger : ledger[i] \in LedgerRow
      BY DEF ShapeInv
    <3> QED
      BY <3>1 DEF LedgerRow, ShapeInv
  <2> QED
    BY <1>7, <2>1 DEF Midnight, ShapeInv
<1> QED
  BY <1>1, <1>2, <1>3, <1>4, <1>5, <1>6, <1>7 DEF WalletMove, ApplyStep

\* Steps that neither write a wallet nor a row, and what they do to calls.
LEMMA QuietStep ==
  ASSUME ShapeInv, [WalletMove]_walletVars
  PROVE  \/ \E w \in Workers : WriteWallet(w)
         \/ /\ wallet' = wallet /\ ledger' = ledger
            /\ \A w \in Workers : apply'[w].pc = "write" =>
                 \/ apply'[w] = apply[w]
                 \/ /\ apply[w].pc = "read"
                    /\ apply'[w].order = apply[w].order
                    /\ apply'[w].seen = wallet[apply[w].order.user]
                    /\ Affords(apply'[w].seen, apply'[w].order)
<1>1. ASSUME NEW w \in Workers, NEW order \in Orders, BeginApply(w, order),
             NEW v \in Workers, apply'[v].pc = "write"
      PROVE  apply'[v] = apply[v]
  BY <1>1 DEF BeginApply, ShapeInv
<1>2. ASSUME NEW w \in Workers, ReadWallet(w), NEW v \in Workers, apply'[v].pc = "write"
      PROVE  \/ apply'[v] = apply[v]
             \/ /\ apply[v].pc = "read"
                /\ apply'[v].order = apply[v].order
                /\ apply'[v].seen = wallet[apply[v].order.user]
                /\ Affords(apply'[v].seen, apply'[v].order)
  <2>1. CASE v = w
    BY <1>2, <2>1 DEF ReadWallet, ShapeInv
  <2>2. CASE v # w
    BY <1>2, <2>2 DEF ReadWallet, ShapeInv
  <2> QED
    BY <2>1, <2>2
<1>3. ASSUME NEW w \in Workers, EndApply(w), NEW v \in Workers, apply'[v].pc = "write"
      PROVE  apply'[v] = apply[v]
  BY <1>3 DEF EndApply, ShapeInv
<1>4. ASSUME CrashWallet, NEW v \in Workers PROVE apply'[v].pc # "write"
  BY <1>4 DEF CrashWallet
<1>5. \/ \E w \in Workers : WriteWallet(w)
      \/ /\ wallet' = wallet /\ ledger' = ledger
         /\ \/ \E w \in Workers, order \in Orders : BeginApply(w, order)
            \/ \E w \in Workers : ReadWallet(w) \/ EndApply(w)
            \/ CrashWallet
            \/ apply' = apply
  BY DEF WalletMove, ApplyStep, ReadWallet, CrashWallet, Midnight, walletVars
<1> QED
  BY <1>1, <1>2, <1>3, <1>4, <1>5

\* What the writing step adds to a user's past.
LEMMA KnownGrows ==
  ASSUME ShapeInv, NEW w \in Workers, WriteWallet(w), NEW u \in Users
  PROVE  /\ Known(u) \subseteq Known(u)'
         /\ u = apply[w].order.user =>
              NewBalance(apply[w].seen, apply[w].order).credits \in Known(u)'
<1> DEFINE o == apply[w].order
           b == NewBalance(apply[w].seen, o)
           n == Len(ledger) + 1
<1>1. RowsOf(u) \subseteq RowsOf(u)' /\ \A j \in RowsOf(u) : ledger'[j] = ledger[j]
  BY WriteEffect DEF RowsOf
<1>2. u = o.user => n \in RowsOf(u)' /\ ledger'[n].balanceAfter = b.credits
  BY WriteEffect, RowFields DEF RowsOf
<1> QED
  BY <1>1, <1>2 DEF Known

LEMMA WriteInvStep ==
  ASSUME ShapeInv, WriteInv, [WalletMove]_walletVars
  PROVE  WriteInv'
<1>1. ASSUME NEW w \in Workers, WriteWallet(w) PROVE WriteInv'
  <2> DEFINE o == apply[w].order
             b == NewBalance(apply[w].seen, o)
  <2>1. wallet' = [wallet EXCEPT ![o.user] = b] /\ o.user \in Users
    BY <1>1, WriteEffect, OrderType
  <2>2. ASSUME NEW u \in Users PROVE wallet'[u].credits \in Known(u)'
    <3>1. Known(u) \subseteq Known(u)' /\ (u = o.user => b.credits \in Known(u)')
      BY <1>1, KnownGrows
    <3>2. u = o.user => wallet'[u] = b
      BY <2>1 DEF ShapeInv
    <3>3. u # o.user => wallet'[u] = wallet[u]
      BY <2>1 DEF ShapeInv
    <3> QED
      BY <3>1, <3>2, <3>3 DEF WriteInv
  <2>3. ASSUME NEW v \in Workers, apply'[v].pc = "write"
        PROVE  /\ \E u \in Users : /\ u = apply'[v].order.user
                                  /\ apply'[v].seen.credits \in Known(u)'
               /\ Affords(apply'[v].seen, apply'[v].order)
    <3>1. apply'[v] = apply[v]
      <4>1. apply' = [apply EXCEPT ![w] = [pc |-> "applied", order |-> apply[w].order]]
        BY <1>1 DEF WriteWallet
      <4> QED
        BY <2>3, <4>1 DEF ShapeInv
    <3>2. PICK u \in Users : u = apply[v].order.user
      BY <2>3, <3>1, CallFields, OrderType
    <3>3. apply[v].seen.credits \in Known(u) /\ Affords(apply[v].seen, apply[v].order)
      BY <2>3, <3>1, <3>2 DEF WriteInv
    <3>4. apply[v].seen.credits \in Known(u)'
      BY <1>1, <3>3, KnownGrows
    <3> QED
      BY <3>1, <3>2, <3>3, <3>4
  <2> QED
    BY <2>2, <2>3 DEF WriteInv, Affords, Known, RowsOf
<1>2. ASSUME wallet' = wallet, ledger' = ledger,
             \A w \in Workers : apply'[w].pc = "write" =>
                 \/ apply'[w] = apply[w]
                 \/ /\ apply[w].pc = "read"
                    /\ apply'[w].order = apply[w].order
                    /\ apply'[w].seen = wallet[apply[w].order.user]
                    /\ Affords(apply'[w].seen, apply'[w].order)
      PROVE  WriteInv'
  <2>1. \A u : Known(u)' = Known(u)
    BY <1>2 DEF Known, RowsOf
  <2>2. ASSUME NEW v \in Workers, apply'[v].pc = "write"
        PROVE  /\ apply'[v].seen.credits \in Known(apply'[v].order.user)
               /\ Affords(apply'[v].seen, apply'[v].order)
    <3>1. CASE apply'[v] = apply[v]
      BY <2>2, <3>1 DEF WriteInv
    <3>2. CASE apply'[v] # apply[v]
      <4>1. apply[v].order.user \in Users
        BY <1>2, <2>2, <3>2, CallFields, OrderType
      <4> QED
        BY <1>2, <2>2, <3>2, <4>1 DEF WriteInv
    <3> QED
      BY <3>1, <3>2
  <2> QED
    BY <1>2, <2>1, <2>2 DEF WriteInv, Affords, Known, RowsOf
<1> QED
  BY <1>1, <1>2, QuietStep

-----------------------------------------------------------------------------
LEMMA WriteKeepsLedger ==
  ASSUME WalletInv, NEW w \in Workers, WriteWallet(w)
  PROVE  WalletIsLastRow' /\ ChargeNeverOverdraws' /\ RowsStartFromHistory'
<1> DEFINE o == apply[w].order
           b == NewBalance(apply[w].seen, o)
           n == Len(ledger) + 1
<1>1. /\ o \in Orders /\ apply[w].seen \in Balance /\ b \in Balance
      /\ b.credits = apply[w].seen.credits + o.credits
      /\ wallet' = [wallet EXCEPT ![o.user] = b]
      /\ DOMAIN ledger = 1..Len(ledger) /\ DOMAIN ledger' = 1..n /\ Len(ledger) \in Nat
      /\ ledger'[n] = Row(o, b)
      /\ \A i \in 1..Len(ledger) : ledger'[i] = ledger[i]
  BY WriteEffect DEF WalletInv
<1>2. /\ Row(o, b).user = o.user /\ Row(o, b).kind = o.kind
      /\ Row(o, b).creditsDelta = o.credits
      /\ Row(o, b).balanceAfter = b.credits /\ Row(o, b).xpAfter = b.xp
  BY RowFields
<1>3. /\ o.user \in Users /\ o.credits \in Int
      /\ o.kind = "translation" /\ o.credits < 0 => ~o.overdraw
  BY <1>1, OrderType
<1>4. Affords(apply[w].seen, o) /\ apply[w].seen.credits \in Known(o.user)
  BY DEF WriteWallet, WalletInv, WriteInv
<1>5. wallet \in [Users -> Balance]
  BY DEF WalletInv, ShapeInv
<1>6. b = [credits |-> b.credits, xp |-> b.xp]
  BY <1>1 DEF Balance
<1> HIDE DEF o, b
<1>7. WalletIsLastRow'
  <2> SUFFICES ASSUME NEW u \in Users, NEW i \in RowsOf(u)',
                      \A j \in RowsOf(u)' : j <= i
               PROVE  wallet'[u] = [credits |-> ledger'[i].balanceAfter, xp |-> ledger'[i].xpAfter]
    BY DEF WalletIsLastRow
  <2>1. CASE u = o.user
    <3>1. n \in RowsOf(u)'
      BY <1>1, <1>2, <2>1 DEF RowsOf
    <3>2. i = n
      BY <1>1, <3>1 DEF RowsOf
    <3> QED
      BY <1>1, <1>2, <1>3, <1>5, <1>6, <2>1, <3>2
  <2>2. CASE u # o.user
    <3>1. RowsOf(u)' = RowsOf(u)
      BY <1>1, <1>2, <2>2 DEF RowsOf
    <3>2. wallet'[u] = wallet[u] /\ ledger'[i] = ledger[i]
      BY <1>1, <1>3, <1>5, <2>2, <3>1 DEF RowsOf
    <3>3. wallet[u] = [credits |-> ledger[i].balanceAfter, xp |-> ledger[i].xpAfter]
      BY <3>1 DEF WalletInv, WalletIsLastRow
    <3> QED
      BY <3>2, <3>3
  <2> QED
    BY <2>1, <2>2
<1>8. ChargeNeverOverdraws'
  <2>1. o.kind = "translation" /\ o.credits < 0 => b.credits >= 0
    BY <1>1, <1>3, <1>4 DEF Affords
  <2> QED
    BY <1>1, <1>2, <2>1 DEF WalletInv, ChargeNeverOverdraws
<1>9. RowsStartFromHistory'
  <2> DEFINE Begins(i) == \/ ledger'[i].balanceAfter - ledger'[i].creditsDelta = Start
                          \/ \E j \in DOMAIN ledger' :
                               /\ ledger'[j].user = ledger'[i].user /\ j < i
                               /\ ledger'[j].balanceAfter
                                    = ledger'[i].balanceAfter - ledger'[i].creditsDelta
  <2>1. Begins(n)
    <3>1. b.credits - o.credits = apply[w].seen.credits
      BY <1>1, <1>3 DEF Balance
    <3>2. apply[w].seen.credits = Start
            \/ \E j \in RowsOf(o.user) : ledger[j].balanceAfter = apply[w].seen.credits
      BY <1>4 DEF Known
    <3>3. \A j \in RowsOf(o.user) :
            j \in DOMAIN ledger' /\ j < n /\ ledger'[j] = ledger[j] /\ ledger[j].user = o.user
      BY <1>1 DEF RowsOf
    <3> QED
      BY <1>1, <1>2, <3>1, <3>2, <3>3
  <2>2. ASSUME NEW i \in 1..Len(ledger) PROVE Begins(i)
    <3>1. \/ ledger[i].balanceAfter - ledger[i].creditsDelta = Start
          \/ \E j \in DOMAIN ledger :
               /\ ledger[j].user = ledger[i].user /\ j < i
               /\ ledger[j].balanceAfter = ledger[i].balanceAfter - ledger[i].creditsDelta
      BY <1>1 DEF WalletInv, RowsStartFromHistory, RowsOf
    <3> QED
      BY <1>1, <3>1
  <2>3. \A i \in DOMAIN ledger' : i = n \/ i \in 1..Len(ledger)
    BY <1>1
  <2>4. \A i \in DOMAIN ledger' : Begins(i)
    BY <2>1, <2>2, <2>3
  <2> QED
    BY <2>4 DEF RowsStartFromHistory, RowsOf
<1> QED
  BY <1>7, <1>8, <1>9

LEMMA WalletInvInit == WalletInit => WalletInv
<1> SUFFICES ASSUME WalletInit PROVE WalletInv
  OBVIOUS
<1>1. ShapeInv
  BY WalletAssumption DEF WalletInit, ShapeInv, Balance, Call
<1>2. WriteInv
  BY DEF WalletInit, WriteInv, Known
<1>3. DOMAIN ledger = {}
  BY DEF WalletInit
<1> QED
  BY <1>1, <1>2, <1>3
     DEF WalletInv, WalletIsLastRow, ChargeNeverOverdraws, RowsStartFromHistory, RowsOf

LEMMA WalletInvStep == WalletInv /\ [WalletMove]_walletVars => WalletInv'
<1> SUFFICES ASSUME WalletInv, [WalletMove]_walletVars PROVE WalletInv'
  OBVIOUS
<1>1. ShapeInv' /\ WriteInv'
  BY ShapeStep, WriteInvStep DEF WalletInv
<1>2. ASSUME wallet' = wallet, ledger' = ledger
      PROVE  WalletIsLastRow' /\ ChargeNeverOverdraws' /\ RowsStartFromHistory'
  BY <1>2 DEF WalletInv, WalletIsLastRow, ChargeNeverOverdraws, RowsStartFromHistory, RowsOf
<1>3. WalletIsLastRow' /\ ChargeNeverOverdraws' /\ RowsStartFromHistory'
  BY <1>2, QuietStep, WriteKeepsLedger DEF WalletInv
<1> QED
  BY <1>1, <1>3 DEF WalletInv

LEMMA WalletInvHolds == WalletSpec => []WalletInv
BY WalletInvInit, WalletInvStep, NextIsMove, PTL DEF WalletSpec

\* A wallet always shows the balances its owner's last ledger row recorded.
THEOREM WalletMatchesLedger == WalletSpec => []WalletIsLastRow
<1>1. WalletInv => WalletIsLastRow
  BY DEF WalletInv
<1> QED
  BY <1>1, WalletInvHolds, PTL

\* No charge leaves a user in debt, whatever overlaps it.
THEOREM ChargesAffordable == WalletSpec => []ChargeNeverOverdraws
<1>1. WalletInv => ChargeNeverOverdraws
  BY DEF WalletInv
<1> QED
  BY <1>1, WalletInvHolds, PTL

\* Every ledger row starts from a balance its user had.
THEOREM RowsFromHistory == WalletSpec => []RowsStartFromHistory
<1>1. WalletInv => RowsStartFromHistory
  BY DEF WalletInv
<1> QED
  BY <1>1, WalletInvHolds, PTL

-----------------------------------------------------------------------------
(* Calls that overlap on their wallet and calls that do not.               *)

\* A wallet is what its owner's last row left.
LastInv ==
  \A u \in Users :
    \/ RowsOf(u) = {} /\ wallet[u] = FirstBalance
    \/ \E i \in RowsOf(u) : (\A j \in RowsOf(u) : j <= i) /\ wallet[u] = LeftBy(i)

\* A call about to write saw a balance its user had, and if it overlapped none
\* on the wallet, the one there still is.
SeenInv ==
  /\ \A w \in crossed : w \in Workers /\ apply[w].pc = "write"
  /\ \A w \in Workers : apply[w].pc = "write" =>
       /\ Beside(w) => w \in crossed
       /\ apply[w].seen \in Had(apply[w].order.user)
       /\ w \notin crossed => apply[w].seen = wallet[apply[w].order.user]

OverlapInv == LastInv /\ SeenInv

\* The writing step: what it adds to the past of its user and to the ledger.
LEMMA WritePast ==
  ASSUME ShapeInv, NEW w \in Workers, WriteWallet(w), NEW u \in Users,
         NEW n \in Nat, n = Len(ledger) + 1
  PROVE  LET o == apply[w].order
             b == NewBalance(apply[w].seen, o)
         IN /\ RowsOf(u)' = RowsOf(u) \cup (IF u = o.user THEN {n} ELSE {})
            /\ \A i \in RowsOf(u) : i \in 1..Len(ledger) /\ ledger'[i] = ledger[i]
            /\ \A i \in RowsOf(u) : LeftBy(i)' = LeftBy(i)
            /\ LeftBy(n)' = b
            /\ Had(u)' = Had(u) \cup (IF u = o.user THEN {b} ELSE {})
            /\ wallet'[u] = IF u = o.user THEN b ELSE wallet[u]
<1> DEFINE o == apply[w].order
           b == NewBalance(apply[w].seen, o)
<1>1. /\ wallet' = [wallet EXCEPT ![o.user] = b] /\ Len(ledger) \in Nat
      /\ DOMAIN ledger = 1..Len(ledger) /\ DOMAIN ledger' = 1..n
      /\ ledger'[n] = Row(o, b) /\ b \in Balance
      /\ \A i \in 1..Len(ledger) : ledger'[i] = ledger[i]
  BY WriteEffect
<1>2. /\ Row(o, b).user = o.user
      /\ Row(o, b).balanceAfter = b.credits /\ Row(o, b).xpAfter = b.xp
  BY RowFields
<1>3. b = [credits |-> b.credits, xp |-> b.xp]
  BY <1>1 DEF Balance
<1>4. wallet \in [Users -> Balance]
  BY DEF ShapeInv
<1> HIDE DEF o, b
<1>5. RowsOf(u)' = RowsOf(u) \cup (IF u = o.user THEN {n} ELSE {})
  BY <1>1, <1>2 DEF RowsOf
<1>6. \A i \in RowsOf(u) : i \in 1..Len(ledger) /\ ledger'[i] = ledger[i]
  BY <1>1 DEF RowsOf
<1>7. \A i \in RowsOf(u) : LeftBy(i)' = LeftBy(i)
  BY <1>6 DEF LeftBy
<1>8. LeftBy(n)' = b
  BY <1>1, <1>2, <1>3 DEF LeftBy
<1>9. Had(u)' = Had(u) \cup (IF u = o.user THEN {b} ELSE {})
  <2>1. Had(u)' = {FirstBalance} \cup {LeftBy(i)' : i \in RowsOf(u)'}
    BY DEF Had, FirstBalance
  <2>2. CASE u = o.user
    <3>1. {LeftBy(i)' : i \in RowsOf(u)'} = {LeftBy(i)' : i \in RowsOf(u)} \cup {LeftBy(n)'}
      BY <1>5, <2>2
    <3>2. {LeftBy(i)' : i \in RowsOf(u)} = {LeftBy(i) : i \in RowsOf(u)}
      BY <1>7
    <3> QED
      BY <1>8, <2>1, <2>2, <3>1, <3>2 DEF Had
  <2>3. CASE u # o.user
    <3>1. {LeftBy(i)' : i \in RowsOf(u)'} = {LeftBy(i) : i \in RowsOf(u)}
      BY <1>5, <1>7, <2>3
    <3> QED
      BY <2>1, <2>3, <3>1 DEF Had
  <2> QED
    BY <2>2, <2>3
<1>10. wallet'[u] = IF u = o.user THEN b ELSE wallet[u]
  BY <1>1, <1>4
<1> QED
  BY <1>5, <1>6, <1>7, <1>8, <1>9, <1>10 DEF o, b

LEMMA WriteKeepsPast ==
  ASSUME ShapeInv, NEW w \in Workers, WriteWallet(w), NEW u \in Users
  PROVE  /\ Had(u) \subseteq Had(u)'
         /\ u = apply[w].order.user => Had(u)' = Had(u) \cup {wallet'[u]}
         /\ u # apply[w].order.user => wallet'[u] = wallet[u] /\ Had(u)' = Had(u)
<1>1. PICK n \in Nat : n = Len(ledger) + 1
  BY DEF ShapeInv
<1> DEFINE b == NewBalance(apply[w].seen, apply[w].order)
<1>2. /\ Had(u)' = Had(u) \cup (IF u = apply[w].order.user THEN {b} ELSE {})
      /\ wallet'[u] = IF u = apply[w].order.user THEN b ELSE wallet[u]
  BY <1>1, WritePast
<1> HIDE DEF b
<1> QED
  BY <1>2

LEMMA QuietPast ==
  ASSUME ledger' = ledger
  PROVE  \A u : RowsOf(u)' = RowsOf(u) /\ Had(u)' = Had(u) /\ \A i : LeftBy(i)' = LeftBy(i)
BY DEF RowsOf, Had, LeftBy, FirstBalance

LEMMA LastStep ==
  ASSUME ShapeInv, LastInv, [WalletMove]_walletVars
  PROVE  LastInv'
<1>1. ASSUME NEW w \in Workers, WriteWallet(w) PROVE LastInv'
  <2> DEFINE o == apply[w].order
             b == NewBalance(apply[w].seen, o)
  <2>0. PICK n \in Nat : n = Len(ledger) + 1
    BY DEF ShapeInv
  <2> SUFFICES ASSUME NEW u \in Users
               PROVE  \/ RowsOf(u)' = {} /\ wallet'[u] = FirstBalance
                      \/ \E i \in RowsOf(u)' : /\ \A j \in RowsOf(u)' : j <= i
                                              /\ wallet'[u] = LeftBy(i)'
    BY DEF LastInv, FirstBalance
  <2>1. /\ RowsOf(u)' = RowsOf(u) \cup (IF u = o.user THEN {n} ELSE {})
        /\ \A i \in RowsOf(u) : i \in 1..Len(ledger) /\ LeftBy(i)' = LeftBy(i)
        /\ LeftBy(n)' = b /\ wallet'[u] = IF u = o.user THEN b ELSE wallet[u]
    BY <1>1, <2>0, WritePast
  <2>2. Len(ledger) \in Nat /\ n = Len(ledger) + 1
    BY <2>0 DEF ShapeInv
  <2> HIDE DEF o, b
  <2>3. CASE u = o.user
    BY <2>1, <2>2, <2>3
  <2>4. CASE u # o.user
    BY <2>1, <2>4 DEF LastInv
  <2> QED
    BY <2>3, <2>4
<1>2. ASSUME wallet' = wallet, ledger' = ledger PROVE LastInv'
  BY <1>2, QuietPast DEF LastInv, FirstBalance
<1> QED
  BY <1>1, <1>2, QuietStep

\* OverlapNext as far as the proofs need it.
OverlapStep ==
  /\ WalletNext
  /\ \A w : w \in crossed' <=>
       /\ w \in Workers /\ apply'[w].pc = "write"
       /\ w \in crossed \/ \E v \in Workers \ {w} :
            apply'[v].pc = "write" /\ apply'[v].order.user = apply'[w].order.user
  /\ torn' = IF \E w \in crossed : apply'[w].pc = "applied"
               THEN torn \cup {Len(ledger')} ELSE torn

LEMMA NextIsStep == OverlapNext => OverlapStep
BY DEF OverlapNext, OverlapStep, Beside

LEMMA SeenStep ==
  ASSUME ShapeInv, LastInv, SeenInv, OverlapStep
  PROVE  SeenInv'
<1> USE DEF Beside
<1>0. [WalletMove]_walletVars /\ \A w \in Workers : apply[w].pc # "idle" => apply[w].order.user \in Users
  BY NextIsMove, CallFields, OrderType DEF OverlapStep
<1>1. \A w \in crossed' : w \in Workers /\ apply'[w].pc = "write"
  BY DEF OverlapStep
<1>2. \A w \in Workers : apply'[w].pc = "write" /\ Beside(w)' => w \in crossed'
  BY DEF OverlapStep
<1>3. ASSUME NEW v \in Workers, apply'[v].pc = "write"
      PROVE  /\ apply'[v].seen \in Had(apply[v].order.user)'
             /\ v \notin crossed' => apply'[v].seen = wallet'[apply'[v].order.user]
  <2>1. ASSUME NEW w \in Workers, WriteWallet(w)
        PROVE  /\ apply'[v].seen \in Had(apply[v].order.user)'
               /\ v \notin crossed' => apply'[v].seen = wallet'[apply'[v].order.user]
    <3>1. apply' = [apply EXCEPT ![w] = [pc |-> "applied", order |-> apply[w].order]]
      BY <2>1 DEF WriteWallet
    <3>2. v # w /\ apply'[v] = apply[v]
      BY <1>3, <3>1 DEF ShapeInv
    <3>3. PICK u \in Users : u = apply[v].order.user
      BY <1>0, <1>3, <3>2
    <3>4. apply[v].seen \in Had(u)'
      BY <1>3, <2>1, <3>2, <3>3, WriteKeepsPast DEF SeenInv
    <3>5. ASSUME v \notin crossed' PROVE apply[v].seen = wallet'[u]
      <4>1. v \notin crossed /\ ~Beside(v)
        BY <1>3, <3>2, <3>5 DEF OverlapStep, SeenInv
      <4>2. apply[w].order.user # u
        BY <2>1, <3>2, <3>3, <4>1 DEF WriteWallet
      <4>3. wallet'[u] = wallet[u]
        BY <2>1, <4>2, WriteKeepsPast
      <4> QED
        BY <1>3, <3>2, <3>3, <4>1, <4>3 DEF SeenInv
    <3> QED
      BY <3>2, <3>3, <3>4, <3>5
  <2>2. ASSUME wallet' = wallet, ledger' = ledger, apply'[v] = apply[v]
        PROVE  /\ apply'[v].seen \in Had(apply[v].order.user)'
               /\ v \notin crossed' => apply'[v].seen = wallet'[apply'[v].order.user]
    BY <1>3, <2>2, QuietPast DEF SeenInv, OverlapStep
  <2>3. ASSUME wallet' = wallet, ledger' = ledger, apply[v].pc = "read",
               apply'[v].order = apply[v].order,
               apply'[v].seen = wallet[apply[v].order.user]
        PROVE  /\ apply'[v].seen \in Had(apply[v].order.user)'
               /\ v \notin crossed' => apply'[v].seen = wallet'[apply'[v].order.user]
    <3>1. apply[v].order.user \in Users
      BY <1>0, <2>3
    <3>2. wallet[apply[v].order.user] \in Had(apply[v].order.user)
      BY <3>1 DEF LastInv, Had
    <3> QED
      BY <2>3, <3>2, QuietPast
  <2> QED
    BY <1>0, <1>3, <2>1, <2>2, <2>3, QuietStep
<1> QED
  BY <1>1, <1>2, <1>3 DEF SeenInv

LEMMA OverlapInvStep ==
  ASSUME WalletInv, OverlapInv, [OverlapNext]_overlapVars
  PROVE  OverlapInv'
<1>1. CASE OverlapNext
  <2>1. OverlapStep /\ [WalletMove]_walletVars
    BY <1>1, NextIsStep, NextIsMove DEF OverlapStep
  <2> QED
    BY <2>1, LastStep, SeenStep DEF WalletInv, OverlapInv
<1>2. CASE UNCHANGED overlapVars
  BY <1>2 DEF overlapVars, walletVars, OverlapInv, LastInv, SeenInv, Beside, Had, LeftBy,
              RowsOf, FirstBalance
<1> QED
  BY <1>1, <1>2

LEMMA OverlapInvInit == OverlapInit => OverlapInv
<1> SUFFICES ASSUME OverlapInit PROVE OverlapInv
  OBVIOUS
<1>1. DOMAIN ledger = {}
  BY DEF OverlapInit, WalletInit
<1>2. \A u : RowsOf(u) = {}
  BY <1>1 DEF RowsOf
<1> QED
  BY <1>2 DEF OverlapInit, WalletInit, OverlapInv, LastInv, SeenInv, FirstBalance

LEMMA OverlapInvHolds == OverlapSpec => [](WalletInv /\ OverlapInv)
<1>1. OverlapInit => WalletInv /\ OverlapInv
  BY WalletInvInit, OverlapInvInit DEF OverlapInit
<1>2. WalletInv /\ [OverlapNext]_overlapVars => WalletInv'
  <2>1. [OverlapNext]_overlapVars => [WalletMove]_walletVars
    BY NextIsMove DEF OverlapNext, overlapVars
  <2> QED
    BY <2>1, WalletInvStep
<1>3. WalletInv /\ OverlapInv /\ [OverlapNext]_overlapVars => OverlapInv'
  BY OverlapInvStep
<1> QED
  BY <1>1, <1>2, <1>3, PTL DEF OverlapSpec

-----------------------------------------------------------------------------
LEMMA WriteIsMove ==
  ASSUME WalletInv, OverlapInv, NEW w \in Workers, WriteWallet(w)
  PROVE  \E u \in Users :
           /\ \E from \in (IF u \in {apply[v].order.user : v \in crossed}
                             THEN Had(u) ELSE {wallet[u]}) : Account!Movement(u, from)
           /\ Had(u)' = Had(u) \cup {wallet'[u]}
           /\ \A v \in Users \ {u} : Had(v)' = Had(v)
<1> DEFINE o == apply[w].order
           from == apply[w].seen
<1>1. o \in Orders /\ Affords(from, o) /\ from \in Balance /\ ShapeInv
  BY CallFields DEF WriteWallet, WalletInv, WriteInv
<1>2. PICK u \in Users : u = o.user
  BY <1>1, OrderType
<1>3. from \in (IF o.user \in {apply[v].order.user : v \in crossed}
                  THEN Had(o.user) ELSE {wallet[o.user]})
  BY DEF WriteWallet, OverlapInv, SeenInv
<1>4. wallet' = [wallet EXCEPT ![o.user] = NewBalance(from, o)]
  BY DEF WriteWallet
<1>5. Account!Move(o.user, from, o.xp, o.credits)
  BY <1>4 DEF Account!Move, NewBalance
<1>6. /\ Had(u)' = Had(u) \cup {wallet'[u]}
      /\ \A v \in Users \ {u} : Had(v)' = Had(v)
  BY <1>1, <1>2, WriteKeepsPast
<1> HIDE DEF o, from
<1>7. ASSUME NEW c \in Users, o = ChargeOrder(c)
      PROVE  Account!ChargeAccount(c, from)
  BY <1>1, <1>5, <1>7, WalletAssumption
     DEF ChargeOrder, Order, Affords, Account!ChargeAccount, Balance
<1>8. ASSUME NEW c \in Users, o = RefundOrder(c) \/ o = FreeUseOrder(c) \/ o = PenaltyOrder(c)
      PROVE  \/ Account!Move(c, from, 0, Cost) \/ Account!Move(c, from, 0, 0)
             \/ Account!Move(c, from, 0, -Penalty)
  BY <1>5, <1>8 DEF RefundOrder, FreeUseOrder, PenaltyOrder, Order
<1>9. ASSUME NEW a \in Admins, NEW c \in Users, NEW d \in Adjustments, o = AdjustOrder(a, c, d)
      PROVE  Account!Move(c, from, d[1], d[2])
  BY <1>5, <1>9 DEF AdjustOrder, Order
<1>10. \/ \E c \in Users : \/ o = ChargeOrder(c) \/ o = RefundOrder(c)
                           \/ o = FreeUseOrder(c) \/ o = PenaltyOrder(c)
       \/ \E a \in Admins, c \in Users, d \in Adjustments : o = AdjustOrder(a, c, d)
  BY <1>1 DEF Orders
<1>11. Account!Movement(o.user, from)
  <2>1. ASSUME NEW c \in Users, \/ o = ChargeOrder(c) \/ o = RefundOrder(c)
                                \/ o = FreeUseOrder(c) \/ o = PenaltyOrder(c)
        PROVE  c = o.user
    BY <2>1 DEF ChargeOrder, RefundOrder, FreeUseOrder, PenaltyOrder, Order
  <2>2. ASSUME NEW a \in Admins, NEW c \in Users, NEW d \in Adjustments, o = AdjustOrder(a, c, d)
        PROVE  c = o.user
    BY <2>2 DEF AdjustOrder, Order
  <2> QED
    BY <1>7, <1>8, <1>9, <1>10, <2>1, <2>2 DEF Account!Movement
<1> QED
  BY <1>2, <1>3, <1>6, <1>11

\* Wherever calls on a wallet do not overlap it is an account that moves from the
\* balance there is, and where they do, from one of its past; no charge leaves it
\* in debt, and wherever the server stops nothing is half done (Apply).
THEOREM WalletImplementsAccount == OverlapSpec => AccountSpec
<1> DEFINE Pasts == [u \in Users |-> Had(u)]
           Over == {apply[w].order.user : w \in crossed}
<1>1. OverlapInit => Account!AccountsInit
  <2> SUFFICES ASSUME OverlapInit PROVE Account!AccountsInit
    OBVIOUS
  <2>1. DOMAIN ledger = {}
    BY DEF OverlapInit, WalletInit
  <2>2. \A u : Had(u) = {FirstBalance}
    BY <2>1 DEF Had, RowsOf
  <2> QED
    BY <2>2 DEF OverlapInit, WalletInit, Account!AccountsInit, Account!NewAccount, FirstBalance
<1>2. ASSUME WalletInv, OverlapInv, WalletInv', OverlapInv', [OverlapNext]_overlapVars
      PROVE  [Account!AccountsNext]_(Account!accountsVars)
  <2>1. Over' \in SUBSET Users
    <3>1. ASSUME NEW w \in Workers, apply'[w].pc = "write" PROVE apply'[w].order.user \in Users
      <4>1. apply'[w].order \in Orders
        BY <1>2, <3>1 DEF WalletInv, ShapeInv, Call
      <4> QED
        BY <4>1, OrderType
    <3> QED
      BY <1>2, <3>1 DEF OverlapInv, SeenInv
  <2>2. [WalletMove]_walletVars
    BY <1>2, NextIsMove DEF OverlapNext, overlapVars
  <2>3. ASSUME NEW w \in Workers, WriteWallet(w) PROVE Account!AccountsNext
    <3>1. PICK u \in Users :
            /\ \E from \in (IF u \in Over THEN Had(u) ELSE {wallet[u]}) : Account!Movement(u, from)
            /\ Had(u)' = Had(u) \cup {wallet'[u]}
            /\ \A v \in Users \ {u} : Had(v)' = Had(v)
      BY <1>2, <2>3, WriteIsMove
    <3>2. Pasts' = [v \in Users |-> Had(v)']
      OBVIOUS
    <3>3. Pasts' = [Pasts EXCEPT ![u] = @ \cup {wallet'[u]}]
      BY <3>1, <3>2
    <3>4. Account!Origins(u) = IF u \in Over THEN Had(u) ELSE {wallet[u]}
      BY DEF Account!Origins
    <3> QED
      BY <2>1, <3>1, <3>3, <3>4 DEF Account!AccountsNext
  <2>4. ASSUME wallet' = wallet, ledger' = ledger PROVE Account!AccountsNext
    <3>1. Pasts' = Pasts
      BY <2>4, QuietPast
    <3> QED
      BY <2>1, <2>4, <3>1 DEF Account!AccountsNext
  <2> QED
    BY <1>2, <2>2, <2>3, <2>4, QuietStep DEF WalletInv
<1>3. OverlapSpec => [](WalletInv /\ OverlapInv)
  BY OverlapInvHolds
<1>4. OverlapSpec => Account!AccountsInit /\ [][Account!AccountsNext]_(Account!accountsVars)
  BY <1>1, <1>2, <1>3, PTL DEF OverlapSpec
<1> QED
  BY <1>4 DEF AccountSpec, Account!AccountsSpec

-----------------------------------------------------------------------------
\* What an earlier row continues from does not change when a row is added.
LEMMA ChainStays ==
  ASSUME ShapeInv, NEW w \in Workers, WriteWallet(w),
         NEW i \in 1..Len(ledger), ContinuesLast(i)
  PROVE  ContinuesLast(i)'
<1> DEFINE n == Len(ledger) + 1
           earlier == {j \in RowsOf(ledger[i].user) : j < i}
<1>1. /\ Len(ledger) \in Nat /\ DOMAIN ledger = 1..Len(ledger) /\ DOMAIN ledger' = 1..n
      /\ \A j \in 1..Len(ledger) : ledger'[j] = ledger[j]
  BY WriteEffect
<1>2. ledger'[i] = ledger[i] /\ earlier' = earlier /\ \A j \in earlier : ledger'[j] = ledger[j]
  BY <1>1 DEF RowsOf
<1>3. CASE earlier = {} /\ Continues(i, FirstBalance)
  BY <1>2, <1>3 DEF ContinuesLast, Continues, FirstBalance
<1>4. CASE \E j \in earlier : (\A k \in earlier : k <= j) /\ Continues(i, LeftBy(j))
  <2>1. PICK j \in earlier : (\A k \in earlier : k <= j) /\ Continues(i, LeftBy(j))
    BY <1>4
  <2>2. Continues(i, LeftBy(j))'
    BY <1>2, <2>1 DEF Continues, LeftBy
  <2> QED
    BY <1>2, <2>1, <2>2 DEF ContinuesLast
<1> QED
  BY <1>3, <1>4 DEF ContinuesLast

\* The row of a call that overlapped none continues from its user's last row.
LEMMA RowContinues ==
  ASSUME WalletInv, OverlapInv, NEW w \in Workers, WriteWallet(w), w \notin crossed,
         NEW n \in Nat, n = Len(ledger) + 1
  PROVE  ContinuesLast(n)'
<1> DEFINE o == apply[w].order
           b == NewBalance(apply[w].seen, o)
<1>1. /\ o \in Orders /\ Len(ledger) \in Nat /\ ShapeInv
      /\ ledger'[n] = Row(o, b) /\ Len(ledger') = n
  BY WriteEffect DEF WalletInv
<1>2. PICK u \in Users : u = o.user
  BY <1>1, OrderType
<1>3. /\ Row(o, b).user = u /\ Row(o, b).creditsDelta = o.credits
      /\ Row(o, b).xpDelta = o.xp
      /\ Row(o, b).balanceAfter = b.credits /\ Row(o, b).xpAfter = b.xp
  BY <1>2, RowFields
<1>4. apply[w].seen = wallet[u]
  BY <1>2 DEF WriteWallet, OverlapInv, SeenInv
<1>5. ASSUME NEW before, before = wallet[u]
      PROVE  /\ ledger'[n].balanceAfter = before.credits + ledger'[n].creditsDelta
             /\ ledger'[n].xpAfter = IF before.xp + ledger'[n].xpDelta < 0 THEN 0
                                        ELSE before.xp + ledger'[n].xpDelta
  BY <1>1, <1>3, <1>4, <1>5 DEF NewBalance
<1>6. /\ RowsOf(u)' = RowsOf(u) \cup {n}
      /\ \A j \in RowsOf(u) : j \in 1..Len(ledger) /\ LeftBy(j)' = LeftBy(j)
  BY <1>1, <1>2, WritePast
<1>7. {j \in RowsOf(ledger[n].user) : j < n}' = RowsOf(u)
  <2>1. {j \in RowsOf(ledger[n].user) : j < n}' = {j \in RowsOf(u)' : j < n}
    BY <1>1, <1>3 DEF RowsOf
  <2> HIDE DEF o
  <2> QED
    BY <1>1, <1>6, <2>1
<1>8. \/ RowsOf(u) = {} /\ wallet[u] = FirstBalance
      \/ \E i \in RowsOf(u) : (\A j \in RowsOf(u) : j <= i) /\ wallet[u] = LeftBy(i)
  BY <1>2 DEF OverlapInv, LastInv
<1> HIDE DEF o, b
<1>9. CASE RowsOf(u) = {} /\ wallet[u] = FirstBalance
  <2>1. Continues(n, FirstBalance)'
    BY <1>5, <1>9 DEF Continues, FirstBalance
  <2> QED
    BY <1>7, <1>9, <2>1 DEF ContinuesLast
<1>10. ASSUME NEW i \in RowsOf(u), \A j \in RowsOf(u) : j <= i, wallet[u] = LeftBy(i)
       PROVE  ContinuesLast(n)'
  <2>1. LeftBy(i)' = wallet[u]
    BY <1>6, <1>10
  <2>2. Continues(n, LeftBy(i))'
    BY <1>5, <2>1 DEF Continues, LeftBy
  <2> QED
    BY <1>7, <1>10, <2>2 DEF ContinuesLast
<1> QED
  BY <1>8, <1>9, <1>10

LEMMA WriteKeepsChain ==
  ASSUME WalletInv, OverlapInv, LedgerChains, OverlapStep, NEW w \in Workers, WriteWallet(w)
  PROVE  LedgerChains'
<1>0. PICK n \in Nat : n = Len(ledger) + 1
  BY DEF WalletInv, ShapeInv
<1>1. /\ DOMAIN ledger = 1..Len(ledger) /\ DOMAIN ledger' = 1..n /\ Len(ledger') = n
      /\ Len(ledger) \in Nat /\ ShapeInv
  BY <1>0, WriteEffect DEF WalletInv
<1>2. apply'[w].pc = "applied"
  BY <1>1 DEF WriteWallet, ShapeInv
<1>3. /\ torn \subseteq torn'
      /\ w \in crossed => n \in torn'
  BY <1>1, <1>2 DEF OverlapStep
<1> SUFFICES ASSUME NEW i \in DOMAIN ledger', i \notin torn'
             PROVE  ContinuesLast(i)'
  BY DEF LedgerChains
<1>4. CASE i = n
  BY <1>0, <1>3, <1>4, RowContinues
<1>5. CASE i # n
  BY <1>0, <1>1, <1>3, <1>5, ChainStays DEF LedgerChains
<1> QED
  BY <1>4, <1>5

\* A row whose own call overlapped no other on its wallet continues from the row
\* before it, with credits and XP: a movement is lost only by overlapping calls.
THEOREM LedgerChainsSafe == OverlapSpec => []LedgerChains
<1>1. OverlapInit => LedgerChains
  BY DEF OverlapInit, WalletInit, LedgerChains
<1>2. ASSUME WalletInv, OverlapInv, LedgerChains, [OverlapNext]_overlapVars PROVE LedgerChains'
  <2>1. ASSUME ledger' = ledger, torn \subseteq torn' PROVE LedgerChains'
    <3>1. ASSUME NEW i, ContinuesLast(i) PROVE ContinuesLast(i)'
      BY <2>1, <3>1 DEF ContinuesLast, Continues, RowsOf, LeftBy, FirstBalance
    <3> QED
      BY <2>1, <3>1, <1>2 DEF LedgerChains
  <2>2. CASE OverlapNext
    <3>1. OverlapStep /\ [WalletMove]_walletVars /\ torn \subseteq torn'
      BY <2>2, NextIsStep, NextIsMove DEF OverlapStep
    <3> QED
      BY <1>2, <2>1, <3>1, QuietStep, WriteKeepsChain DEF WalletInv
  <2>3. CASE UNCHANGED overlapVars
    BY <2>1, <2>3 DEF overlapVars, walletVars
  <2> QED
    BY <1>2, <2>2, <2>3
<1> QED
  BY <1>1, <1>2, OverlapInvHolds, PTL DEF OverlapSpec

-----------------------------------------------------------------------------
(* Translation: its calls of Apply are orders of the wallet, and every      *)
(* charge is accounted for.                                                 *)

\* What a request is about to write, or has just written, follows from where it
\* is; only a call that was charged, which costs something, can owe anything.
SlotInv(w) ==
  /\ call[w] \in {NoCall} \cup Calling
  /\ call[w].pc \in {"idle", "quota", "model"} => apply[w].pc = "idle"
  /\ call[w].pc \in {"charge", "refund", "free"} => apply[w].pc # "idle"
  /\ call[w].pc = "charge" => call[w].charged /\ apply[w].order = ChargeOrder(call[w].user)
  /\ call[w].pc = "refund" => /\ call[w].charged /\ apply[w].order = RefundOrder(call[w].user)
                              /\ apply[w].pc # "refused"
  /\ call[w].pc = "free" => ~call[w].charged /\ apply[w].order = FreeUseOrder(call[w].user)
  /\ call[w].pc = "quota" => ~call[w].charged
  /\ call[w].pc # "idle" /\ call[w].charged => Cost # 0

SlotsInv ==
  /\ call \in [Workers -> {NoCall} \cup Calling]
  /\ paid \in [Users -> Nat] /\ lost \in [Users -> Nat]
  /\ \A w \in Workers : SlotInv(w)
  /\ \A i \in DOMAIN ledger : ledger[i].kind = "translation"

LEMMA SlotFacts ==
  ASSUME ShapeInv, SlotsInv, NEW w \in Workers
  PROVE  /\ SlotInv(w)
         /\ call[w].pc \in {"idle", "quota", "charge", "model", "refund", "free"}
         /\ call[w].pc = "idle" => call[w] = NoCall
         /\ call[w].pc # "idle" => /\ call[w] # NoCall /\ call[w] \in Calling
                                   /\ call[w].user \in Users /\ call[w].charged \in BOOLEAN
         /\ apply[w].pc # "idle" => call[w].pc \in {"charge", "refund", "free"}
<1>1. SlotInv(w)
  BY DEF SlotsInv
<1>2. call[w] = NoCall \/ call[w] \in Calling
  BY <1>1 DEF SlotInv
<1> QED
  BY <1>1, <1>2 DEF SlotInv, NoCall, Calling

\* The steps of one request.
LEMMA OneSlot ==
  ASSUME SlotsInv, NEW w \in Workers, UNCHANGED ledger,
         \A v \in Workers : v # w => call'[v] = call[v] /\ apply'[v] = apply[v],
         call' \in [Workers -> {NoCall} \cup Calling],
         paid' \in [Users -> Nat], UNCHANGED lost,
         SlotInv(w)'
  PROVE  SlotsInv'
<1>1. ASSUME NEW v \in Workers PROVE SlotInv(v)'
  <2>1. CASE v = w
    BY <2>1
  <2>2. CASE v # w
    <3>1. SlotInv(v) /\ call'[v] = call[v] /\ apply'[v] = apply[v]
      BY <2>2 DEF SlotsInv
    <3> QED
      BY <3>1 DEF SlotInv
  <2> QED
    BY <2>1, <2>2
<1> QED
  BY <1>1 DEF SlotsInv

\* A request changes its own slot only; what it is afterwards.
Slot(w, q, a) ==
  /\ call' = [call EXCEPT ![w] = q] /\ apply' = [apply EXCEPT ![w] = a]
  /\ call'[w] = q /\ apply'[w] = a
  /\ \A v \in Workers : v # w => call'[v] = call[v] /\ apply'[v] = apply[v]

LEMMA SlotSet ==
  ASSUME ShapeInv, SlotsInv, NEW w \in Workers, NEW q, NEW a,
         call' = [call EXCEPT ![w] = q], apply' = [apply EXCEPT ![w] = a]
  PROVE  Slot(w, q, a)
BY DEF Slot, ShapeInv, SlotsInv

LEMMA SlotKept ==
  ASSUME ShapeInv, SlotsInv, NEW w \in Workers, UNCHANGED apply
  PROVE  apply' = [apply EXCEPT ![w] = apply[w]]
BY DEF ShapeInv

NoApply == [pc |-> "idle"]
Reading(order) == [pc |-> "read", order |-> order]
At(q, pc) == [q EXCEPT !.pc = pc]

LEMMA IdleSlot ==
  ASSUME ShapeInv, SlotsInv, NEW w \in Workers, call[w].pc \in {"idle", "quota", "model"}
  PROVE  apply[w] = NoApply
<1>1. apply[w].pc = "idle"
  BY DEF SlotsInv, SlotInv
<1> QED
  BY <1>1 DEF ShapeInv, Call, NoApply

LEMMA AtFields ==
  ASSUME NEW q \in Calling, NEW pc \in {"quota", "charge", "model", "refund", "free"}
  PROVE  /\ At(q, pc) \in Calling /\ At(q, pc).pc = pc
         /\ At(q, pc).user = q.user /\ At(q, pc).charged = q.charged
BY DEF At, Calling

\* Where the calls go: each step as a change of the slot.
LEMMA CheckQuotaSlot ==
  ASSUME ShapeInv, SlotsInv, NEW w \in Workers, CheckQuota(w)
  PROVE  /\ call[w] \in Calling /\ call[w].pc = "quota" /\ ~call[w].charged
         /\ \/ /\ HasFreeQuota(call[w].user) \/ Cost = 0
               /\ Slot(w, At(call[w], "model"), NoApply)
            \/ /\ Cost # 0
               /\ Slot(w, [At(call[w], "charge") EXCEPT !.charged = TRUE],
                       Reading(ChargeOrder(call[w].user)))
<1> DEFINE q == call[w]
<1>1. q.pc = "quota"
  BY DEF CheckQuota
<1>2. q \in Calling /\ ~q.charged /\ apply[w] = NoApply
  BY <1>1, SlotFacts, IdleSlot DEF SlotInv
<1>3. CASE HasFreeQuota(q.user) \/ Cost = 0
  <2>1. call' = [call EXCEPT ![w] = At(q, "model")] /\ UNCHANGED apply
    BY <1>3 DEF CheckQuota, At
  <2>2. apply' = [apply EXCEPT ![w] = NoApply]
    BY <1>2, <2>1, SlotKept
  <2> QED
    BY <1>1, <1>2, <1>3, <2>1, <2>2, SlotSet
<1>4. CASE ~(HasFreeQuota(q.user) \/ Cost = 0)
  <2>1. call' = [call EXCEPT ![w] = [At(q, "charge") EXCEPT !.charged = TRUE]]
    BY <1>2, <1>4 DEF CheckQuota, At, Calling, SlotsInv
  <2>2. apply' = [apply EXCEPT ![w] = Reading(ChargeOrder(q.user))]
    BY <1>4 DEF CheckQuota, BeginApply, Reading
  <2> QED
    BY <1>1, <1>2, <1>4, <2>1, <2>2, SlotSet
<1> QED
  BY <1>3, <1>4

LEMMA ChargedSlot ==
  ASSUME ShapeInv, SlotsInv, NEW w \in Workers, Charged(w)
  PROVE  /\ call[w] \in Calling /\ call[w].pc = "charge" /\ call[w].charged
         /\ \/ apply[w].pc = "applied" /\ Slot(w, At(call[w], "model"), NoApply)
            \/ apply[w].pc = "refused" /\ Slot(w, NoCall, NoApply)
<1>1. /\ call[w].pc = "charge" /\ apply[w].pc \in {"applied", "refused"}
      /\ apply' = [apply EXCEPT ![w] = NoApply]
  BY DEF Charged, EndApply, NoApply
<1>2. call[w] \in Calling /\ call[w].charged
  BY <1>1, SlotFacts DEF SlotInv
<1>3. call' = [call EXCEPT ![w] = IF apply[w].pc = "applied" THEN At(call[w], "model") ELSE NoCall]
  BY <1>2 DEF Charged, At, SlotsInv
<1> QED
  BY <1>1, <1>2, <1>3, SlotSet

LEMMA AnswersSlot ==
  ASSUME ShapeInv, SlotsInv, NEW w \in Workers, ModelAnswers(w)
  PROVE  /\ call[w] \in Calling /\ call[w].pc = "model"
         /\ \/ /\ call[w].charged /\ Slot(w, NoCall, NoApply)
               /\ paid' = [paid EXCEPT ![call[w].user] = @ + 1]
            \/ /\ ~call[w].charged /\ UNCHANGED paid
               /\ Slot(w, At(call[w], "free"), Reading(FreeUseOrder(call[w].user)))
<1>1. call[w].pc = "model"
  BY DEF ModelAnswers
<1>2. call[w] \in Calling /\ call[w].charged \in BOOLEAN /\ apply[w] = NoApply
  BY <1>1, SlotFacts, IdleSlot
<1>3. CASE call[w].charged
  <2>1. call' = [call EXCEPT ![w] = NoCall] /\ UNCHANGED apply
    BY <1>3 DEF ModelAnswers
  <2>2. apply' = [apply EXCEPT ![w] = NoApply]
    BY <1>2, <2>1, SlotKept
  <2> QED
    BY <1>1, <1>2, <1>3, <2>1, <2>2, SlotSet DEF ModelAnswers
<1>4. CASE ~call[w].charged
  <2>1. call' = [call EXCEPT ![w] = At(call[w], "free")]
    BY <1>4 DEF ModelAnswers, At
  <2>2. apply' = [apply EXCEPT ![w] = Reading(FreeUseOrder(call[w].user))]
    BY <1>4 DEF ModelAnswers, BeginApply, Reading
  <2> QED
    BY <1>1, <1>2, <1>4, <2>1, <2>2, SlotSet DEF ModelAnswers
<1> QED
  BY <1>3, <1>4

LEMMA FailsSlot ==
  ASSUME ShapeInv, SlotsInv, NEW w \in Workers, ModelFails(w)
  PROVE  /\ call[w] \in Calling /\ call[w].pc = "model"
         /\ \/ /\ call[w].charged
               /\ Slot(w, At(call[w], "refund"), Reading(RefundOrder(call[w].user)))
            \/ ~call[w].charged /\ Slot(w, NoCall, NoApply)
<1>1. call[w].pc = "model"
  BY DEF ModelFails
<1>2. call[w] \in Calling /\ call[w].charged \in BOOLEAN /\ apply[w] = NoApply
  BY <1>1, SlotFacts, IdleSlot
<1>3. CASE ~call[w].charged
  <2>1. call' = [call EXCEPT ![w] = NoCall] /\ UNCHANGED apply
    BY <1>3 DEF ModelFails
  <2>2. apply' = [apply EXCEPT ![w] = NoApply]
    BY <1>2, <2>1, SlotKept
  <2> QED
    BY <1>1, <1>2, <1>3, <2>1, <2>2, SlotSet
<1>4. CASE call[w].charged
  <2>1. call' = [call EXCEPT ![w] = At(call[w], "refund")]
    BY <1>4 DEF ModelFails, At
  <2>2. apply' = [apply EXCEPT ![w] = Reading(RefundOrder(call[w].user))]
    BY <1>4 DEF ModelFails, BeginApply, Reading
  <2> QED
    BY <1>1, <1>2, <1>4, <2>1, <2>2, SlotSet
<1> QED
  BY <1>3, <1>4

LEMMA SettledSlot ==
  ASSUME ShapeInv, SlotsInv, NEW w \in Workers, Settled(w)
  PROVE  /\ call[w] \in Calling /\ call[w].pc \in {"refund", "free"}
         /\ apply[w].pc \in {"applied", "refused"} /\ Slot(w, NoCall, NoApply)
<1>1. /\ call[w].pc \in {"refund", "free"} /\ apply[w].pc \in {"applied", "refused"}
      /\ apply' = [apply EXCEPT ![w] = NoApply] /\ call' = [call EXCEPT ![w] = NoCall]
  BY DEF Settled, EndApply, NoApply
<1>2. call[w] \in Calling
  BY <1>1, SlotFacts
<1> QED
  BY <1>1, <1>2, SlotSet

LEMMA LookUpSlot ==
  ASSUME ShapeInv, SlotsInv, NEW w \in Workers, NEW u \in Users, NEW s \in Texts, LookUp(w, u, s)
  PROVE  \E q \in Calling : q.pc = "quota" /\ ~q.charged /\ Slot(w, q, NoApply) /\ call[w] = NoCall
<1> DEFINE q == [pc |-> "quota", user |-> u, text |-> s, charged |-> FALSE]
<1>1. q \in Calling /\ q.pc = "quota" /\ ~q.charged
  BY DEF Calling
<1>2. call[w] = NoCall /\ call' = [call EXCEPT ![w] = q] /\ UNCHANGED apply
  BY DEF LookUp, walletVars
<1>3. apply[w] = NoApply
  BY <1>2, IdleSlot DEF NoCall
<1>4. apply' = [apply EXCEPT ![w] = NoApply]
  BY <1>2, <1>3, SlotKept
<1> HIDE DEF q
<1>5. Slot(w, q, NoApply)
  BY <1>2, <1>4, SlotSet
<1> QED
  BY <1>1, <1>2, <1>5

\* Apply goes on for a call: the order stays, a refund is never refused.
LEMMA ApplySlot ==
  ASSUME ShapeInv, SlotsInv, NEW w \in Workers, ApplyStep(w), UNCHANGED call
  PROVE  /\ call[w] \in Calling /\ call[w].pc \in {"charge", "refund", "free"}
         /\ apply[w].order.user = call[w].user /\ apply[w].order \in Orders
         /\ \E a \in Call :
              /\ Slot(w, call[w], a) /\ a.order = apply[w].order
              /\ \/ /\ WriteWallet(w) /\ apply[w].pc = "write" /\ a.pc = "applied"
                 \/ /\ UNCHANGED ledger /\ apply[w].pc = "read" /\ a.pc \in {"write", "refused"}
                    /\ call[w].pc = "refund" => a.pc = "write"
<1> DEFINE o == apply[w].order
<1>1. apply[w].pc \in {"read", "write"}
  BY DEF ApplyStep, ReadWallet, WriteWallet
<1>2. call[w] \in Calling /\ call[w].pc \in {"charge", "refund", "free"} /\ SlotInv(w)
  BY <1>1, SlotFacts
<1>3. o \in Orders /\ o.user \in Users
  BY <1>1, CallFields, OrderType
<1>4. o.user = call[w].user
  BY <1>2 DEF SlotInv, ChargeOrder, RefundOrder, FreeUseOrder, Order
<1>5. call' = [call EXCEPT ![w] = call[w]]
  BY DEF SlotsInv
<1>6. CASE ReadWallet(w)
  <2> DEFINE a == IF Affords(wallet[o.user], o)
                    THEN [pc |-> "write", order |-> o, seen |-> wallet[o.user]]
                    ELSE [pc |-> "refused", order |-> o]
  <2>1. apply' = [apply EXCEPT ![w] = a] /\ apply[w].pc = "read" /\ UNCHANGED ledger
    BY <1>6 DEF ReadWallet
  <2>2. wallet[o.user] \in Balance
    BY <1>3 DEF ShapeInv
  <2>3. call[w].pc = "refund" => o.overdraw
    BY <1>2 DEF SlotInv, RefundOrder, Order
  <2> HIDE DEF o
  <2>4. a \in Call /\ a.order = o /\ a.pc \in {"write", "refused"}
    BY <1>3, <2>2 DEF Call
  <2>5. call[w].pc = "refund" => a.pc = "write"
    BY <2>3 DEF Affords
  <2> HIDE DEF a
  <2>6. Slot(w, call[w], a)
    BY <1>5, <2>1, SlotSet
  <2> QED
    BY <1>2, <1>3, <1>4, <2>1, <2>4, <2>5, <2>6 DEF o
<1>7. CASE WriteWallet(w)
  <2> DEFINE a == [pc |-> "applied", order |-> o]
  <2>1. apply' = [apply EXCEPT ![w] = a] /\ apply[w].pc = "write"
    BY <1>7 DEF WriteWallet
  <2> HIDE DEF o
  <2>2. a \in Call /\ a.order = o /\ a.pc = "applied"
    BY <1>3 DEF Call
  <2> HIDE DEF a
  <2>3. Slot(w, call[w], a)
    BY <1>5, <2>1, SlotSet
  <2> QED
    BY <1>2, <1>3, <1>4, <1>7, <2>1, <2>2, <2>3 DEF o
<1> QED
  BY <1>6, <1>7 DEF ApplyStep

\* Every call of a request to Apply is an order of the wallet.
LEMMA TranslationMoves ==
  ASSUME ShapeInv, SlotsInv, [TranslationNext]_translationVars
  PROVE  [WalletMove]_walletVars
<1>1. ASSUME NEW w \in Workers, CheckQuota(w) PROVE [WalletMove]_walletVars
  <2>1. call[w].user \in Users
    BY <1>1, CheckQuotaSlot DEF Calling
  <2>2. ChargeOrder(call[w].user) \in Orders
    BY <2>1 DEF Orders
  <2> QED
    BY <1>1, <2>2 DEF CheckQuota, WalletMove, walletVars
<1>2. ASSUME NEW w \in Workers, ModelAnswers(w) \/ ModelFails(w) PROVE [WalletMove]_walletVars
  <2>1. call[w].user \in Users
    BY <1>2, AnswersSlot, FailsSlot DEF Calling
  <2>2. FreeUseOrder(call[w].user) \in Orders /\ RefundOrder(call[w].user) \in Orders
    BY <2>1 DEF Orders
  <2> QED
    BY <1>2, <2>2 DEF ModelAnswers, ModelFails, WalletMove, walletVars
<1>3. ASSUME NEW w \in Workers, Charged(w) \/ Settled(w) \/ ApplyStep(w)
      PROVE  [WalletMove]_walletVars
  BY <1>3 DEF Charged, Settled, WalletMove
<1> QED
  BY <1>1, <1>2, <1>3
     DEF TranslationNext, CallStep, LookUp, CrashTranslation, WalletMove, translationVars, walletVars

LEMMA SlotsKept ==
  ASSUME ShapeInv, SlotsInv, NEW w \in Workers, NEW q \in {NoCall} \cup Calling, NEW a,
         Slot(w, q, a), UNCHANGED <<ledger, lost>>, paid' \in [Users -> Nat],
         q.pc \in {"idle", "quota", "model"} => a.pc = "idle",
         q.pc \in {"charge", "refund", "free"} => a.pc # "idle",
         q.pc = "charge" => q.charged /\ a.order = ChargeOrder(q.user),
         q.pc = "refund" => q.charged /\ a.order = RefundOrder(q.user) /\ a.pc # "refused",
         q.pc = "free" => ~q.charged /\ a.order = FreeUseOrder(q.user),
         q.pc = "quota" => ~q.charged,
         q.pc # "idle" /\ q.charged => Cost # 0
  PROVE  SlotsInv'
<1>1. SlotInv(w)'
  BY DEF SlotInv, Slot
<1>2. call' \in [Workers -> {NoCall} \cup Calling]
  BY DEF Slot, SlotsInv
<1> QED
  BY <1>1, <1>2, OneSlot DEF Slot

LEMMA SlotsStep ==
  ASSUME ShapeInv, SlotsInv, [TranslationNext]_translationVars
  PROVE  SlotsInv'
<1>1. paid \in [Users -> Nat] /\ NoCall.pc = "idle" /\ NoApply.pc = "idle"
  BY DEF SlotsInv, NoCall, NoApply
<1>2. ASSUME NEW w \in Workers, NEW u \in Users, NEW s \in Texts, LookUp(w, u, s) PROVE SlotsInv'
  <2>1. PICK q \in Calling : q.pc = "quota" /\ ~q.charged /\ Slot(w, q, NoApply)
    BY <1>2, LookUpSlot
  <2> QED
    BY <1>1, <1>2, <2>1, SlotsKept DEF LookUp, walletVars
<1>3. ASSUME NEW w \in Workers, CheckQuota(w) PROVE SlotsInv'
  <2>1. call[w] \in Calling /\ UNCHANGED <<ledger, lost, paid>> /\ call[w].pc = "quota" /\ ~call[w].charged
    BY <1>3, CheckQuotaSlot DEF CheckQuota
  <2>2. CASE Slot(w, At(call[w], "model"), NoApply)
    BY <1>1, <2>1, <2>2, AtFields, SlotsKept
  <2>3. CASE Cost # 0 /\ Slot(w, [At(call[w], "charge") EXCEPT !.charged = TRUE],
                               Reading(ChargeOrder(call[w].user)))
    <3> DEFINE q == [At(call[w], "charge") EXCEPT !.charged = TRUE]
    <3>1. q \in Calling /\ q.pc = "charge" /\ q.charged /\ q.user = call[w].user
      BY <2>1 DEF At, Calling
    <3>2. /\ Reading(ChargeOrder(q.user)).pc # "idle"
          /\ Reading(ChargeOrder(q.user)).order = ChargeOrder(q.user)
      BY DEF Reading
    <3> HIDE DEF q
    <3> QED
      BY <1>1, <2>1, <2>3, <3>1, <3>2, SlotsKept DEF q
  <2> QED
    BY <1>3, <2>2, <2>3, CheckQuotaSlot
<1>4. ASSUME NEW w \in Workers, Charged(w) PROVE SlotsInv'
  <2>1. call[w] \in Calling /\ UNCHANGED <<ledger, lost, paid>> /\ SlotInv(w) /\ call[w].pc = "charge"
    BY <1>4, ChargedSlot, SlotFacts DEF Charged
  <2>2. CASE Slot(w, At(call[w], "model"), NoApply)
    BY <1>1, <2>1, <2>2, AtFields, SlotsKept DEF SlotInv
  <2>3. CASE Slot(w, NoCall, NoApply)
    BY <1>1, <2>1, <2>3, SlotsKept
  <2> QED
    BY <1>4, <2>2, <2>3, ChargedSlot
<1>5. ASSUME NEW w \in Workers, ModelAnswers(w) PROVE SlotsInv'
  <2>1. /\ call[w] \in Calling /\ UNCHANGED <<ledger, lost>> /\ call[w].user \in Users
        /\ SlotInv(w) /\ call[w].pc = "model"
    BY <1>5, AnswersSlot, SlotFacts DEF ModelAnswers, Calling
  <2>2. CASE paid' = [paid EXCEPT ![call[w].user] = @ + 1] /\ Slot(w, NoCall, NoApply)
    <3>1. paid' \in [Users -> Nat]
      BY <1>1, <2>1, <2>2
    <3> QED
      BY <1>1, <2>1, <2>2, <3>1, SlotsKept
  <2>3. CASE /\ ~call[w].charged /\ UNCHANGED paid
             /\ Slot(w, At(call[w], "free"), Reading(FreeUseOrder(call[w].user)))
    <3>1. /\ Reading(FreeUseOrder(call[w].user)).pc # "idle"
          /\ Reading(FreeUseOrder(call[w].user)).order = FreeUseOrder(call[w].user)
      BY DEF Reading
    <3> QED
      BY <1>1, <2>1, <2>3, <3>1, AtFields, SlotsKept
  <2> QED
    BY <1>5, <2>2, <2>3, AnswersSlot
<1>6. ASSUME NEW w \in Workers, ModelFails(w) PROVE SlotsInv'
  <2>1. /\ call[w] \in Calling /\ UNCHANGED <<ledger, lost, paid>>
        /\ SlotInv(w) /\ call[w].pc = "model"
    BY <1>6, FailsSlot, SlotFacts DEF ModelFails
  <2>2. CASE Slot(w, NoCall, NoApply)
    BY <1>1, <2>1, <2>2, SlotsKept
  <2>3. CASE /\ call[w].charged
             /\ Slot(w, At(call[w], "refund"), Reading(RefundOrder(call[w].user)))
    <3>1. /\ Reading(RefundOrder(call[w].user)).pc = "read"
          /\ Reading(RefundOrder(call[w].user)).order = RefundOrder(call[w].user)
      BY DEF Reading
    <3> QED
      BY <1>1, <2>1, <2>3, <3>1, AtFields, SlotsKept DEF SlotInv
  <2> QED
    BY <1>6, <2>2, <2>3, FailsSlot
<1>7. ASSUME NEW w \in Workers, Settled(w) PROVE SlotsInv'
  <2>1. Slot(w, NoCall, NoApply) /\ UNCHANGED <<ledger, lost, paid>>
    BY <1>7, SettledSlot DEF Settled
  <2> QED
    BY <1>1, <2>1, SlotsKept
<1>8. ASSUME NEW w \in Workers, ApplyStep(w), UNCHANGED <<call, paid, lost>> PROVE SlotsInv'
  <2>1. PICK a \in Call :
          /\ Slot(w, call[w], a) /\ a.order = apply[w].order
          /\ a.pc \in {"applied", "write", "refused"} /\ apply[w].pc \in {"read", "write"}
          /\ call[w].pc = "refund" => a.pc # "refused"
    BY <1>8, ApplySlot
  <2>2. SlotInv(w) /\ call[w].pc \in {"charge", "refund", "free"} /\ apply[w].order \in Orders
    BY <1>8, SlotFacts, ApplySlot
  <2>3. \A i \in DOMAIN ledger' : ledger'[i].kind = "translation"
    <3>1. CASE UNCHANGED ledger
      BY <3>1 DEF SlotsInv
    <3>2. CASE WriteWallet(w)
      <4>1. apply[w].order.kind = "translation"
        BY <2>2 DEF SlotInv, ChargeOrder, RefundOrder, FreeUseOrder, Order
      <4> QED
        BY <3>2, <4>1, WriteEffect, RowFields DEF SlotsInv
    <3> QED
      BY <1>8, <3>1, <3>2 DEF ApplyStep, ReadWallet
  <2>4. \A v \in Workers : SlotInv(v)'
    <3>1. SlotInv(w)'
      BY <2>1, <2>2, <1>8 DEF SlotInv, Slot
    <3>2. ASSUME NEW v \in Workers, v # w PROVE SlotInv(v)'
      <4>1. SlotInv(v) /\ call'[v] = call[v] /\ apply'[v] = apply[v]
        BY <2>1, <3>2 DEF SlotsInv, Slot
      <4> QED
        BY <4>1 DEF SlotInv
    <3> QED
      BY <3>1, <3>2
  <2> QED
    BY <1>8, <2>3, <2>4 DEF SlotsInv
<1>9. ASSUME CrashTranslation PROVE SlotsInv'
  <2>1. /\ call' = [w \in Workers |-> NoCall] /\ apply' = [w \in Workers |-> NoApply]
        /\ UNCHANGED <<ledger, paid>>
    BY <1>9 DEF CrashTranslation, CrashWallet, NoApply
  <2>2. \A u \in Users : OwedTo(u) \in SUBSET Workers
    BY DEF OwedTo
  <2>3. \A u \in Users : Cardinality(OwedTo(u)) \in Nat
    BY <2>2, TranslationAssumption, FS_Subset, FS_CardinalityType
  <2>4. lost' \in [Users -> Nat]
    BY <1>9, <2>3 DEF CrashTranslation, SlotsInv
  <2>5. \A w \in Workers : SlotInv(w)'
    BY <1>1, <2>1 DEF SlotInv
  <2> QED
    BY <2>1, <2>4, <2>5 DEF SlotsInv
<1>10. ASSUME UNCHANGED <<ledger, apply, call, paid, lost>> PROVE SlotsInv'
  BY <1>10 DEF SlotsInv, SlotInv
<1> QED
  BY <1>2, <1>3, <1>4, <1>5, <1>6, <1>7, <1>8, <1>9, <1>10
     DEF TranslationNext, CallStep, Midnight, translationVars
-----------------------------------------------------------------------------
(* Charges and refunds against what was delivered.                          *)

\* What a slot says of a charge: the committed row of user u is not settled.
OwesTo(q, a, u) ==
  /\ q.pc \in {"charge", "model", "refund"} /\ q.user = u /\ q.charged
  /\ q.pc = "charge" => a.pc = "applied"
  /\ q.pc = "refund" => a.pc # "applied"

PaidFor(u) ==
  Cardinality(Rows(u, "translation")) - Cardinality(Rows(u, "translation_refund"))
    = paid[u] + lost[u] + Cardinality(OwedTo(u))

LEMMA OwedBySlot ==
  ASSUME NEW u
  PROVE  OwedTo(u) = {w \in Workers : OwesTo(call[w], apply[w], u)}
<1>1. ASSUME NEW w \in Workers
      PROVE  (call[w] # NoCall /\ call[w].user = u /\ Owed(w)) <=> OwesTo(call[w], apply[w], u)
  BY DEF Owed, OwesTo, NoCall
<1> QED
  BY <1>1 DEF OwedTo

LEMMA OwedAfter ==
  ASSUME NEW u
  PROVE  OwedTo(u)' = {w \in Workers : OwesTo(call'[w], apply'[w], u)}
<1>1. ASSUME NEW w \in Workers
      PROVE  (call'[w] # NoCall /\ call'[w].user = u /\ Owed(w)')
               <=> OwesTo(call'[w], apply'[w], u)
  BY DEF Owed, OwesTo, NoCall
<1> QED
  BY <1>1 DEF OwedTo

\* How a step of one slot changes what is owed.
LEMMA OwedBesideSlot ==
  ASSUME NEW w \in Workers, NEW q, NEW a, Slot(w, q, a), NEW u
  PROVE  /\ OwesTo(q, a, u) <=> OwesTo(call[w], apply[w], u) => OwedTo(u)' = OwedTo(u)
         /\ OwesTo(q, a, u) /\ ~OwesTo(call[w], apply[w], u) =>
              w \notin OwedTo(u) /\ OwedTo(u)' = OwedTo(u) \cup {w}
         /\ ~OwesTo(q, a, u) /\ OwesTo(call[w], apply[w], u) =>
              w \in OwedTo(u) /\ OwedTo(u)' = OwedTo(u) \ {w}
<1> DEFINE Before(v) == OwesTo(call[v], apply[v], u)
           After(v) == OwesTo(call'[v], apply'[v], u)
<1>1. \A v \in Workers : v # w => (After(v) <=> Before(v))
  BY DEF Slot, OwesTo
<1>2. After(w) <=> OwesTo(q, a, u)
  BY DEF Slot
<1>3. OwedTo(u) = {v \in Workers : Before(v)} /\ OwedTo(u)' = {v \in Workers : After(v)}
  BY OwedBySlot, OwedAfter
<1>4. Before(w) <=> OwesTo(call[w], apply[w], u)
  OBVIOUS
<1> HIDE DEF Before, After
<1> QED
  BY <1>1, <1>2, <1>3, <1>4

LEMMA RowsAreFinite ==
  ASSUME ShapeInv, NEW u, NEW ref
  PROVE  /\ IsFiniteSet(Rows(u, ref)) /\ Cardinality(Rows(u, ref)) \in Nat
         /\ IsFiniteSet(OwedTo(u)) /\ Cardinality(OwedTo(u)) \in Nat
<1>1. Len(ledger) \in Nat /\ DOMAIN ledger = 1..Len(ledger)
  BY DEF ShapeInv
<1>2. IsFiniteSet(DOMAIN ledger)
  BY <1>1, FS_Interval
<1>3. Rows(u, ref) \in SUBSET DOMAIN ledger /\ OwedTo(u) \in SUBSET Workers
  BY DEF Rows, OwedTo
<1>4. IsFiniteSet(Rows(u, ref)) /\ IsFiniteSet(OwedTo(u))
  BY <1>2, <1>3, FS_Subset, TranslationAssumption
<1> QED
  BY <1>4, FS_CardinalityType

\* A write adds one row, to the rows of its order's user and reference.
LEMMA RowsAfterWrite ==
  ASSUME ShapeInv, NEW w \in Workers, WriteWallet(w), NEW u, NEW ref
  PROVE  LET o == apply[w].order
             mine == o.user = u /\ o.kind = "translation" /\ o.ref = ref /\ o.credits # 0
         IN  /\ mine => /\ Rows(u, ref)' = Rows(u, ref) \cup {Len(ledger) + 1}
                        /\ Len(ledger) + 1 \notin Rows(u, ref)
             /\ ~mine => Rows(u, ref)' = Rows(u, ref)
<1> DEFINE o == apply[w].order
           n == Len(ledger) + 1
           Mine(r) == r.user = u /\ r.kind = "translation" /\ r.ref = ref /\ r.creditsDelta # 0
           mine == o.user = u /\ o.kind = "translation" /\ o.ref = ref /\ o.credits # 0
<1>1. /\ Len(ledger) \in Nat /\ DOMAIN ledger = 1..Len(ledger) /\ DOMAIN ledger' = 1..n
      /\ \A i \in 1..Len(ledger) : ledger'[i] = ledger[i]
      /\ ledger'[n] = Row(o, NewBalance(apply[w].seen, o))
  BY WriteEffect
<1>2. Mine(ledger'[n]) <=> mine
  BY <1>1 DEF Row
<1>3. /\ Rows(u, ref) = {i \in DOMAIN ledger : Mine(ledger[i])}
      /\ Rows(u, ref)' = {i \in DOMAIN ledger' : Mine(ledger'[i])}
  BY DEF Rows
<1>4. n \notin 1..Len(ledger) /\ 1..n = 1..Len(ledger) \cup {n}
  BY <1>1
<1> HIDE DEF n, Mine, o
<1>5. n \notin Rows(u, ref)
  BY <1>1, <1>3, <1>4
<1>6. Rows(u, ref)' = Rows(u, ref) \cup (IF Mine(ledger'[n]) THEN {n} ELSE {})
  BY <1>1, <1>3, <1>4
<1> QED
  BY <1>2, <1>5, <1>6 DEF n, o

LEMMA PaidForKept ==
  ASSUME NEW u, PaidFor(u), UNCHANGED ledger, OwedTo(u)' = OwedTo(u),
         paid'[u] = paid[u], lost'[u] = lost[u]
  PROVE  PaidFor(u)'
BY DEF PaidFor, Rows

\* The committed write of a charge opens a debt, that of a refund closes it.
LEMMA PaidForWrite ==
  ASSUME ShapeInv, SlotsInv, NEW w \in Workers, WriteWallet(w),
         UNCHANGED <<call, paid, lost>>, NEW u \in Users, PaidFor(u)
  PROVE  PaidFor(u)'
<1> DEFINE o == apply[w].order
           C == Rows(u, "translation")
           R == Rows(u, "translation_refund")
           D == OwedTo(u)
           n == Len(ledger) + 1
<1>0. ApplyStep(w)
  BY DEF ApplyStep
<1>1. PICK a \in Call : Slot(w, call[w], a) /\ a.pc = "applied" /\ apply[w].pc = "write"
  BY <1>0, ApplySlot DEF WriteWallet
<1>2. call[w] \in Calling /\ call[w].pc \in {"charge", "refund", "free"} /\ SlotInv(w)
  BY <1>0, ApplySlot, SlotFacts
<1>3. /\ Cardinality(C) \in Nat /\ Cardinality(R) \in Nat /\ Cardinality(D) \in Nat
      /\ IsFiniteSet(C) /\ IsFiniteSet(R) /\ IsFiniteSet(D)
  BY RowsAreFinite
<1>4. paid[u] \in Nat /\ lost[u] \in Nat
  BY DEF SlotsInv
<1>5. Cardinality(C) - Cardinality(R) = paid[u] + lost[u] + Cardinality(D)
  BY DEF PaidFor
<1>6. CASE call[w].pc = "charge" /\ call[w].user = u
  <2>1. o = ChargeOrder(u) /\ call[w].charged /\ Cost # 0
    BY <1>2, <1>6 DEF SlotInv
  <2>2. C' = C \cup {n} /\ n \notin C
    BY <2>1, RowsAfterWrite, WalletAssumption DEF ChargeOrder, Order
  <2>3. R' = R
    BY <2>1, RowsAfterWrite DEF ChargeOrder, Order
  <2>4. w \notin D /\ D' = D \cup {w}
    BY <1>1, <1>6, <2>1, OwedBesideSlot DEF OwesTo
  <2>5. Cardinality(C') = Cardinality(C) + 1 /\ Cardinality(D') = Cardinality(D) + 1
    BY <1>3, <2>2, <2>4, FS_AddElement
  <2> HIDE DEF C, D, R
  <2>6. Cardinality(C') - Cardinality(R') = paid[u] + lost[u] + Cardinality(D')
    BY <1>3, <1>4, <1>5, <2>3, <2>5
  <2> QED
    BY <2>6 DEF PaidFor, C, D, R
<1>7. CASE call[w].pc = "refund" /\ call[w].user = u
  <2>1. o = RefundOrder(u) /\ call[w].charged /\ Cost # 0
    BY <1>2, <1>7 DEF SlotInv
  <2>2. R' = R \cup {n} /\ n \notin R
    BY <2>1, RowsAfterWrite, WalletAssumption DEF RefundOrder, Order
  <2>3. C' = C
    BY <2>1, RowsAfterWrite DEF RefundOrder, Order
  <2>4. w \in D /\ D' = D \ {w}
    BY <1>1, <1>7, <2>1, OwedBesideSlot DEF OwesTo
  <2>5. Cardinality(R') = Cardinality(R) + 1
    BY <1>3, <2>2, FS_AddElement
  <2>6. Cardinality(D') = Cardinality(D) - 1
    BY <1>3, <2>4, FS_RemoveElement
  <2> HIDE DEF C, D, R
  <2>7. Cardinality(C') - Cardinality(R') = paid[u] + lost[u] + Cardinality(D')
    BY <1>3, <1>4, <1>5, <2>3, <2>5, <2>6
  <2> QED
    BY <2>7 DEF PaidFor, C, D, R
<1>8. CASE call[w].pc = "free" \/ call[w].user # u
  <2>1. o.user = call[w].user /\ (call[w].pc = "free" => o = FreeUseOrder(call[w].user))
    BY <1>0, <1>2, ApplySlot DEF SlotInv
  <2>2. C' = C /\ R' = R
    BY <1>8, <2>1, RowsAfterWrite DEF FreeUseOrder, Order
  <2>3. D' = D
    BY <1>1, <1>8, OwedBesideSlot DEF OwesTo
  <2> QED
    BY <1>5, <2>2, <2>3 DEF PaidFor
<1> QED
  BY <1>2, <1>6, <1>7, <1>8

\* A restart: what was owed is lost.
LEMMA PaidForCrash ==
  ASSUME ShapeInv, SlotsInv, CrashTranslation, NEW u \in Users, PaidFor(u)
  PROVE  PaidFor(u)'
<1>1. Cardinality(OwedTo(u)) \in Nat /\ paid[u] \in Nat /\ lost[u] \in Nat
  BY RowsAreFinite DEF SlotsInv
<1>2. OwedTo(u)' = {}
  BY OwedAfter DEF CrashTranslation, OwesTo, NoCall
<1>3. Cardinality(OwedTo(u)') = 0
  BY <1>2, FS_EmptySet
<1>4. lost'[u] = lost[u] + Cardinality(OwedTo(u)) /\ UNCHANGED <<paid, ledger>>
  BY DEF CrashTranslation, CrashWallet
<1>5. Rows(u, "translation")' = Rows(u, "translation")
      /\ Rows(u, "translation_refund")' = Rows(u, "translation_refund")
  BY <1>4 DEF Rows
<1> QED
  BY <1>1, <1>3, <1>4, <1>5 DEF PaidFor

\* A charged call delivers: its debt becomes a paid translation.
LEMMA PaidForAnswer ==
  ASSUME ShapeInv, SlotsInv, NEW w \in Workers, ModelAnswers(w), NEW u \in Users, PaidFor(u)
  PROVE  PaidFor(u)'
<1>1. call[w] \in Calling /\ call[w].pc = "model" /\ UNCHANGED <<ledger, lost>>
  BY AnswersSlot DEF ModelAnswers
<1>2. CASE ~call[w].charged /\ UNCHANGED paid
           /\ Slot(w, At(call[w], "free"), Reading(FreeUseOrder(call[w].user)))
  <2>1. ~At(call[w], "free").charged
    BY <1>1, <1>2, AtFields
  <2>2. OwedTo(u)' = OwedTo(u)
    BY <1>2, <2>1, OwedBesideSlot DEF OwesTo
  <2> QED
    BY <1>1, <1>2, <2>2, PaidForKept
<1>3. CASE /\ call[w].charged /\ Slot(w, NoCall, NoApply)
           /\ paid' = [paid EXCEPT ![call[w].user] = @ + 1]
  <2>1. CASE call[w].user # u
    <3>1. OwedTo(u)' = OwedTo(u)
      BY <1>3, <2>1, OwedBesideSlot DEF OwesTo, NoCall
    <3> QED
      BY <1>1, <1>3, <2>1, <3>1, PaidForKept DEF SlotsInv
  <2>2. CASE call[w].user = u
    <3>1. w \in OwedTo(u) /\ OwedTo(u)' = OwedTo(u) \ {w}
      BY <1>1, <1>3, <2>2, OwedBesideSlot DEF OwesTo, NoCall
    <3>2. Cardinality(OwedTo(u)') = Cardinality(OwedTo(u)) - 1 /\ Cardinality(OwedTo(u)) \in Nat
      BY <3>1, RowsAreFinite, FS_RemoveElement
    <3>3. paid'[u] = paid[u] + 1 /\ paid[u] \in Nat /\ lost[u] \in Nat
      BY <1>3, <2>2 DEF SlotsInv
    <3>4. Rows(u, "translation")' = Rows(u, "translation")
          /\ Rows(u, "translation_refund")' = Rows(u, "translation_refund")
      BY <1>1 DEF Rows
    <3> QED
      BY <1>1, <3>2, <3>3, <3>4 DEF PaidFor
  <2> QED
    BY <2>1, <2>2
<1> QED
  BY <1>2, <1>3, AnswersSlot

LEMMA PaidForStep ==
  ASSUME ShapeInv, SlotsInv, PaidForResults, [TranslationNext]_translationVars
  PROVE  PaidForResults'
<1> SUFFICES ASSUME NEW u \in Users PROVE PaidFor(u)'
  BY DEF PaidForResults, PaidFor
<1>1. PaidFor(u)
  BY DEF PaidForResults, PaidFor
<1>2. ASSUME NEW w \in Workers, NEW v \in Users, NEW s \in Texts, LookUp(w, v, s) PROVE PaidFor(u)'
  <2>1. PICK q \in Calling : ~q.charged /\ Slot(w, q, NoApply) /\ call[w] = NoCall
    BY <1>2, LookUpSlot
  <2>2. OwedTo(u)' = OwedTo(u)
    BY <2>1, OwedBesideSlot DEF OwesTo, NoCall
  <2> QED
    BY <1>1, <1>2, <2>2, PaidForKept DEF LookUp, walletVars
<1>3. ASSUME NEW w \in Workers, CheckQuota(w) PROVE PaidFor(u)'
  <2>1. call[w] \in Calling /\ ~call[w].charged
    BY <1>3, CheckQuotaSlot
  <2>2. CASE Slot(w, At(call[w], "model"), NoApply)
    <3>1. ~At(call[w], "model").charged
      BY <2>1, AtFields
    <3>2. OwedTo(u)' = OwedTo(u)
      BY <2>1, <2>2, <3>1, OwedBesideSlot DEF OwesTo
    <3> QED
      BY <1>1, <1>3, <3>2, PaidForKept DEF CheckQuota
  <2>3. CASE Slot(w, [At(call[w], "charge") EXCEPT !.charged = TRUE],
                  Reading(ChargeOrder(call[w].user)))
    <3> DEFINE q == [At(call[w], "charge") EXCEPT !.charged = TRUE]
               a == Reading(ChargeOrder(call[w].user))
    <3>1. q.pc = "charge" /\ a.pc = "read"
      BY <2>1 DEF At, Calling, Reading
    <3>2. Slot(w, q, a)
      BY <2>3
    <3> HIDE DEF q, a
    <3>3. OwedTo(u)' = OwedTo(u)
      BY <2>1, <3>1, <3>2, OwedBesideSlot DEF OwesTo
    <3> QED
      BY <1>1, <1>3, <3>3, PaidForKept DEF CheckQuota
  <2> QED
    BY <1>3, <2>2, <2>3, CheckQuotaSlot
<1>4. ASSUME NEW w \in Workers, Charged(w) PROVE PaidFor(u)'
  <2>1. call[w] \in Calling /\ call[w].pc = "charge" /\ call[w].charged
    BY <1>4, ChargedSlot
  <2>2. CASE apply[w].pc = "applied" /\ Slot(w, At(call[w], "model"), NoApply)
    <3>1. OwedTo(u)' = OwedTo(u)
      BY <2>1, <2>2, AtFields, OwedBesideSlot DEF OwesTo
    <3> QED
      BY <1>1, <1>4, <3>1, PaidForKept DEF Charged
  <2>3. CASE apply[w].pc = "refused" /\ Slot(w, NoCall, NoApply)
    <3>1. OwedTo(u)' = OwedTo(u)
      BY <2>1, <2>3, OwedBesideSlot DEF OwesTo, NoCall
    <3> QED
      BY <1>1, <1>4, <3>1, PaidForKept DEF Charged
  <2> QED
    BY <1>4, <2>2, <2>3, ChargedSlot
<1>5. ASSUME NEW w \in Workers, ModelFails(w) PROVE PaidFor(u)'
  <2>1. call[w] \in Calling /\ call[w].pc = "model"
    BY <1>5, FailsSlot
  <2>2. CASE call[w].charged /\ Slot(w, At(call[w], "refund"), Reading(RefundOrder(call[w].user)))
    <3>1. Reading(RefundOrder(call[w].user)).pc = "read"
      BY DEF Reading
    <3>2. OwedTo(u)' = OwedTo(u)
      BY <2>1, <2>2, <3>1, AtFields, OwedBesideSlot DEF OwesTo
    <3> QED
      BY <1>1, <1>5, <3>2, PaidForKept DEF ModelFails
  <2>3. CASE ~call[w].charged /\ Slot(w, NoCall, NoApply)
    <3>1. OwedTo(u)' = OwedTo(u)
      BY <2>3, OwedBesideSlot DEF OwesTo, NoCall
    <3> QED
      BY <1>1, <1>5, <3>1, PaidForKept DEF ModelFails
  <2> QED
    BY <1>5, <2>2, <2>3, FailsSlot
<1>6. ASSUME NEW w \in Workers, Settled(w) PROVE PaidFor(u)'
  <2>1. /\ call[w].pc \in {"refund", "free"} /\ apply[w].pc \in {"applied", "refused"}
        /\ Slot(w, NoCall, NoApply) /\ SlotInv(w)
    BY <1>6, SettledSlot DEF SlotsInv
  <2>2. OwedTo(u)' = OwedTo(u)
    BY <2>1, OwedBesideSlot DEF OwesTo, NoCall, SlotInv
  <2> QED
    BY <1>1, <1>6, <2>2, PaidForKept DEF Settled
<1>7. ASSUME NEW w \in Workers, ReadWallet(w), UNCHANGED <<call, paid, lost>> PROVE PaidFor(u)'
  <2>1. ApplyStep(w) /\ apply[w].pc = "read" /\ UNCHANGED ledger
    BY <1>7 DEF ApplyStep, ReadWallet
  <2>2. PICK a \in Call :
          /\ Slot(w, call[w], a) /\ a.pc \in {"write", "refused"}
          /\ call[w].pc = "refund" => a.pc = "write"
    BY <1>7, <2>1, ApplySlot DEF WriteWallet
  <2>3. call[w].pc \in {"charge", "refund", "free"} /\ SlotInv(w)
    BY <1>7, <2>1, ApplySlot, SlotFacts
  <2>4. OwedTo(u)' = OwedTo(u)
    BY <2>1, <2>2, <2>3, OwedBesideSlot DEF OwesTo
  <2> QED
    BY <1>1, <1>7, <2>1, <2>4, PaidForKept
<1>8. ASSUME UNCHANGED <<ledger, apply, call, paid, lost>> PROVE PaidFor(u)'
  <2>1. OwedTo(u)' = OwedTo(u)
    BY <1>8, OwedBySlot, OwedAfter
  <2> QED
    BY <1>1, <1>8, <2>1, PaidForKept
<1> QED
  BY <1>1, <1>2, <1>3, <1>4, <1>5, <1>6, <1>7, <1>8, PaidForWrite, PaidForCrash, PaidForAnswer
     DEF TranslationNext, CallStep, ApplyStep, Midnight, translationVars

-----------------------------------------------------------------------------
(* Free translations against the daily quota.                               *)

\* What a slot says of a free call: admitted, its use not yet recorded.
TakesFree(q, a, u) ==
  /\ q.pc \in {"model", "free"} /\ q.user = u /\ ~q.charged
  /\ q.pc = "free" => a.pc \in {"read", "write"}

FreePending(u) == {w \in Workers : TakesFree(call[w], apply[w], u)}

FreeToday(u) == {i \in RowsOf(u) : ledger[i].day = day /\ ledger[i].creditsDelta = 0}

FreeLimit == IF FreeQuota = 0 THEN 0 ELSE FreeQuota - 1 + Cardinality(Workers)

\* Uses recorded today, with those on their way: what makes the bound inductive.
FreeInv(u) == Cardinality(FreeToday(u)) + Cardinality(FreePending(u)) <= FreeLimit

QuotaInv == Cost > 0 => \A u \in Users : FreeInv(u)

LEMMA FreeFinite ==
  ASSUME ShapeInv, NEW u
  PROVE  /\ IsFiniteSet(FreeToday(u)) /\ Cardinality(FreeToday(u)) \in Nat
         /\ IsFiniteSet(FreePending(u)) /\ Cardinality(FreePending(u)) \in Nat
         /\ Cardinality(FreePending(u)) <= Cardinality(Workers)
         /\ Cardinality(Workers) \in Nat /\ FreeQuota \in Nat
         /\ FreeToday(u) \in SUBSET (1..Len(ledger)) /\ DOMAIN ledger = 1..Len(ledger)
         /\ Len(ledger) \in Nat
<1>1. Len(ledger) \in Nat /\ DOMAIN ledger = 1..Len(ledger)
  BY DEF ShapeInv
<1>2. IsFiniteSet(1..Len(ledger))
  BY <1>1, FS_Interval
<1>3. FreeToday(u) \in SUBSET (1..Len(ledger)) /\ FreePending(u) \in SUBSET Workers
  BY <1>1 DEF FreeToday, RowsOf, FreePending
<1>4. /\ IsFiniteSet(FreeToday(u)) /\ IsFiniteSet(FreePending(u))
      /\ Cardinality(FreePending(u)) <= Cardinality(Workers)
  BY <1>2, <1>3, FS_Subset, TranslationAssumption
<1> QED
  BY <1>1, <1>3, <1>4, FS_CardinalityType, TranslationAssumption

LEMMA FreeShrinks ==
  ASSUME ShapeInv, NEW u, FreeInv(u), FreeToday(u)' \subseteq FreeToday(u),
         FreePending(u)' \subseteq FreePending(u)
  PROVE  FreeInv(u)'
<1>1. /\ Cardinality(FreeToday(u)') <= Cardinality(FreeToday(u))
      /\ Cardinality(FreePending(u)') <= Cardinality(FreePending(u))
      /\ IsFiniteSet(FreeToday(u)') /\ IsFiniteSet(FreePending(u)')
  BY FreeFinite, FS_Subset
<1>2. /\ Cardinality(FreeToday(u)) \in Nat /\ Cardinality(FreePending(u)) \in Nat
      /\ Cardinality(FreeToday(u)') \in Nat /\ Cardinality(FreePending(u)') \in Nat
  BY <1>1, FreeFinite, FS_CardinalityType
<1>3. FreeLimit \in Int
  BY FreeFinite DEF FreeLimit
<1> HIDE DEF FreeLimit
<1>4. Cardinality(FreeToday(u)) + Cardinality(FreePending(u)) <= FreeLimit
  BY DEF FreeInv
<1>5. Cardinality(FreeToday(u)') + Cardinality(FreePending(u)') <= FreeLimit
  BY <1>1, <1>2, <1>3, <1>4
<1> QED
  BY <1>5 DEF FreeInv, FreeLimit

LEMMA PendingAfter ==
  ASSUME NEW u
  PROVE  FreePending(u)' = {w \in Workers : TakesFree(call'[w], apply'[w], u)}
BY DEF FreePending, TakesFree

LEMMA PendingBesideSlot ==
  ASSUME NEW w \in Workers, NEW q, NEW a, Slot(w, q, a), NEW u
  PROVE  /\ TakesFree(q, a, u) <=> TakesFree(call[w], apply[w], u) =>
              FreePending(u)' = FreePending(u)
         /\ ~TakesFree(q, a, u) => FreePending(u)' = FreePending(u) \ {w}
         /\ TakesFree(call[w], apply[w], u) => w \in FreePending(u)
<1> DEFINE Before(v) == TakesFree(call[v], apply[v], u)
           After(v) == TakesFree(call'[v], apply'[v], u)
<1>1. \A v \in Workers : v # w => (After(v) <=> Before(v))
  BY DEF Slot, TakesFree
<1>2. After(w) <=> TakesFree(q, a, u)
  BY DEF Slot
<1>3. FreePending(u) = {v \in Workers : Before(v)} /\ FreePending(u)' = {v \in Workers : After(v)}
  BY PendingAfter DEF FreePending
<1>4. Before(w) <=> TakesFree(call[w], apply[w], u)
  OBVIOUS
<1> HIDE DEF Before, After
<1> QED
  BY <1>1, <1>2, <1>3, <1>4

\* A step of one slot that admits no free call and writes nothing.
LEMMA FreeKept ==
  ASSUME ShapeInv, NEW w \in Workers, NEW q, NEW a, Slot(w, q, a), NEW u, FreeInv(u),
         UNCHANGED <<ledger, day>>,
         TakesFree(q, a, u) => TakesFree(call[w], apply[w], u)
  PROVE  FreeInv(u)'
<1>1. FreeToday(u)' \subseteq FreeToday(u)
  BY DEF FreeToday, RowsOf
<1>2. FreePending(u)' \subseteq FreePending(u)
  BY PendingBesideSlot
<1> QED
  BY <1>1, <1>2, FreeShrinks

\* The read of the quota admits a call only below it.
LEMMA FreeAdmits ==
  ASSUME ShapeInv, NEW u, HasFreeQuota(u), UNCHANGED <<ledger, day>>,
         \A i \in DOMAIN ledger : ledger[i].kind = "translation"
  PROVE  FreeInv(u)'
<1> DEFINE T == {i \in DOMAIN ledger :
                   ledger[i].user = u /\ ledger[i].kind = "translation" /\ ledger[i].day = day}
           P == FreePending(u)'
<1>1. T \in SUBSET (1..Len(ledger)) /\ FreeToday(u)' \in SUBSET T
  BY FreeFinite DEF FreeToday, RowsOf
<1>2. IsFiniteSet(1..Len(ledger))
  <2>1. Len(ledger) \in Nat
    BY FreeFinite
  <2> QED
    BY <2>1, FS_Interval
<1>3. IsFiniteSet(T) /\ Cardinality(T) \in Nat
  BY <1>1, <1>2, FS_Subset, FS_CardinalityType
<1>4. /\ Cardinality(FreeToday(u)') <= Cardinality(T) /\ Cardinality(FreeToday(u)') \in Nat
  BY <1>1, <1>3, FS_Subset, FS_CardinalityType
<1>5. Cardinality(T) < FreeQuota
  BY DEF HasFreeQuota, CountToday
<1>6. P \in SUBSET Workers
  BY DEF FreePending
<1>7. Cardinality(P) <= Cardinality(Workers) /\ Cardinality(P) \in Nat
  BY <1>6, TranslationAssumption, FS_Subset, FS_CardinalityType
<1>8. Cardinality(Workers) \in Nat /\ FreeQuota \in Nat
  BY FreeFinite
<1> HIDE DEF T, P
<1>9. Cardinality(FreeToday(u)') + Cardinality(P) <= FreeQuota - 1 + Cardinality(Workers)
  BY <1>3, <1>4, <1>5, <1>7, <1>8
<1>10. FreeQuota # 0
  BY <1>3, <1>5, <1>8
<1> QED
  BY <1>9, <1>10 DEF FreeInv, FreeLimit, P

\* A recorded use was on its way; charges and refunds are no uses.
LEMMA FreeWrite ==
  ASSUME ShapeInv, SlotsInv, NEW w \in Workers, WriteWallet(w), UNCHANGED call, Cost > 0,
         NEW u, FreeInv(u)
  PROVE  FreeInv(u)'
<1> DEFINE o == apply[w].order
           n == Len(ledger) + 1
           F == FreeToday(u)
           P == FreePending(u)
<1>0. ApplyStep(w)
  BY DEF ApplyStep
<1>1. PICK a \in Call : Slot(w, call[w], a) /\ a.pc = "applied" /\ apply[w].pc = "write"
  BY <1>0, ApplySlot DEF WriteWallet
<1>2. call[w] \in Calling /\ call[w].pc \in {"charge", "refund", "free"} /\ SlotInv(w)
  BY <1>0, ApplySlot, SlotFacts
<1>3. /\ Len(ledger) \in Nat /\ DOMAIN ledger = 1..Len(ledger) /\ DOMAIN ledger' = 1..n
      /\ \A i \in 1..Len(ledger) : ledger'[i] = ledger[i]
      /\ ledger'[n] = Row(o, NewBalance(apply[w].seen, o)) /\ UNCHANGED day
  BY WriteEffect DEF WriteWallet
<1>4. ledger'[n].user = o.user /\ ledger'[n].creditsDelta = o.credits
  BY <1>3, RowFields
<1>5. FreeToday(u)' \subseteq (IF o.user = u /\ o.credits = 0 THEN F \cup {n} ELSE F)
  <2>1. ASSUME NEW i \in FreeToday(u)', i # n PROVE i \in F
    BY <1>3, <2>1 DEF FreeToday, RowsOf
  <2>2. n \in FreeToday(u)' => o.user = u /\ o.credits = 0
    BY <1>4 DEF FreeToday, RowsOf
  <2> HIDE DEF F, n, o
  <2> QED
    BY <2>1, <2>2
<1>6. P' \subseteq P
  BY <1>1, PendingBesideSlot DEF TakesFree
<1>7. CASE o.user = u /\ o.credits = 0
  <2>1. call[w].pc = "free" /\ call[w].user = u
    BY <1>0, <1>2, <1>7, ApplySlot, WalletAssumption
       DEF SlotInv, ChargeOrder, RefundOrder, FreeUseOrder, Order
  <2>2. w \in P /\ P' = P \ {w}
    BY <1>1, <1>2, <2>1, PendingBesideSlot DEF TakesFree, SlotInv
  <2>3. FreeToday(u)' \in SUBSET (F \cup {n})
    BY <1>5, <1>7
  <2>4. /\ IsFiniteSet(F) /\ IsFiniteSet(P) /\ Cardinality(F) \in Nat /\ Cardinality(P) \in Nat
    BY FreeFinite
  <2>5. IsFiniteSet(F \cup {n}) /\ Cardinality(F \cup {n}) <= Cardinality(F) + 1
        /\ Cardinality(F \cup {n}) \in Nat
    <3> HIDE DEF F, n
    <3>1. /\ IsFiniteSet(F \cup {n})
          /\ Cardinality(F \cup {n}) = IF n \in F THEN Cardinality(F) ELSE Cardinality(F) + 1
      BY <2>4, FS_AddElement
    <3> QED
      BY <2>4, <3>1, FS_CardinalityType
  <2>6. Cardinality(FreeToday(u)') <= Cardinality(F \cup {n}) /\ Cardinality(FreeToday(u)') \in Nat
    BY <2>3, <2>5, FS_Subset, FS_CardinalityType
  <2>7. Cardinality(P') = Cardinality(P) - 1
    BY <2>2, <2>4, FS_RemoveElement
  <2>8. Cardinality(F) + Cardinality(P) <= FreeLimit /\ FreeLimit \in Int
    BY FreeFinite DEF FreeInv, FreeLimit
  <2> HIDE DEF F, P, n
  <2>9. Cardinality(FreeToday(u)') + Cardinality(P') <= FreeLimit
    BY <2>4, <2>5, <2>6, <2>7, <2>8
  <2> QED
    BY <2>9 DEF FreeInv, FreeLimit, P
<1>8. CASE ~(o.user = u /\ o.credits = 0)
  BY <1>5, <1>6, <1>8, FreeShrinks
<1> QED
  BY <1>7, <1>8

LEMMA QuotaStep ==
  ASSUME ShapeInv, SlotsInv, QuotaInv, [TranslationNext]_translationVars
  PROVE  QuotaInv'
<1> SUFFICES ASSUME Cost > 0, NEW u \in Users PROVE FreeInv(u)'
  BY DEF QuotaInv
<1>1. FreeInv(u)
  BY DEF QuotaInv
<1>2. ASSUME NEW w \in Workers, NEW v \in Users, NEW s \in Texts, LookUp(w, v, s) PROVE FreeInv(u)'
  <2>1. PICK q \in Calling : q.pc = "quota" /\ Slot(w, q, NoApply)
    BY <1>2, LookUpSlot
  <2> QED
    BY <1>1, <1>2, <2>1, FreeKept DEF LookUp, walletVars, TakesFree
<1>3. ASSUME NEW w \in Workers, CheckQuota(w) PROVE FreeInv(u)'
  <2>1. call[w] \in Calling /\ UNCHANGED <<ledger, day>>
    BY <1>3, CheckQuotaSlot DEF CheckQuota
  <2>2. CASE HasFreeQuota(call[w].user) /\ Slot(w, At(call[w], "model"), NoApply)
    <3>1. CASE call[w].user = u
      BY <2>1, <2>2, <3>1, FreeAdmits DEF SlotsInv
    <3>2. CASE call[w].user # u
      BY <1>1, <2>1, <2>2, <3>2, AtFields, FreeKept DEF TakesFree
    <3> QED
      BY <3>1, <3>2
  <2>3. CASE Slot(w, [At(call[w], "charge") EXCEPT !.charged = TRUE],
                  Reading(ChargeOrder(call[w].user)))
    <3> DEFINE q == [At(call[w], "charge") EXCEPT !.charged = TRUE]
    <3>1. q.pc = "charge"
      BY <2>1 DEF At, Calling
    <3>2. Slot(w, q, Reading(ChargeOrder(call[w].user)))
      BY <2>3
    <3> HIDE DEF q
    <3> QED
      BY <1>1, <2>1, <3>1, <3>2, FreeKept DEF TakesFree
  <2>4. Cost # 0
    BY WalletAssumption
  <2> QED
    BY <1>3, <2>2, <2>3, <2>4, CheckQuotaSlot
<1>4. ASSUME NEW w \in Workers, Charged(w) PROVE FreeInv(u)'
  <2>1. /\ call[w] \in Calling /\ call[w].charged /\ UNCHANGED <<ledger, day>>
        /\ Slot(w, At(call[w], "model"), NoApply) \/ Slot(w, NoCall, NoApply)
    BY <1>4, ChargedSlot DEF Charged
  <2>2. At(call[w], "model").charged /\ NoCall.pc = "idle"
    BY <2>1, AtFields DEF NoCall
  <2> QED
    BY <1>1, <2>1, <2>2, FreeKept DEF TakesFree
<1>5. ASSUME NEW w \in Workers, ModelAnswers(w) PROVE FreeInv(u)'
  <2>1. call[w] \in Calling /\ call[w].pc = "model" /\ UNCHANGED <<ledger, day>>
    BY <1>5, AnswersSlot DEF ModelAnswers
  <2>2. CASE Slot(w, NoCall, NoApply)
    BY <1>1, <2>1, <2>2, FreeKept DEF TakesFree, NoCall
  <2>3. CASE ~call[w].charged /\ Slot(w, At(call[w], "free"), Reading(FreeUseOrder(call[w].user)))
    BY <1>1, <2>1, <2>3, AtFields, FreeKept DEF TakesFree
  <2> QED
    BY <1>5, <2>2, <2>3, AnswersSlot
<1>6. ASSUME NEW w \in Workers, ModelFails(w) PROVE FreeInv(u)'
  <2>1. call[w] \in Calling /\ UNCHANGED <<ledger, day>>
    BY <1>6, FailsSlot DEF ModelFails
  <2>2. CASE Slot(w, NoCall, NoApply)
    BY <1>1, <2>1, <2>2, FreeKept DEF TakesFree, NoCall
  <2>3. CASE Slot(w, At(call[w], "refund"), Reading(RefundOrder(call[w].user)))
    BY <1>1, <2>1, <2>3, AtFields, FreeKept DEF TakesFree
  <2> QED
    BY <1>6, <2>2, <2>3, FailsSlot
<1>7. ASSUME NEW w \in Workers, Settled(w) PROVE FreeInv(u)'
  <2>1. Slot(w, NoCall, NoApply) /\ UNCHANGED <<ledger, day>>
    BY <1>7, SettledSlot DEF Settled
  <2> QED
    BY <1>1, <2>1, FreeKept DEF TakesFree, NoCall
<1>8. ASSUME NEW w \in Workers, ReadWallet(w), UNCHANGED call PROVE FreeInv(u)'
  <2>1. ApplyStep(w) /\ apply[w].pc = "read" /\ UNCHANGED <<ledger, day>>
    BY <1>8 DEF ApplyStep, ReadWallet
  <2>2. PICK a \in Call : Slot(w, call[w], a)
    BY <1>8, <2>1, ApplySlot
  <2> QED
    BY <1>1, <2>1, <2>2, FreeKept DEF TakesFree
<1>9. ASSUME Midnight(LastDay), UNCHANGED call PROVE FreeInv(u)'
  <2>1. FreeToday(u)' = {}
    BY <1>9 DEF Midnight, FreeToday, RowsOf, ShapeInv
  <2>2. FreePending(u)' = FreePending(u)
    BY <1>9 DEF Midnight, FreePending, TakesFree
  <2> QED
    BY <1>1, <2>1, <2>2, FreeShrinks
<1>10. ASSUME CrashTranslation PROVE FreeInv(u)'
  <2>1. FreeToday(u)' = FreeToday(u)
    BY <1>10 DEF CrashTranslation, CrashWallet, FreeToday, RowsOf
  <2>2. FreePending(u)' = {}
    BY <1>10, PendingAfter DEF CrashTranslation, TakesFree, NoCall
  <2> QED
    BY <1>1, <2>1, <2>2, FreeShrinks
<1>11. ASSUME UNCHANGED translationVars PROVE FreeInv(u)'
  <2>1. FreeToday(u)' = FreeToday(u) /\ FreePending(u)' = FreePending(u)
    BY <1>11 DEF translationVars, FreeToday, RowsOf, FreePending, TakesFree
  <2> QED
    BY <1>1, <2>1, FreeShrinks
<1> QED
  BY <1>1, <1>2, <1>3, <1>4, <1>5, <1>6, <1>7, <1>8, <1>9, <1>10, <1>11, FreeWrite
     DEF TranslationNext, CallStep, ApplyStep

-----------------------------------------------------------------------------
TranslationInv == WalletInv /\ SlotsInv /\ PaidForResults /\ QuotaInv

LEMMA TranslationInvInit == TranslationInit => TranslationInv
<1> SUFFICES ASSUME TranslationInit PROVE TranslationInv
  OBVIOUS
<1>1. WalletInv
  BY WalletInvInit DEF TranslationInit
<1>2. /\ ledger = <<>> /\ DOMAIN ledger = {} /\ apply = [w \in Workers |-> NoApply]
      /\ call = [w \in Workers |-> NoCall] /\ NoCall.pc = "idle" /\ NoApply.pc = "idle"
      /\ paid = [u \in Users |-> 0] /\ lost = [u \in Users |-> 0]
  BY DEF TranslationInit, WalletInit, NoCall, NoApply
<1>3. SlotsInv
  BY <1>2 DEF SlotsInv, SlotInv
<1>4. ASSUME NEW u \in Users PROVE PaidFor(u)
  <2>1. Rows(u, "translation") = {} /\ Rows(u, "translation_refund") = {}
    BY <1>2 DEF Rows
  <2>2. OwedTo(u) = {}
    BY <1>2 DEF OwedTo
  <2>3. Cardinality({}) = 0 /\ paid[u] = 0 /\ lost[u] = 0
    BY <1>2, FS_EmptySet
  <2> QED
    BY <2>1, <2>2, <2>3 DEF PaidFor
<1>5. ASSUME NEW u \in Users PROVE FreeInv(u)
  <2>1. FreeToday(u) = {} /\ FreePending(u) = {}
    BY <1>2 DEF FreeToday, RowsOf, FreePending, TakesFree
  <2>2. Cardinality(Workers) \in Nat /\ FreeQuota \in Nat
    BY TranslationAssumption, FS_CardinalityType
  <2> QED
    BY <2>1, <2>2, FS_EmptySet DEF FreeInv, FreeLimit
<1> QED
  BY <1>1, <1>3, <1>4, <1>5 DEF TranslationInv, PaidForResults, PaidFor, QuotaInv

LEMMA TranslationInvHolds == TranslationSpec => []TranslationInv
<1>1. ASSUME TranslationInv, [TranslationNext]_translationVars PROVE TranslationInv'
  <2>1. ShapeInv /\ SlotsInv
    BY <1>1 DEF TranslationInv, WalletInv
  <2>2. WalletInv'
    BY <1>1, <2>1, TranslationMoves, WalletInvStep DEF TranslationInv
  <2> QED
    BY <1>1, <2>1, <2>2, SlotsStep, PaidForStep, QuotaStep DEF TranslationInv
<1> QED
  BY <1>1, TranslationInvInit, PTL DEF TranslationSpec

\* Nobody pays for a translation that fails: a user's charges less refunds are
\* the translations delivered for money, the calls on their way and those a
\* restart cut off (Translate, Charge, RefundTranslation).
THEOREM ChargesBuyTranslations == TranslationSpec => []PaidForResults
<1>1. TranslationInv => PaidForResults
  BY DEF TranslationInv
<1> QED
  BY <1>1, TranslationInvHolds, PTL

\* However many calls overlap, the daily quota is exceeded by one free
\* translation for each other call at most (CheckQuota, RecordFreeUse).
THEOREM FreeQuotaNearlyHeld == TranslationSpec => []QuotaNearlyHeld
<1>1. ASSUME TranslationInv PROVE QuotaNearlyHeld
  <2>0. QuotaNearlyHeld <=> (Cost > 0 => \A u \in Users : Cardinality(FreeToday(u)) <= FreeLimit)
    BY DEF QuotaNearlyHeld, FreeToday, FreeLimit
  <2> SUFFICES ASSUME Cost > 0, NEW u \in Users PROVE Cardinality(FreeToday(u)) <= FreeLimit
    BY <2>0
  <2>1. FreeInv(u) /\ ShapeInv
    BY <1>1 DEF TranslationInv, QuotaInv, WalletInv
  <2>2. /\ Cardinality(FreeToday(u)) \in Nat /\ Cardinality(FreePending(u)) \in Nat
        /\ FreeLimit \in Int
    BY <2>1, FreeFinite DEF FreeLimit
  <2> QED
    BY <2>1, <2>2 DEF FreeInv
<1> QED
  BY <1>1, TranslationInvHolds, PTL

\* The translations of one user that overlap charge no more than he has.
THEOREM TranslationsAffordable == TranslationSpec => []ChargeNeverOverdraws
<1>1. TranslationInv => ChargeNeverOverdraws
  BY DEF TranslationInv, WalletInv
<1> QED
  BY <1>1, TranslationInvHolds, PTL

-----------------------------------------------------------------------------
(* Likes.  LikeCountNeverOver is not inductive: that a pending DELETE takes*)
(* at most one row, and one of the target whose counter it moves, needs the*)
(* primary keys to be unique and the key it remembers never to be given out*)
(* again.  Nor are the bounds on rewards: the calls past a check and not   *)
(* yet committed are counted with the rows.                                *)

\* Primary keys: unique, drawn from the sequence; a pending DELETE's key is an
\* old one and names, if anything, a like of its target.
KeysInv ==
  /\ \A l \in likes : l.id < nextId
  /\ \A k, l \in likes : k.id = l.id => k = l
  /\ \A w \in Workers : toggle[w].pc = "delete" =>
       /\ toggle[w].row < nextId
       /\ \A l \in likes : l.id = toggle[w].row => l.target = toggle[w].target

LikesInv ==
  /\ LikesTypeOK
  /\ IsFiniteSet(likes)
  /\ KeysInv
  /\ OneVote
  /\ LikeCountNeverOver

\* What a request at any point but "idle" knows.
LEMMA TogglingFields ==
  ASSUME LikesTypeOK, NEW w \in Workers, toggle[w].pc # "idle"
  PROVE  toggle[w] \in Toggling
BY DEF LikesTypeOK, Idle

LEMMA LikesTypeStep ==
  ASSUME LikesTypeOK, [LikesNext]_likesVars
  PROVE  LikesTypeOK'
<1> USE LikesAssumption DEF LikesTypeOK
<1>1. ASSUME NEW w \in Workers, NEW u \in Users, NEW t \in Targets, Lookup(w, u, t)
      PROVE  LikesTypeOK'
  BY <1>1 DEF Lookup, Idle, Toggling, Fits, LikesOf, LikeRow
<1>2. ASSUME NEW w \in Workers, DeleteLike(w) PROVE LikesTypeOK'
  BY <1>2, TogglingFields DEF DeleteLike, Done, Idle, Toggling, Fits
<1>3. ASSUME NEW w \in Workers, InsertLike(w) PROVE LikesTypeOK'
  <2>1. toggle[w] \in Toggling
    BY <1>3, TogglingFields DEF InsertLike
  <2> QED
    BY <1>3, <2>1 DEF InsertLike, Toggling, Fits, LikeRow, Idle
<1>4. ASSUME NEW w \in Workers, InsertRefused(w) \/ TellOwner(w) PROVE LikesTypeOK'
  BY <1>4 DEF InsertRefused, TellOwner, Done, Idle, Fits
<1>5. ASSUME NEW w \in Workers, ReadTarget(w) PROVE LikesTypeOK'
  <2>1. toggle[w] \in Toggling
    BY <1>5, TogglingFields DEF ReadTarget
  <2> QED
    BY <1>5, <2>1 DEF ReadTarget, Done, Idle, Toggling, Fits
<1>6. ASSUME NEW t \in Targets, DeleteTarget(t) PROVE LikesTypeOK'
  BY <1>6 DEF DeleteTarget
<1>7. CASE UNCHANGED likesVars
  BY <1>7 DEF likesVars
<1> QED
  BY <1>1, <1>2, <1>3, <1>4, <1>5, <1>6, <1>7 DEF LikesNext, ToggleStep

\* A like adds one row of its target and of no other.
LEMMA InsertLikeRows ==
  ASSUME LikesInv, NEW w \in Workers, InsertLike(w)
  PROVE  /\ toggle[w] \in Toggling
         /\ LikesOf(toggle[w].target)'
              = LikesOf(toggle[w].target)
                  \cup {[id |-> nextId, user |-> toggle[w].user, target |-> toggle[w].target]}
         /\ [id |-> nextId, user |-> toggle[w].user, target |-> toggle[w].target] \notin likes
         /\ \A t \in Targets : t # toggle[w].target => LikesOf(t)' = LikesOf(t)
<1>1. toggle[w] \in Toggling
  BY TogglingFields DEF InsertLike, LikesInv
<1>2. [id |-> nextId, user |-> toggle[w].user, target |-> toggle[w].target] \notin likes
  BY DEF LikesInv, KeysInv, LikesTypeOK, LikeRow
<1> QED
  BY <1>1, <1>2 DEF InsertLike, LikesOf

LEMMA CountInsert ==
  ASSUME LikesInv, NEW w \in Workers, InsertLike(w), NEW t \in Targets
  PROVE  likeCount'[t] <= Cardinality(LikesOf(t)')
<1> DEFINE row == [id |-> nextId, user |-> toggle[w].user, target |-> toggle[w].target]
<1>1. IsFiniteSet(LikesOf(t))
  BY FS_Subset DEF LikesInv, LikesOf
<1>2. Cardinality(LikesOf(t)) \in Nat /\ likeCount[t] \in Int
  BY <1>1, FS_CardinalityType DEF LikesInv, LikesTypeOK
<1>3. likeCount[t] <= Cardinality(LikesOf(t))
  BY DEF LikesInv, LikeCountNeverOver
<1>4. CASE t = toggle[w].target
  <2>1. LikesOf(t)' = LikesOf(t) \cup {row} /\ row \notin LikesOf(t)
    BY <1>4, InsertLikeRows DEF LikesOf
  <2>2. Cardinality(LikesOf(t) \cup {row}) = Cardinality(LikesOf(t)) + 1
    BY <1>1, <2>1, FS_AddElement
  <2>3. likeCount'[t] = likeCount[t] + 1
    BY <1>4 DEF InsertLike, LikesInv, LikesTypeOK
  <2> QED
    BY <1>2, <1>3, <2>1, <2>2, <2>3
<1>5. CASE t # toggle[w].target
  <2>1. LikesOf(t)' = LikesOf(t)
    BY <1>5, InsertLikeRows
  <2>2. likeCount'[t] = likeCount[t]
    BY <1>5 DEF InsertLike, LikesInv, LikesTypeOK
  <2> QED
    BY <1>3, <2>1, <2>2
<1> QED
  BY <1>4, <1>5

LEMMA CountDelete ==
  ASSUME LikesInv, NEW w \in Workers, DeleteLike(w), NEW t \in Targets
  PROVE  likeCount'[t] <= Cardinality(LikesOf(t)')
<1>1. toggle[w] \in Toggling
  BY TogglingFields DEF DeleteLike, LikesInv
<1>2. IsFiniteSet(LikesOf(t))
  BY FS_Subset DEF LikesInv, LikesOf
<1>3. Cardinality(LikesOf(t)) \in Nat /\ likeCount[t] \in Int
  BY <1>2, FS_CardinalityType DEF LikesInv, LikesTypeOK
<1>4. likeCount[t] <= Cardinality(LikesOf(t))
  BY DEF LikesInv, LikeCountNeverOver
<1>5. LikesOf(t)' = {l \in LikesOf(t) : l.id # toggle[w].row}
  BY DEF DeleteLike, LikesOf
<1>6. CASE \A l \in LikesOf(t) : l.id # toggle[w].row
  <2>1. LikesOf(t)' = LikesOf(t)
    BY <1>5, <1>6
  <2>2. likeCount'[t] <= likeCount[t] /\ likeCount'[t] \in Int
    BY <1>1, <1>3 DEF DeleteLike, LikesInv, LikesTypeOK, Toggling
  <2> QED
    BY <1>3, <1>4, <2>1, <2>2
<1>7. ASSUME NEW l \in LikesOf(t), l.id = toggle[w].row
      PROVE  likeCount'[t] <= Cardinality(LikesOf(t)')
  <2>1. t = toggle[w].target
    BY <1>7 DEF LikesOf, LikesInv, KeysInv, DeleteLike
  <2>2. LikesOf(t)' = LikesOf(t) \ {l}
    BY <1>5, <1>7 DEF LikesOf, LikesInv, KeysInv
  <2>3. Cardinality(LikesOf(t) \ {l}) = Cardinality(LikesOf(t)) - 1
    BY <1>2, <1>7, FS_RemoveElement
  <2>4. likeCount'[t] = likeCount[t] - 1
    BY <2>1 DEF DeleteLike, LikesInv, LikesTypeOK
  <2> QED
    BY <1>3, <1>4, <2>2, <2>3, <2>4
<1> QED
  BY <1>6, <1>7

LEMMA KeysStep ==
  ASSUME LikesInv, [LikesNext]_likesVars
  PROVE  KeysInv' /\ OneVote' /\ IsFiniteSet(likes)'
<1> USE DEF LikesInv
<1>1. ASSUME NEW w \in Workers, NEW u \in Users, NEW t \in Targets, Lookup(w, u, t)
      PROVE  KeysInv' /\ OneVote' /\ IsFiniteSet(likes)'
  <2>1. likes' = likes /\ nextId' = nextId
    BY <1>1 DEF Lookup
  <2>2. ASSUME NEW v \in Workers, toggle'[v].pc = "delete"
        PROVE  /\ toggle'[v].row < nextId
               /\ \A l \in likes : l.id = toggle'[v].row => l.target = toggle'[v].target
    BY <1>1, <2>2 DEF Lookup, KeysInv, LikesOf, LikesTypeOK
  <2> QED
    BY <2>1, <2>2 DEF KeysInv, OneVote
<1>2. ASSUME NEW w \in Workers, DeleteLike(w)
      PROVE  KeysInv' /\ OneVote' /\ IsFiniteSet(likes)'
  <2>1. likes' \subseteq likes
    BY <1>2 DEF DeleteLike
  <2>2. IsFiniteSet(likes')
    BY <2>1, FS_Subset
  <2>3. nextId' = nextId /\ \A v \in Workers : toggle'[v] = toggle[v] \/ toggle'[v] = Idle
    BY <1>2 DEF DeleteLike, Done, LikesTypeOK
  <2>4. ASSUME NEW v \in Workers, toggle'[v].pc = "delete" PROVE toggle'[v] = toggle[v]
    BY <2>3, <2>4 DEF Idle
  <2> QED
    BY <2>1, <2>2, <2>3, <2>4 DEF KeysInv, OneVote
<1>3. ASSUME NEW w \in Workers, InsertLike(w)
      PROVE  KeysInv' /\ OneVote' /\ IsFiniteSet(likes)'
  <2> DEFINE row == [id |-> nextId, user |-> toggle[w].user, target |-> toggle[w].target]
  <2>1. likes' = likes \cup {row} /\ nextId' = nextId + 1 /\ nextId \in Nat
    BY <1>3 DEF InsertLike, LikesTypeOK
  <2>2. IsFiniteSet(likes \cup {row})
    BY FS_AddElement
  <2>3. toggle[w] \in Toggling /\ ~Taken(toggle[w].user, toggle[w].target)
    BY <1>3, TogglingFields DEF InsertLike
  <2>4. OneVote'
    BY <2>1, <2>3 DEF OneVote, Taken, LikesOf
  <2>5. /\ \A l \in likes' : l.id < nextId'
        /\ \A k, l \in likes' : k.id = l.id => k = l
    BY <2>1 DEF KeysInv, LikesTypeOK, LikeRow
  <2>6. ASSUME NEW v \in Workers, toggle'[v].pc = "delete"
        PROVE  toggle'[v] = toggle[v] /\ toggle[v].row \in Nat
    BY <1>3, <2>6, TogglingFields DEF InsertLike, LikesTypeOK, Toggling
  <2>7. ASSUME NEW v \in Workers, toggle'[v].pc = "delete"
        PROVE  /\ toggle'[v].row < nextId'
               /\ \A l \in likes' : l.id = toggle'[v].row => l.target = toggle'[v].target
    <3>1. toggle[v].pc = "delete" /\ toggle'[v] = toggle[v] /\ toggle[v].row \in Nat
      BY <2>6, <2>7
    <3>2. /\ toggle[v].row < nextId
          /\ \A l \in likes : l.id = toggle[v].row => l.target = toggle[v].target
      BY <3>1 DEF KeysInv
    <3>3. row.id # toggle[v].row
      BY <2>1, <3>1, <3>2
    <3> QED
      BY <2>1, <3>1, <3>2, <3>3
  <2> QED
    BY <2>1, <2>2, <2>4, <2>5, <2>7 DEF KeysInv
<1>4. ASSUME NEW w \in Workers, InsertRefused(w) \/ ReadTarget(w) \/ TellOwner(w)
      PROVE  KeysInv' /\ OneVote' /\ IsFiniteSet(likes)'
  <2>1. likes' = likes /\ nextId' = nextId
    BY <1>4 DEF InsertRefused, ReadTarget, TellOwner
  <2>2. \/ toggle' = [toggle EXCEPT ![w] = Idle]
        \/ toggle[w].pc = "target" /\ toggle' = [toggle EXCEPT ![w].pc = "tell"]
    BY <1>4 DEF InsertRefused, ReadTarget, TellOwner, Done
  <2>3. toggle[w].pc = "target" => toggle[w] \in Toggling
    BY TogglingFields
  <2>4. ASSUME NEW v \in Workers, toggle'[v].pc = "delete" PROVE toggle'[v] = toggle[v]
    BY <2>2, <2>3, <2>4 DEF Idle, LikesTypeOK, Toggling
  <2> QED
    BY <2>1, <2>4 DEF KeysInv, OneVote
<1>5. CASE (\E t \in Targets : DeleteTarget(t)) \/ UNCHANGED likesVars
  BY <1>5 DEF DeleteTarget, likesVars, KeysInv, OneVote
<1> QED
  BY <1>1, <1>2, <1>3, <1>4, <1>5 DEF LikesNext, ToggleStep

LEMMA LikeCountStep ==
  ASSUME LikesInv, [LikesNext]_likesVars
  PROVE  LikeCountNeverOver'
<1>1. ASSUME likes' = likes, likeCount' = likeCount PROVE LikeCountNeverOver'
  BY <1>1 DEF LikesInv, LikeCountNeverOver, LikesOf
<1>2. ASSUME NEW w \in Workers, DeleteLike(w) PROVE LikeCountNeverOver'
  BY <1>2, CountDelete DEF LikeCountNeverOver
<1>3. ASSUME NEW w \in Workers, InsertLike(w) PROVE LikeCountNeverOver'
  BY <1>3, CountInsert DEF LikeCountNeverOver
<1> QED
  BY <1>1, <1>2, <1>3
     DEF LikesNext, ToggleStep, Lookup, InsertRefused, ReadTarget, TellOwner,
         DeleteTarget, likesVars

LEMMA LikesInvInit == LikesInit => LikesInv
<1> SUFFICES ASSUME LikesInit PROVE LikesInv
  OBVIOUS
<1>1. LikesTypeOK
  BY DEF LikesInit, LikesTypeOK, Idle, Fits
<1>2. IsFiniteSet(likes) /\ Cardinality({}) = 0
  BY FS_EmptySet DEF LikesInit
<1>3. \A t \in Targets : LikesOf(t) = {} /\ likeCount[t] = 0
  BY DEF LikesInit, LikesOf
<1>4. KeysInv /\ OneVote
  BY DEF LikesInit, KeysInv, OneVote, Idle
<1>5. \A t \in Targets : likeCount[t] <= Cardinality(LikesOf(t))
  BY <1>2, <1>3
<1> QED
  BY <1>1, <1>2, <1>4, <1>5 DEF LikesInv, LikeCountNeverOver

LEMMA LikesInvHolds == LikesSpec => []LikesInv
<1>1. LikesInv /\ [LikesNext]_likesVars => LikesInv'
  BY LikesTypeStep, KeysStep, LikeCountStep DEF LikesInv
<1> QED
  BY <1>1, LikesInvInit, PTL DEF LikesSpec

\* The state of the likes component is well typed, and only the author of a
\* signed target is about to be told of a like, in every reachable state.
THEOREM LikesTypeCorrect == LikesSpec => []LikesTypeOK
<1>1. LikesInv => LikesTypeOK
  BY DEF LikesInv
<1> QED
  BY <1>1, LikesInvHolds, PTL

\* Nobody has two like rows for one target, however his requests overlap.
THEOREM OneVoteSafe == LikesSpec => []OneVote
<1>1. LikesInv => OneVote
  BY DEF LikesInv
<1> QED
  BY <1>1, LikesInvHolds, PTL

\* like_count never exceeds the number of like rows of the target.
THEOREM LikeCountSafe == LikesSpec => []LikeCountNeverOver
<1>1. LikesInv => LikeCountNeverOver
  BY DEF LikesInv
<1> QED
  BY <1>1, LikesInvHolds, PTL

-----------------------------------------------------------------------------
(* The rewards, and the likes that bring them.                             *)

\* The votes stay in order when the requests go on to rewards and restarts end
\* them.
LEMMA LikesInvStep ==
  ASSUME LikesInv, [LikeRewardsNext]_likeRewardsVars
  PROVE  LikesInv'
<1>1. CASE [LikesNext]_likesVars
  BY <1>1, LikesTypeStep, KeysStep, LikeCountStep DEF LikesInv
<1>2. CASE CrashAll
  <2>1. UNCHANGED <<likes, nextId, likeCount, deleted>> /\ toggle' = [w \in Workers |-> Idle]
    BY <1>2 DEF CrashAll
  <2>2. LikesTypeOK'
    BY <2>1 DEF LikesInv, LikesTypeOK, Idle, Fits
  <2>3. KeysInv' /\ OneVote'
    BY <2>1 DEF LikesInv, KeysInv, OneVote, Idle
  <2>4. LikeCountNeverOver'
    BY <2>1 DEF LikesInv, LikeCountNeverOver, LikesOf
  <2> QED
    BY <2>1, <2>2, <2>3, <2>4 DEF LikesInv
<1> QED
  BY <1>1, <1>2 DEF LikeRewardsNext, LikesNext, Toggle, Reward, RewardOther,
                    likeRewardsVars

\* However toggles, rewards and restarts overlap, nobody has two like rows for
\* one target, and like_count never exceeds their number.
THEOREM LikesSafe == LikeRewardsSpec => [](OneVote /\ LikeCountNeverOver)
<1>1. LikeRewardsInit => LikesInv
  BY LikesInvInit DEF LikeRewardsInit
<1>2. LikesInv => OneVote /\ LikeCountNeverOver
  BY DEF LikesInv
<1> QED
  BY <1>1, <1>2, LikesInvStep, PTL DEF LikeRewardsSpec

-----------------------------------------------------------------------------
RewardOrders ==
  [user: Users, kind: RewardKinds, xp: Nat, credits: Nat, overdraw: {TRUE},
   ref: Refs, actor: Users \cup {NoRef}]

RewardRow ==
  [user: Users, kind: RewardKinds, xpDelta: Nat, creditsDelta: Nat, balanceAfter: Int,
   xpAfter: Nat, ref: Refs, actor: Users \cup {NoRef}, day: Nat]

RewardCall ==
  [pc: {"idle"}]
    \cup [pc: {"read", "applied", "refused"}, order: RewardOrders]
    \cup [pc: {"write"}, order: RewardOrders, seen: Balance]

LedgerInv ==
  /\ wallet \in [Users -> Balance]
  /\ ledger \in Seq(RewardRow)
  /\ day \in Nat
  /\ \A i \in DOMAIN ledger : ledger[i].day <= day

\* Who is rewarded for a like: the author of a signed target, by somebody else.
Deserved(r) ==
  r.kind = "like_received" =>
    r.user = OwnerOf[r.ref] /\ r.actor # r.user /\ r.ref \notin AnonTargets

\* A call of Apply is there exactly in the last phase of an award, for its order.
AwardSlotInv(w) ==
  /\ award[w] \in {NoAward} \cup Awarding
  /\ apply[w] \in RewardCall
  /\ award[w].pc # "apply" => apply[w].pc = "idle"
  /\ award[w].pc = "apply" => apply[w].pc # "idle" /\ apply[w].order = RewardOrder(award[w])
  /\ award[w].pc # "idle" => Deserved(award[w])

AwardSlotsInv ==
  /\ award \in [Workers -> {NoAward} \cup Awarding]
  /\ apply \in [Workers -> RewardCall]
  /\ \A w \in Workers : AwardSlotInv(w)

\* A row is still to be written by this call.
Unwritten(w) == award[w].pc = "apply" /\ apply[w].pc \in {"read", "write"}

\* Past the cap, and past the duplicate check.
Counting(u, kind) ==
  {w \in Workers : Unwritten(w) /\ award[w].user = u /\ award[w].kind = kind}

Earning(u, ref, actor) ==
  {w \in Workers : /\ award[w].pc = "cap" \/ Unwritten(w)
                   /\ award[w].kind = "like_received"
                   /\ award[w].user = u /\ award[w].ref = ref /\ award[w].actor = actor}

RowsToday(u, kind) ==
  {i \in DOMAIN ledger : ledger[i].user = u /\ ledger[i].kind = kind /\ ledger[i].day = day}

\* The rows there are and those the calls past the check will write.
CapInv ==
  \A u \in Users, kind \in RewardKinds : DailyCap[kind] > 0 =>
    Cardinality(RowsToday(u, kind)) + Cardinality(Counting(u, kind))
      <= DailyCap[kind] - 1 + Cardinality(Workers)

OnceWithin(n) ==
  \A u, actor \in Users, ref \in Refs :
    Cardinality(LikeRows(u, ref, actor)) + Cardinality(Earning(u, ref, actor)) <= n

OnceInv == OnceWithin(Cardinality(Workers))

EarningWithin(n) ==
  \A u, actor \in Users, ref \in Refs : Cardinality(Earning(u, ref, actor)) <= n

RewardsInv == LedgerInv /\ AwardSlotsInv /\ CapInv /\ OnceInv /\ LikeXPGoesToAuthor

-----------------------------------------------------------------------------
LEMMA SumShrinks ==
  ASSUME NEW R, NEW P, NEW R1 \in SUBSET R, NEW P1 \in SUBSET P,
         IsFiniteSet(R), IsFiniteSet(P)
  PROVE  /\ Cardinality(R1) + Cardinality(P1) <= Cardinality(R) + Cardinality(P)
         /\ Cardinality(R1) + Cardinality(P1) \in Nat
         /\ Cardinality(R) + Cardinality(P) \in Nat
<1>1. Cardinality(R1) <= Cardinality(R) /\ Cardinality(P1) <= Cardinality(P)
  BY FS_Subset
<1>2. IsFiniteSet(R1) /\ IsFiniteSet(P1)
  BY FS_Subset
<1>3. /\ Cardinality(R1) \in Nat /\ Cardinality(R) \in Nat
      /\ Cardinality(P1) \in Nat /\ Cardinality(P) \in Nat
  BY <1>2, FS_CardinalityType
<1> QED
  BY <1>1, <1>3

\* A call turns into its row.
LEMMA SumMoves ==
  ASSUME NEW R, NEW P, NEW n, NEW w \in P, IsFiniteSet(R), IsFiniteSet(P)
  PROVE  Cardinality(R \cup {n}) + Cardinality(P \ {w}) <= Cardinality(R) + Cardinality(P)
<1>1. Cardinality(R \cup {n}) = IF n \in R THEN Cardinality(R) ELSE Cardinality(R) + 1
  BY FS_AddElement
<1>2. Cardinality(P \ {w}) = Cardinality(P) - 1
  BY FS_RemoveElement
<1>3. IsFiniteSet(R \cup {n})
  BY FS_AddElement
<1>4. Cardinality(R) \in Nat /\ Cardinality(P) \in Nat /\ Cardinality(R \cup {n}) \in Nat
  BY <1>3, FS_CardinalityType
<1> QED
  BY <1>1, <1>2, <1>4

LEMMA RowsFinite ==
  ASSUME LedgerInv
  PROVE  /\ Len(ledger) \in Nat /\ DOMAIN ledger = 1..Len(ledger)
         /\ \A u, kind : IsFiniteSet(RowsToday(u, kind)) /\ IsFiniteSet(Counting(u, kind))
         /\ \A u, ref, actor :
              IsFiniteSet(LikeRows(u, ref, actor)) /\ IsFiniteSet(Earning(u, ref, actor))
<1>1. Len(ledger) \in Nat /\ DOMAIN ledger = 1..Len(ledger)
  BY DEF LedgerInv
<1>2. IsFiniteSet(DOMAIN ledger) /\ IsFiniteSet(Workers)
  BY <1>1, FS_Interval, RewardsAssumption
<1>3. ASSUME NEW u, NEW kind
      PROVE  IsFiniteSet(RowsToday(u, kind)) /\ IsFiniteSet(Counting(u, kind))
  <2>1. RowsToday(u, kind) \in SUBSET DOMAIN ledger /\ Counting(u, kind) \in SUBSET Workers
    BY DEF RowsToday, Counting
  <2> QED
    BY <1>2, <2>1, FS_Subset
<1>4. ASSUME NEW u, NEW ref, NEW actor
      PROVE  IsFiniteSet(LikeRows(u, ref, actor)) /\ IsFiniteSet(Earning(u, ref, actor))
  <2>1. LikeRows(u, ref, actor) \in SUBSET DOMAIN ledger /\ Earning(u, ref, actor) \in SUBSET Workers
    BY DEF LikeRows, Earning
  <2> QED
    BY <1>2, <2>1, FS_Subset
<1> QED
  BY <1>1, <1>3, <1>4

\* The row that a call of Apply commits for an award.
LEMMA WriteAppends ==
  ASSUME LedgerInv, AwardSlotsInv, NEW w \in Workers, WriteWallet(w)
  PROVE  /\ award[w] \in Awarding /\ Deserved(award[w]) /\ Unwritten(w)
         /\ wallet' \in [Users -> Balance]
         /\ \E row \in RewardRow :
              /\ ledger' = Append(ledger, row)
              /\ row.user = award[w].user /\ row.kind = award[w].kind
              /\ row.ref = award[w].ref /\ row.actor = award[w].actor /\ row.day = day
<1> DEFINE a == award[w]
           o == apply[w].order
           b == NewBalance(apply[w].seen, o)
<1>1. AwardSlotInv(w) /\ apply[w].pc = "write"
  BY DEF AwardSlotsInv, WriteWallet
<1>2. a \in Awarding /\ a.pc = "apply" /\ Deserved(a) /\ o = RewardOrder(a)
  BY <1>1 DEF AwardSlotInv, NoAward
<1>3. o \in RewardOrders /\ apply[w].seen \in Balance
  BY <1>1 DEF AwardSlotInv, RewardCall
<1>4. b \in Balance
  <2>1. /\ apply[w].seen.credits \in Int /\ apply[w].seen.xp \in Nat
        /\ o.credits \in Nat /\ o.xp \in Nat
    BY <1>3 DEF Balance, RewardOrders
  <2> HIDE DEF o
  <2> QED
    BY <2>1 DEF NewBalance, Balance
<1>5. wallet' = [wallet EXCEPT ![o.user] = b] /\ ledger' = Append(ledger, Row(o, b))
  BY DEF WriteWallet
<1>6. wallet' \in [Users -> Balance]
  BY <1>4, <1>5 DEF LedgerInv
<1>7. Row(o, b) \in RewardRow /\ Row(o, b).day = day
  BY <1>3, <1>4 DEF Row, RewardRow, RewardOrders, Balance, LedgerInv
<1>8. /\ Row(o, b).user = a.user /\ Row(o, b).kind = a.kind
      /\ Row(o, b).ref = a.ref /\ Row(o, b).actor = a.actor
  BY <1>2 DEF Row, RewardOrder, Order
<1>9. Unwritten(w)
  BY <1>1, <1>2 DEF Unwritten
<1> HIDE DEF a, o, b
<1>10. \E row \in RewardRow :
         /\ ledger' = Append(ledger, row)
         /\ row.user = a.user /\ row.kind = a.kind
         /\ row.ref = a.ref /\ row.actor = a.actor /\ row.day = day
  BY <1>5, <1>7, <1>8
<1> QED
  BY <1>2, <1>6, <1>9, <1>10 DEF a

\* What the row changes in the ledger.
LEMMA RowAdded ==
  ASSUME LedgerInv, NEW row \in RewardRow, ledger' = Append(ledger, row), row.day = day,
         UNCHANGED day
  PROVE  /\ ledger' \in Seq(RewardRow)
         /\ Len(ledger) \in Nat
         /\ DOMAIN ledger = 1..Len(ledger) /\ DOMAIN ledger' = 1..(Len(ledger) + 1)
         /\ ledger'[Len(ledger) + 1] = row
         /\ \A i \in DOMAIN ledger : ledger'[i] = ledger[i]
<1>1. ledger \in Seq(RewardRow)
  BY DEF LedgerInv
<1> QED
  BY <1>1

LEMMA LedgerStep ==
  ASSUME LedgerInv, AwardSlotsInv, [LikeRewardsNext]_likeRewardsVars
  PROVE  LedgerInv'
<1>1. ASSUME UNCHANGED <<wallet, ledger, day>> PROVE LedgerInv'
  BY <1>1 DEF LedgerInv
<1>2. ASSUME NEW w \in Workers, WriteWallet(w) PROVE LedgerInv'
  <2>1. PICK row \in RewardRow : ledger' = Append(ledger, row) /\ row.day = day
    BY <1>2, WriteAppends
  <2>2. UNCHANGED day /\ wallet' \in [Users -> Balance]
    BY <1>2, WriteAppends DEF WriteWallet
  <2>3. \A i \in DOMAIN ledger' : ledger'[i].day <= day
    BY <2>1, <2>2, RowAdded DEF LedgerInv
  <2> QED
    BY <2>1, <2>2, <2>3, RowAdded DEF LedgerInv
<1>3. ASSUME Midnight(Days) PROVE LedgerInv'
  <2>1. \A i \in DOMAIN ledger : ledger[i].day \in Nat /\ ledger[i].day <= day
    <3>1. \A i \in DOMAIN ledger : ledger[i] \in RewardRow
      BY DEF LedgerInv
    <3> QED
      BY <3>1 DEF RewardRow, LedgerInv
  <2> QED
    BY <1>3, <2>1 DEF Midnight, LedgerInv
<1>4. \/ UNCHANGED <<wallet, ledger, day>> \/ (\E w \in Workers : WriteWallet(w))
      \/ Midnight(Days)
  BY DEF LikeRewardsNext, likeRewardsVars, rewardsVars, Toggle, AwardStep, CheckAwarded, CheckCap,
         EndAward, ApplyStep, ReadWallet, Reward, BeginLikeAward, RewardOther, BeginAward,
         walletVars, CrashAll, CrashRewards, CrashWallet
<1> QED
  BY <1>1, <1>2, <1>3, <1>4

\* A step that concerns the slot of one worker.
LEMMA OneAwardSlot ==
  ASSUME AwardSlotsInv, NEW w \in Workers, NEW a, NEW c,
         award' = [award EXCEPT ![w] = a], apply' = [apply EXCEPT ![w] = c],
         AwardSlotInv(w)'
  PROVE  AwardSlotsInv'
<1>1. award'[w] = a /\ apply'[w] = c
  BY DEF AwardSlotsInv
<1>2. a \in {NoAward} \cup Awarding /\ c \in RewardCall
  BY <1>1 DEF AwardSlotInv
<1>3. ASSUME NEW v \in Workers PROVE AwardSlotInv(v)'
  <2>1. CASE v = w
    BY <2>1
  <2>2. CASE v # w
    <3>1. award'[v] = award[v] /\ apply'[v] = apply[v] /\ AwardSlotInv(v)
      BY <2>2 DEF AwardSlotsInv
    <3> QED
      BY <3>1 DEF AwardSlotInv, Deserved
  <2> QED
    BY <2>1, <2>2
<1> QED
  BY <1>2, <1>3 DEF AwardSlotsInv

LEMMA SlotFields ==
  ASSUME AwardSlotsInv, NEW w \in Workers
  PROVE  /\ AwardSlotInv(w)
         /\ award[w].pc # "idle" => award[w] \in Awarding /\ Deserved(award[w])
         /\ award[w].pc \in {"idle", "dedupe", "cap", "apply"}
         /\ award[w].pc = "idle" => award[w] = NoAward
         /\ award[w].pc # "apply" => apply[w].pc = "idle"
         /\ apply[w].pc = "idle" => apply[w] = [pc |-> "idle"]
<1>1. AwardSlotInv(w)
  BY DEF AwardSlotsInv
<1>2. award[w] = NoAward \/ award[w] \in Awarding
  BY <1>1 DEF AwardSlotInv
<1>3. apply[w].pc = "idle" => apply[w] = [pc |-> "idle"]
  BY <1>1 DEF AwardSlotInv, RewardCall
<1> QED
  BY <1>1, <1>2, <1>3 DEF AwardSlotInv, NoAward, Awarding

\* The three ways an award begins: its first state.
LEMMA SlotBegins ==
  ASSUME AwardSlotsInv, NEW w \in Workers, NEW a \in Awarding, award[w] = NoAward,
         a.pc # "apply", Deserved(a), award' = [award EXCEPT ![w] = a], UNCHANGED apply
  PROVE  AwardSlotsInv'
<1>1. apply[w] = [pc |-> "idle"]
  BY SlotFields DEF NoAward
<1>2. apply' = [apply EXCEPT ![w] = [pc |-> "idle"]]
  BY <1>1 DEF AwardSlotsInv
<1>3. award'[w] = a /\ apply'[w] = [pc |-> "idle"]
  BY <1>1 DEF AwardSlotsInv
<1>4. [pc |-> "idle"] \in RewardCall
  BY DEF RewardCall
<1>5. AwardSlotInv(w)'
  BY <1>3, <1>4 DEF AwardSlotInv, Deserved
<1> QED
  BY <1>2, <1>5, OneAwardSlot

LEMMA SlotEnds ==
  ASSUME AwardSlotsInv, NEW w \in Workers, award' = [award EXCEPT ![w] = NoAward],
         apply' = [apply EXCEPT ![w] = [pc |-> "idle"]]
  PROVE  AwardSlotsInv'
<1>1. award'[w] = NoAward /\ apply'[w] = [pc |-> "idle"]
  BY DEF AwardSlotsInv
<1>2. [pc |-> "idle"] \in RewardCall
  BY DEF RewardCall
<1>3. AwardSlotInv(w)'
  BY <1>1, <1>2 DEF AwardSlotInv, NoAward
<1> QED
  BY <1>3, OneAwardSlot

LEMMA SlotOthers ==
  ASSUME AwardSlotsInv, NEW w \in Workers, NEW u \in Users, NEW kind \in RewardKinds, NEW ref \in Refs,
         RewardOther(w, u, kind, ref)
  PROVE  AwardSlotsInv'
<1> DEFINE a == [pc |-> "cap", user |-> u, kind |-> kind, ref |-> ref, actor |-> NoRef]
<1>1. a \in Awarding /\ a.pc # "apply"
  BY DEF Awarding
<1>2. Deserved(a)
  BY DEF Deserved, RewardOther, BeginAward
<1>3. award[w] = NoAward /\ award' = [award EXCEPT ![w] = a] /\ UNCHANGED apply
  BY DEF RewardOther, BeginAward, walletVars
<1> HIDE DEF a
<1> QED
  BY <1>1, <1>2, <1>3, SlotBegins

\* TellOwner tells the author of a signed target of somebody else's like.
LEMMA SlotReward ==
  ASSUME LikesTypeOK, AwardSlotsInv, NEW w \in Workers, Reward(w)
  PROVE  AwardSlotsInv'
<1> DEFINE q == toggle[w]
           a == [pc |-> "dedupe", user |-> OwnerOf[q.target], kind |-> "like_received",
                 ref |-> q.target, actor |-> q.user]
<1>1. q \in Toggling /\ q.pc = "tell" /\ Fits(q)
  BY TogglingFields DEF Reward, TellOwner, LikesTypeOK
<1>2. q.target \in Targets \ AnonTargets /\ OwnerOf[q.target] # q.user /\ q.user \in Users
  BY <1>1 DEF Fits, Toggling
<1>3. q.target \in Refs /\ OwnerOf[q.target] \in Users
  BY <1>2, LikeRewardsAssumption, LikesAssumption
<1>4. a \in Awarding /\ a.pc # "apply"
  BY <1>2, <1>3 DEF Awarding, RewardKinds
<1>5. Deserved(a)
  BY <1>2 DEF Deserved
<1>6. CASE RewardXP["like_received"] > 0
  <2>1. award[w] = NoAward /\ award' = [award EXCEPT ![w] = a] /\ UNCHANGED apply
    BY <1>6 DEF Reward, BeginLikeAward, walletVars
  <2> HIDE DEF a
  <2> QED
    BY <1>4, <1>5, <2>1, SlotBegins
<1>7. CASE ~(RewardXP["like_received"] > 0)
  <2>1. UNCHANGED <<award, apply>>
    BY <1>7 DEF Reward, rewardsVars
  <2> QED
    BY <2>1 DEF AwardSlotsInv, AwardSlotInv, Deserved
<1> QED
  BY <1>6, <1>7

LEMMA SlotChecked ==
  ASSUME AwardSlotsInv, NEW w \in Workers, CheckAwarded(w)
  PROVE  AwardSlotsInv'
<1>1. award[w].pc = "dedupe" /\ UNCHANGED apply
  BY DEF CheckAwarded, walletVars
<1>2. apply[w] = [pc |-> "idle"] /\ award[w] \in Awarding /\ Deserved(award[w])
  BY <1>1, SlotFields
<1>3. apply' = [apply EXCEPT ![w] = [pc |-> "idle"]]
  BY <1>1, <1>2 DEF AwardSlotsInv
<1>4. CASE award' = [award EXCEPT ![w] = NoAward]
  BY <1>3, <1>4, SlotEnds
<1>5. CASE award' = [award EXCEPT ![w].pc = "cap"]
  <2> DEFINE a == [award[w] EXCEPT !.pc = "cap"]
  <2>1. a \in Awarding /\ a.pc = "cap" /\ Deserved(a)
    BY <1>2 DEF Awarding, Deserved
  <2>2. award' = [award EXCEPT ![w] = a] /\ award'[w] = a /\ apply'[w] = [pc |-> "idle"]
    BY <1>1, <1>2, <1>5 DEF AwardSlotsInv
  <2>3. [pc |-> "idle"] \in RewardCall
    BY DEF RewardCall
  <2> HIDE DEF a
  <2>4. AwardSlotInv(w)'
    BY <2>1, <2>2, <2>3 DEF AwardSlotInv, Deserved
  <2> QED
    BY <1>3, <2>2, <2>4, OneAwardSlot
<1> QED
  BY <1>4, <1>5 DEF CheckAwarded, Drop

LEMMA SlotCap ==
  ASSUME AwardSlotsInv, NEW w \in Workers, CheckCap(w)
  PROVE  /\ AwardSlotsInv'
         /\ award' = [award EXCEPT ![w] = NoAward]
            \/ /\ award' = [award EXCEPT ![w].pc = "apply"]
               /\ ~CapReached(award[w])
<1>1. award[w].pc = "cap"
  BY DEF CheckCap
<1>2. apply[w] = [pc |-> "idle"] /\ award[w] \in Awarding /\ Deserved(award[w])
  BY <1>1, SlotFields
<1>3. CASE Drop(w) /\ UNCHANGED apply
  <2>1. apply' = [apply EXCEPT ![w] = [pc |-> "idle"]]
    BY <1>2, <1>3 DEF AwardSlotsInv
  <2> QED
    BY <1>3, <2>1, SlotEnds DEF Drop
<1>4. CASE /\ BeginApply(w, RewardOrder(award[w])) /\ ~CapReached(award[w])
           /\ award' = [award EXCEPT ![w].pc = "apply"]
  <2> DEFINE a == [award[w] EXCEPT !.pc = "apply"]
             o == RewardOrder(award[w])
             c == [pc |-> "read", order |-> o]
  <2>1. a \in Awarding /\ a.pc = "apply" /\ Deserved(a)
    BY <1>2 DEF Awarding, Deserved
  <2>2. o = RewardOrder(a)
    BY <1>2 DEF RewardOrder, Order, Awarding
  <2>3. o \in RewardOrders
    BY <1>2, RewardsAssumption DEF RewardOrder, Order, Awarding, RewardOrders
  <2> HIDE DEF o
  <2>4. c \in RewardCall /\ c.pc = "read" /\ c.order = o
    BY <2>3 DEF RewardCall
  <2>5. award' = [award EXCEPT ![w] = a] /\ award'[w] = a
    BY <1>2, <1>4 DEF AwardSlotsInv
  <2>6. apply' = [apply EXCEPT ![w] = c] /\ apply'[w] = c
    BY <1>4 DEF AwardSlotsInv, BeginApply, o
  <2> HIDE DEF a, c
  <2>7. AwardSlotInv(w)'
    BY <2>1, <2>2, <2>4, <2>5, <2>6 DEF AwardSlotInv, Deserved
  <2>8. AwardSlotsInv'
    BY <2>5, <2>6, <2>7, OneAwardSlot
  <2> QED
    BY <1>4, <2>8
<1> QED
  BY <1>3, <1>4 DEF CheckCap

\* Apply goes on for an award.
LEMMA SlotApply ==
  ASSUME AwardSlotsInv, wallet \in [Users -> Balance], NEW w \in Workers, ApplyStep(w), UNCHANGED award
  PROVE  /\ AwardSlotsInv' /\ award[w].pc = "apply"
         /\ \A v \in Workers : Unwritten(v)' => Unwritten(v)
         /\ WriteWallet(w) => ~Unwritten(w)'
<1> DEFINE o == apply[w].order
<1>1. apply[w].pc \in {"read", "write"}
  BY DEF ApplyStep, ReadWallet, WriteWallet
<1>2. award[w].pc = "apply" /\ o = RewardOrder(award[w])
  BY <1>1, SlotFields DEF AwardSlotInv
<1>3. o \in RewardOrders
  BY <1>1, SlotFields DEF AwardSlotInv, RewardCall
<1>4. wallet[o.user] \in Balance
  BY <1>3 DEF RewardOrders
<1>5. \E c \in RewardCall : /\ apply' = [apply EXCEPT ![w] = c] /\ c.order = o /\ c.pc # "idle"
                            /\ WriteWallet(w) => c.pc = "applied"
  <2>1. CASE ReadWallet(w)
    <3> DEFINE c == IF Affords(wallet[o.user], o)
                      THEN [pc |-> "write", order |-> o, seen |-> wallet[o.user]]
                      ELSE [pc |-> "refused", order |-> o]
    <3>1. apply' = [apply EXCEPT ![w] = c] /\ apply[w].pc = "read"
      BY <2>1 DEF ReadWallet
    <3> HIDE DEF o
    <3>2. c \in RewardCall /\ c.order = o /\ c.pc # "idle"
      BY <1>3, <1>4 DEF RewardCall
    <3>3. ~WriteWallet(w)
      BY <3>1 DEF WriteWallet
    <3> HIDE DEF c
    <3> QED
      BY <3>1, <3>2, <3>3
  <2>2. CASE WriteWallet(w)
    <3> DEFINE c == [pc |-> "applied", order |-> o]
    <3>1. apply' = [apply EXCEPT ![w] = c]
      BY <2>2 DEF WriteWallet
    <3> HIDE DEF o
    <3>2. c \in RewardCall /\ c.order = o /\ c.pc = "applied"
      BY <1>3 DEF RewardCall
    <3> HIDE DEF c
    <3> QED
      BY <3>1, <3>2
  <2> QED
    BY <2>1, <2>2 DEF ApplyStep
<1>6. PICK c \in RewardCall : /\ apply' = [apply EXCEPT ![w] = c] /\ c.order = o /\ c.pc # "idle"
                              /\ WriteWallet(w) => c.pc = "applied"
  BY <1>5
<1>7. award' = [award EXCEPT ![w] = award[w]] /\ apply'[w] = c
  BY <1>6 DEF AwardSlotsInv
<1>8. AwardSlotInv(w)'
  <2>1. AwardSlotInv(w)
    BY SlotFields
  <2> QED
    BY <1>2, <1>6, <1>7, <2>1 DEF AwardSlotInv, Deserved, RewardOrder, Order
<1>9. AwardSlotsInv'
  BY <1>6, <1>7, <1>8, OneAwardSlot
<1>10. \A v \in Workers : Unwritten(v)' => Unwritten(v)
  <2>1. Unwritten(w)
    BY <1>1, <1>2 DEF Unwritten
  <2>2. \A v \in Workers : v # w => apply'[v] = apply[v]
    BY <1>6 DEF AwardSlotsInv
  <2> QED
    BY <2>1, <2>2 DEF Unwritten
<1>11. WriteWallet(w) => ~Unwritten(w)'
  BY <1>6, <1>7 DEF Unwritten
<1> QED
  BY <1>2, <1>9, <1>10, <1>11

LEMMA AwardSlotsStep ==
  ASSUME LikesTypeOK, LedgerInv, AwardSlotsInv, [LikeRewardsNext]_likeRewardsVars
  PROVE  AwardSlotsInv'
<1>1. ASSUME UNCHANGED <<award, apply>> PROVE AwardSlotsInv'
  BY <1>1 DEF AwardSlotsInv, AwardSlotInv, Deserved
<1>2. ASSUME NEW w \in Workers, AwardStep(w) PROVE AwardSlotsInv'
  <2>1. CASE CheckAwarded(w)
    BY <2>1, SlotChecked
  <2>2. CASE CheckCap(w)
    BY <2>2, SlotCap
  <2>3. CASE EndAward(w)
    BY <2>3, SlotEnds DEF EndAward, EndApply, Drop
  <2>4. CASE ApplyStep(w) /\ UNCHANGED award
    BY <2>4, SlotApply DEF LedgerInv
  <2> QED
    BY <1>2, <2>1, <2>2, <2>3, <2>4 DEF AwardStep
<1>3. ASSUME CrashAll PROVE AwardSlotsInv'
  <2>1. award' = [w \in Workers |-> NoAward] /\ apply' = [w \in Workers |-> [pc |-> "idle"]]
    BY <1>3 DEF CrashAll, CrashRewards, CrashWallet
  <2>2. [pc |-> "idle"] \in RewardCall
    BY DEF RewardCall
  <2> QED
    BY <2>1, <2>2 DEF AwardSlotsInv, AwardSlotInv, NoAward
<1>4. \/ UNCHANGED <<award, apply>> \/ (\E w \in Workers : AwardStep(w) \/ Reward(w)) \/ CrashAll
      \/ \E w \in Workers, u \in Users, kind \in RewardKinds, ref \in Refs :
           RewardOther(w, u, kind, ref)
  BY DEF LikeRewardsNext, likeRewardsVars, rewardsVars, Toggle, Midnight
<1> QED
  BY <1>1, <1>2, <1>3, <1>4, SlotReward, SlotOthers

-----------------------------------------------------------------------------
\* Steps that leave the ledger and let nobody past the cap.
LEMMA CapQuiet ==
  ASSUME RewardsInv, UNCHANGED <<ledger, day>>,
         \A w \in Workers : Unwritten(w)' => Unwritten(w) /\ award'[w].user = award[w].user
                                               /\ award'[w].kind = award[w].kind
  PROVE  CapInv'
<1> SUFFICES ASSUME NEW u \in Users, NEW kind \in RewardKinds, DailyCap[kind] > 0
             PROVE  Cardinality(RowsToday(u, kind)') + Cardinality(Counting(u, kind)')
                      <= DailyCap[kind] - 1 + Cardinality(Workers)
  BY DEF CapInv
<1> DEFINE bound == DailyCap[kind] - 1 + Cardinality(Workers)
           sum == Cardinality(RowsToday(u, kind)) + Cardinality(Counting(u, kind))
           sum1 == Cardinality(RowsToday(u, kind)') + Cardinality(Counting(u, kind)')
<1>1. RowsToday(u, kind)' \in SUBSET RowsToday(u, kind)
  BY DEF RowsToday
<1>2. Counting(u, kind)' \in SUBSET Counting(u, kind)
  BY DEF Counting
<1>3. sum1 <= sum /\ sum1 \in Nat /\ sum \in Nat
  BY <1>1, <1>2, RowsFinite, SumShrinks DEF RewardsInv
<1>4. sum <= bound
  BY DEF RewardsInv, CapInv
<1>5. bound \in Int
  BY RewardsAssumption, FS_CardinalityType
<1> HIDE DEF bound, sum, sum1
<1>6. sum1 <= bound
  BY <1>3, <1>4, <1>5
<1> QED
  BY <1>6 DEF bound, sum1

\* Steps that leave the ledger and let nobody past the duplicate check.
LEMMA OnceQuiet ==
  ASSUME RewardsInv, NEW n \in Nat, OnceWithin(n), UNCHANGED ledger,
         \A w \in Workers : (award'[w].pc = "cap" /\ award'[w].kind = "like_received") \/ Unwritten(w)' =>
           /\ award[w].pc = "cap" \/ Unwritten(w)
           /\ award'[w].user = award[w].user /\ award'[w].kind = award[w].kind
           /\ award'[w].ref = award[w].ref /\ award'[w].actor = award[w].actor
  PROVE  OnceWithin(n)'
<1> SUFFICES ASSUME NEW u \in Users, NEW actor \in Users, NEW ref \in Refs
             PROVE  Cardinality(LikeRows(u, ref, actor)') + Cardinality(Earning(u, ref, actor)') <= n
  BY DEF OnceWithin
<1> DEFINE sum == Cardinality(LikeRows(u, ref, actor)) + Cardinality(Earning(u, ref, actor))
           sum1 == Cardinality(LikeRows(u, ref, actor)') + Cardinality(Earning(u, ref, actor)')
<1>1. LikeRows(u, ref, actor)' \in SUBSET LikeRows(u, ref, actor)
  BY DEF LikeRows
<1>2. Earning(u, ref, actor)' \in SUBSET Earning(u, ref, actor)
  BY DEF Earning
<1>3. sum1 <= sum /\ sum1 \in Nat /\ sum \in Nat
  BY <1>1, <1>2, RowsFinite, SumShrinks DEF RewardsInv
<1>4. sum <= n
  BY DEF OnceWithin
<1> HIDE DEF sum, sum1
<1>5. sum1 <= n
  BY <1>3, <1>4
<1> QED
  BY <1>5 DEF sum1

\* A reward is let past the cap only below it: the rows of today and one for
\* every request are within the bound.
LEMMA CapChecked ==
  ASSUME RewardsInv, NEW w \in Workers, CheckCap(w)
  PROVE  CapInv'
<1>1. award[w].pc = "cap" /\ award[w] \in Awarding /\ UNCHANGED <<ledger, day>>
  BY SlotFields DEF CheckCap, RewardsInv
<1>2. \/ award' = [award EXCEPT ![w] = NoAward]
      \/ award' = [award EXCEPT ![w].pc = "apply"] /\ ~CapReached(award[w])
  BY SlotCap DEF RewardsInv
<1>3. \A v \in Workers : v # w => award'[v] = award[v] /\ apply'[v] = apply[v]
  BY <1>2 DEF CheckCap, BeginApply, RewardsInv, AwardSlotsInv
<1>4. CASE award' = [award EXCEPT ![w] = NoAward]
  <2>1. ~Unwritten(w)'
    BY <1>4 DEF Unwritten, NoAward, RewardsInv, AwardSlotsInv
  <2> QED
    BY <1>1, <1>3, <2>1, CapQuiet DEF Unwritten
<1>5. ASSUME award' = [award EXCEPT ![w].pc = "apply"], ~CapReached(award[w]),
             NEW u \in Users, NEW kind \in RewardKinds, DailyCap[kind] > 0
      PROVE  Cardinality(RowsToday(u, kind)') + Cardinality(Counting(u, kind)')
               <= DailyCap[kind] - 1 + Cardinality(Workers)
  <2> DEFINE rows == Cardinality(RowsToday(u, kind))
             n == Cardinality(Workers)
  <2>1. RowsToday(u, kind)' = RowsToday(u, kind)
    BY <1>1 DEF RowsToday
  <2>2. IsFiniteSet(RowsToday(u, kind)) /\ rows \in Nat
    BY RowsFinite, FS_CardinalityType DEF RewardsInv
  <2>3. award'[w].user = award[w].user /\ award'[w].kind = award[w].kind
    BY <1>1, <1>5 DEF RewardsInv, AwardSlotsInv, Awarding
  <2>4. CASE u = award[w].user /\ kind = award[w].kind
    <3>1. ~(rows >= DailyCap[kind])
      BY <1>5, <2>4 DEF CapReached, CountToday, RowsToday
    <3>2. Counting(u, kind)' \in SUBSET Workers
      BY DEF Counting
    <3>3. Cardinality(Counting(u, kind)') <= n
      BY <3>2, RewardsAssumption, FS_Subset
    <3>4. Cardinality(Counting(u, kind)') \in Nat /\ n \in Nat
      BY <3>2, RewardsAssumption, FS_Subset, FS_CardinalityType
    <3>5. DailyCap[kind] \in Nat
      BY RewardsAssumption
    <3> HIDE DEF rows, n
    <3>6. rows + Cardinality(Counting(u, kind)') <= DailyCap[kind] - 1 + n
      BY <2>2, <3>1, <3>3, <3>4, <3>5
    <3> QED
      BY <2>1, <3>6 DEF rows, n
  <2>5. CASE ~(u = award[w].user /\ kind = award[w].kind)
    <3>1. Counting(u, kind)' = Counting(u, kind)
      <4>1. w \notin Counting(u, kind)' /\ w \notin Counting(u, kind)
        BY <2>3, <2>5 DEF Counting
      <4>2. \A v \in Workers : v # w => (v \in Counting(u, kind)' <=> v \in Counting(u, kind))
        BY <1>3 DEF Counting, Unwritten
      <4> QED
        BY <4>1, <4>2 DEF Counting
    <3> QED
      BY <1>5, <2>1, <3>1 DEF RewardsInv, CapInv
  <2> QED
    BY <2>4, <2>5
<1> QED
  BY <1>2, <1>4, <1>5 DEF CapInv

\* A like is let past the duplicate check only while it has no row at all.
LEMMA OnceChecked ==
  ASSUME RewardsInv, NEW n \in Nat, OnceWithin(n), EarningWithin(n)',
         NEW w \in Workers, CheckAwarded(w)
  PROVE  OnceWithin(n)'
<1>1. award[w].pc = "dedupe" /\ award[w] \in Awarding /\ UNCHANGED <<ledger, apply>>
  BY SlotFields DEF CheckAwarded, walletVars, RewardsInv
<1>2. \/ award' = [award EXCEPT ![w] = NoAward]
      \/ award' = [award EXCEPT ![w].pc = "cap"] /\ ~AlreadyAwarded(award[w])
  BY DEF CheckAwarded, Drop
<1>3. \A v \in Workers : v # w => award'[v] = award[v] /\ apply'[v] = apply[v]
  BY <1>1, <1>2 DEF RewardsInv, AwardSlotsInv
<1>4. CASE award' = [award EXCEPT ![w] = NoAward]
  <2>1. award'[w].pc = "idle"
    BY <1>4 DEF NoAward, RewardsInv, AwardSlotsInv
  <2> QED
    BY <1>1, <1>3, <2>1, OnceQuiet DEF Unwritten
<1>5. ASSUME award' = [award EXCEPT ![w].pc = "cap"], ~AlreadyAwarded(award[w]),
             NEW u \in Users, NEW actor \in Users, NEW ref \in Refs
      PROVE  Cardinality(LikeRows(u, ref, actor)') + Cardinality(Earning(u, ref, actor)') <= n
  <2>1. LikeRows(u, ref, actor)' = LikeRows(u, ref, actor)
    BY <1>1 DEF LikeRows
  <2>2. /\ award'[w].user = award[w].user /\ award'[w].ref = award[w].ref
        /\ award'[w].actor = award[w].actor
    BY <1>1, <1>5 DEF RewardsInv, AwardSlotsInv, Awarding
  <2>3. CASE u = award[w].user /\ ref = award[w].ref /\ actor = award[w].actor
    <3>1. LikeRows(u, ref, actor) = {}
      BY <1>5, <2>3 DEF AlreadyAwarded
    <3>2. Cardinality(LikeRows(u, ref, actor)) = 0
      BY <3>1, FS_EmptySet
    <3>3. Earning(u, ref, actor)' \in SUBSET Workers
      BY DEF Earning
    <3>4. Cardinality(Earning(u, ref, actor)') \in Nat
      BY <3>3, RewardsAssumption, FS_Subset, FS_CardinalityType
    <3>5. Cardinality(Earning(u, ref, actor)') <= n
      BY DEF EarningWithin
    <3> QED
      BY <2>1, <3>2, <3>4, <3>5
  <2>4. CASE ~(u = award[w].user /\ ref = award[w].ref /\ actor = award[w].actor)
    <3>1. Earning(u, ref, actor)' = Earning(u, ref, actor)
      <4>1. w \notin Earning(u, ref, actor)' /\ w \notin Earning(u, ref, actor)
        BY <2>2, <2>4 DEF Earning
      <4>2. \A v \in Workers : v # w => (v \in Earning(u, ref, actor)' <=> v \in Earning(u, ref, actor))
        BY <1>3 DEF Earning, Unwritten
      <4> QED
        BY <4>1, <4>2 DEF Earning
    <3> QED
      BY <2>1, <3>1 DEF OnceWithin
  <2> QED
    BY <2>3, <2>4
<1> QED
  BY <1>2, <1>4, <1>5 DEF OnceWithin

\* What a commit leaves: one row more for its award, and one call less.
LEMMA CommitEffect ==
  ASSUME RewardsInv, NEW w \in Workers, WriteWallet(w), UNCHANGED award
  PROVE  /\ award[w] \in Awarding /\ Deserved(award[w])
         /\ UNCHANGED day
         /\ Unwritten(w) /\ ~Unwritten(w)' /\ award[w].pc = "apply"
         /\ \A v \in Workers : v # w => (Unwritten(v)' <=> Unwritten(v))
         /\ DOMAIN ledger' = DOMAIN ledger \cup {Len(ledger) + 1}
         /\ \A i \in DOMAIN ledger : ledger'[i] = ledger[i] /\ i # Len(ledger) + 1
         /\ LET row == ledger'[Len(ledger) + 1]
            IN row.user = award[w].user /\ row.kind = award[w].kind
                 /\ row.ref = award[w].ref /\ row.actor = award[w].actor /\ row.day = day
<1>1. UNCHANGED day /\ apply[w].pc = "write"
  BY DEF WriteWallet
<1>2. PICK row \in RewardRow :
        /\ ledger' = Append(ledger, row)
        /\ row.user = award[w].user /\ row.kind = award[w].kind
        /\ row.ref = award[w].ref /\ row.actor = award[w].actor /\ row.day = day
  BY WriteAppends DEF RewardsInv
<1>3. award[w] \in Awarding /\ Deserved(award[w]) /\ Unwritten(w)
  BY WriteAppends DEF RewardsInv
<1>4. /\ Len(ledger) \in Nat
      /\ DOMAIN ledger = 1..Len(ledger) /\ DOMAIN ledger' = 1..(Len(ledger) + 1)
      /\ ledger'[Len(ledger) + 1] = row
      /\ \A i \in DOMAIN ledger : ledger'[i] = ledger[i]
  BY <1>1, <1>2, RowAdded DEF RewardsInv
<1>5. /\ DOMAIN ledger' = DOMAIN ledger \cup {Len(ledger) + 1}
      /\ \A i \in DOMAIN ledger : ledger'[i] = ledger[i] /\ i # Len(ledger) + 1
  BY <1>4
<1>6. ~Unwritten(w)'
  BY SlotApply DEF RewardsInv, LedgerInv, ApplyStep
<1>7. \A v \in Workers : v # w => apply'[v] = apply[v]
  BY DEF WriteWallet, RewardsInv, AwardSlotsInv
<1>8. \A v \in Workers : v # w => (Unwritten(v)' <=> Unwritten(v))
  BY <1>7 DEF Unwritten
<1> QED
  BY <1>1, <1>2, <1>3, <1>4, <1>5, <1>6, <1>8 DEF Unwritten

LEMMA CapCommit ==
  ASSUME RewardsInv, NEW w \in Workers, WriteWallet(w), UNCHANGED award
  PROVE  CapInv'
<1> SUFFICES ASSUME NEW u \in Users, NEW kind \in RewardKinds, DailyCap[kind] > 0
             PROVE  Cardinality(RowsToday(u, kind)') + Cardinality(Counting(u, kind)')
                      <= DailyCap[kind] - 1 + Cardinality(Workers)
  BY DEF CapInv
<1> DEFINE n == Len(ledger) + 1
           R == RowsToday(u, kind)
           P == Counting(u, kind)
           bound == DailyCap[kind] - 1 + Cardinality(Workers)
<1>1. Cardinality(R) + Cardinality(P) <= bound
  BY DEF RewardsInv, CapInv
<1>2. IsFiniteSet(R) /\ IsFiniteSet(P)
  BY RowsFinite DEF RewardsInv
<1>3. CASE award[w].user = u /\ award[w].kind = kind
  <2>1. R' = R \cup {n}
    BY <1>3, CommitEffect DEF RowsToday
  <2>2. P' = P \ {w} /\ w \in P
    BY <1>3, CommitEffect DEF Counting
  <2>3. Cardinality(R') + Cardinality(P') <= Cardinality(R) + Cardinality(P)
    BY <1>2, <2>1, <2>2, SumMoves
  <2>4. IsFiniteSet(R') /\ IsFiniteSet(P')
    BY <1>2, <2>1, <2>2, FS_AddElement, FS_RemoveElement
  <2>5. /\ Cardinality(R) \in Nat /\ Cardinality(P) \in Nat
        /\ Cardinality(R') \in Nat /\ Cardinality(P') \in Nat
    BY <1>2, <2>4, FS_CardinalityType
  <2>6. bound \in Int
    BY RewardsAssumption, FS_CardinalityType
  <2> HIDE DEF R, P, bound
  <2>7. Cardinality(R') + Cardinality(P') <= bound
    BY <1>1, <2>3, <2>5, <2>6
  <2> QED
    BY <2>7 DEF R, P, bound
<1>4. CASE ~(award[w].user = u /\ award[w].kind = kind)
  <2>1. R' = R
    BY <1>4, CommitEffect DEF RowsToday
  <2>2. P' = P
    BY <1>4, CommitEffect DEF Counting
  <2> QED
    BY <1>1, <2>1, <2>2
<1> QED
  BY <1>3, <1>4

LEMMA OnceCommit ==
  ASSUME RewardsInv, NEW m \in Nat, OnceWithin(m), NEW w \in Workers, WriteWallet(w), UNCHANGED award
  PROVE  OnceWithin(m)'
<1> SUFFICES ASSUME NEW u \in Users, NEW actor \in Users, NEW ref \in Refs
             PROVE  Cardinality(LikeRows(u, ref, actor)') + Cardinality(Earning(u, ref, actor)') <= m
  BY DEF OnceWithin
<1> DEFINE n == Len(ledger) + 1
           R == LikeRows(u, ref, actor)
           P == Earning(u, ref, actor)
           mine == /\ award[w].kind = "like_received" /\ award[w].user = u
                   /\ award[w].ref = ref /\ award[w].actor = actor
<1>1. Cardinality(R) + Cardinality(P) <= m
  BY DEF OnceWithin
<1>2. IsFiniteSet(R) /\ IsFiniteSet(P)
  BY RowsFinite DEF RewardsInv
<1>3. CASE mine
  <2>1. R' = R \cup {n}
    BY <1>3, CommitEffect DEF LikeRows
  <2>2. P' = P \ {w} /\ w \in P
    BY <1>3, CommitEffect DEF Earning
  <2>3. Cardinality(R') + Cardinality(P') <= Cardinality(R) + Cardinality(P)
    BY <1>2, <2>1, <2>2, SumMoves
  <2>4. IsFiniteSet(R') /\ IsFiniteSet(P')
    BY <1>2, <2>1, <2>2, FS_AddElement, FS_RemoveElement
  <2>5. /\ Cardinality(R) \in Nat /\ Cardinality(P) \in Nat
        /\ Cardinality(R') \in Nat /\ Cardinality(P') \in Nat
    BY <1>2, <2>4, FS_CardinalityType
  <2> HIDE DEF R, P
  <2>6. Cardinality(R') + Cardinality(P') <= m
    BY <1>1, <2>3, <2>5
  <2> QED
    BY <2>6 DEF R, P
<1>4. CASE ~mine
  <2>1. R' = R
    BY <1>4, CommitEffect DEF LikeRows
  <2>2. P' = P
    BY <1>4, CommitEffect DEF Earning
  <2> QED
    BY <1>1, <2>1, <2>2
<1> QED
  BY <1>3, <1>4

\* The day changes: no row is of the new day.
LEMMA CapMidnight ==
  ASSUME RewardsInv, Midnight(Days), UNCHANGED award
  PROVE  CapInv'
<1> SUFFICES ASSUME NEW u \in Users, NEW kind \in RewardKinds, DailyCap[kind] > 0
             PROVE  Cardinality(RowsToday(u, kind)') + Cardinality(Counting(u, kind)')
                      <= DailyCap[kind] - 1 + Cardinality(Workers)
  BY DEF CapInv
<1>1. ledger' = ledger /\ day' = day + 1 /\ day \in Nat
  BY DEF Midnight, RewardsInv, LedgerInv
<1>2. \A i \in DOMAIN ledger : ledger[i].day <= day /\ ledger[i].day \in Nat
  <2>1. \A i \in DOMAIN ledger : ledger[i] \in RewardRow
    BY DEF RewardsInv, LedgerInv
  <2> QED
    BY <2>1 DEF RewardRow, RewardsInv, LedgerInv
<1>3. RowsToday(u, kind)' = {}
  BY <1>1, <1>2 DEF RowsToday
<1>4. Cardinality(RowsToday(u, kind)') = 0
  BY <1>3, FS_EmptySet
<1>5. Counting(u, kind)' \in SUBSET Workers
  BY DEF Counting
<1>6. /\ Cardinality(Counting(u, kind)') <= Cardinality(Workers)
      /\ Cardinality(Counting(u, kind)') \in Nat /\ Cardinality(Workers) \in Nat
  BY <1>5, RewardsAssumption, FS_Subset, FS_CardinalityType
<1>7. DailyCap[kind] \in Nat
  BY RewardsAssumption
<1> QED
  BY <1>4, <1>6, <1>7

LEMMA AuthorCommit ==
  ASSUME RewardsInv, NEW w \in Workers, WriteWallet(w), UNCHANGED award
  PROVE  LikeXPGoesToAuthor'
<1> SUFFICES ASSUME NEW i \in DOMAIN ledger', ledger'[i].kind = "like_received"
             PROVE  /\ ledger'[i].user = OwnerOf[ledger'[i].ref]
                    /\ ledger'[i].actor # ledger'[i].user
                    /\ ledger'[i].ref \notin AnonTargets
  BY DEF LikeXPGoesToAuthor
<1>1. CASE i \in DOMAIN ledger
  <2>1. ledger'[i] = ledger[i]
    BY <1>1, CommitEffect
  <2> QED
    BY <1>1, <2>1 DEF RewardsInv, LikeXPGoesToAuthor
<1>2. CASE i = Len(ledger) + 1
  BY <1>2, CommitEffect DEF Deserved
<1>3. i \in DOMAIN ledger \/ i = Len(ledger) + 1
  BY CommitEffect
<1> QED
  BY <1>1, <1>2, <1>3

\* Steps that start or end awards, or no more than read: they leave the ledger.
LEMMA QuietAwardStep ==
  ASSUME RewardsInv, NEW n \in Nat, OnceWithin(n), UNCHANGED <<ledger, day>>,
         \A v \in Workers :
           \/ award'[v].pc \in {"idle", "dedupe"}
           \/ award'[v].pc = "cap" /\ award'[v].kind # "like_received"
           \/ /\ award'[v] = award[v]
              /\ Unwritten(v)' => Unwritten(v)
  PROVE  CapInv' /\ OnceWithin(n)' /\ LikeXPGoesToAuthor'
<1>1. CapInv'
  BY CapQuiet DEF Unwritten
<1>2. OnceWithin(n)'
  BY OnceQuiet DEF Unwritten
<1>3. LikeXPGoesToAuthor'
  BY DEF RewardsInv, LikeXPGoesToAuthor
<1> QED
  BY <1>1, <1>2, <1>3

LEMMA BoundsAtWork ==
  ASSUME RewardsInv, NEW n \in Nat, OnceWithin(n), EarningWithin(n)', NEW w \in Workers, AwardStep(w)
  PROVE  CapInv' /\ OnceWithin(n)' /\ LikeXPGoesToAuthor'
<1>1. CASE CheckAwarded(w)
  <2>1. UNCHANGED <<ledger, day, apply>> /\ award[w].pc = "dedupe" /\ award[w] \in Awarding
    BY <1>1, SlotFields DEF CheckAwarded, walletVars, RewardsInv
  <2>2. \A v \in Workers : v # w => award'[v] = award[v]
    BY <1>1 DEF CheckAwarded, Drop, RewardsInv, AwardSlotsInv
  <2>3. award'[w].pc \in {"idle", "cap"}
    BY <1>1, <2>1 DEF CheckAwarded, Drop, NoAward, RewardsInv, AwardSlotsInv, Awarding
  <2>4. CapInv'
    BY <2>1, <2>2, <2>3, CapQuiet DEF Unwritten
  <2>5. LikeXPGoesToAuthor'
    BY <2>1 DEF RewardsInv, LikeXPGoesToAuthor
  <2> QED
    BY <1>1, <2>4, <2>5, OnceChecked
<1>2. CASE CheckCap(w)
  <2>1. UNCHANGED <<ledger, day>> /\ award[w].pc = "cap" /\ award[w] \in Awarding
    BY <1>2, SlotFields DEF CheckCap, RewardsInv
  <2>2. \A v \in Workers : v # w => award'[v] = award[v] /\ apply'[v] = apply[v]
    BY <1>2 DEF CheckCap, BeginApply, Drop, RewardsInv, AwardSlotsInv
  <2>3. award'[w].pc = "idle"
          \/ /\ award'[w].user = award[w].user /\ award'[w].kind = award[w].kind
             /\ award'[w].ref = award[w].ref /\ award'[w].actor = award[w].actor
    BY <1>2, <2>1 DEF CheckCap, Drop, NoAward, RewardsInv, AwardSlotsInv, Awarding
  <2>4. OnceWithin(n)'
    BY <2>1, <2>2, <2>3, OnceQuiet DEF Unwritten
  <2>5. LikeXPGoesToAuthor'
    BY <2>1 DEF RewardsInv, LikeXPGoesToAuthor
  <2> QED
    BY <1>2, <2>4, <2>5, CapChecked
<1>3. CASE EndAward(w)
  <2>1. \A v \in Workers : v # w => award'[v] = award[v] /\ apply'[v] = apply[v]
    BY <1>3 DEF EndAward, EndApply, Drop, RewardsInv, AwardSlotsInv
  <2>2. award'[w].pc = "idle"
    BY <1>3 DEF EndAward, Drop, NoAward, RewardsInv, AwardSlotsInv
  <2> QED
    BY <1>3, <2>1, <2>2, QuietAwardStep DEF EndAward, Unwritten
<1>4. CASE ReadWallet(w) /\ UNCHANGED award
  <2>1. \A v \in Workers : Unwritten(v)' => Unwritten(v)
    BY <1>4, SlotApply DEF ApplyStep, RewardsInv, LedgerInv
  <2> QED
    BY <1>4, <2>1, QuietAwardStep DEF ReadWallet
<1>5. CASE WriteWallet(w) /\ UNCHANGED award
  BY <1>5, CapCommit, OnceCommit, AuthorCommit
<1> QED
  BY <1>1, <1>2, <1>3, <1>4, <1>5 DEF AwardStep, ApplyStep

LEMMA BoundsStep ==
  ASSUME RewardsInv, NEW n \in Nat, OnceWithin(n), EarningWithin(n)', [LikeRewardsNext]_likeRewardsVars
  PROVE  CapInv' /\ OnceWithin(n)' /\ LikeXPGoesToAuthor'
<1>1. ASSUME UNCHANGED rewardsVars PROVE CapInv' /\ OnceWithin(n)' /\ LikeXPGoesToAuthor'
  BY <1>1, QuietAwardStep DEF rewardsVars, Unwritten
<1>2. ASSUME NEW w \in Workers, Reward(w) PROVE CapInv' /\ OnceWithin(n)' /\ LikeXPGoesToAuthor'
  <2>1. CASE UNCHANGED rewardsVars
    BY <1>1, <2>1
  <2>2. CASE BeginLikeAward(w, OwnerOf[toggle[w].target], toggle[w].target, toggle[w].user)
    <3>1. UNCHANGED <<ledger, day, apply>>
      BY <2>2 DEF BeginLikeAward, walletVars
    <3>2. award'[w].pc = "dedupe" /\ \A v \in Workers : v # w => award'[v] = award[v]
      BY <2>2 DEF BeginLikeAward, RewardsInv, AwardSlotsInv
    <3> QED
      BY <3>1, <3>2, QuietAwardStep DEF Unwritten
  <2> QED
    BY <1>2, <2>1, <2>2 DEF Reward
<1>3. ASSUME NEW w \in Workers, NEW u \in Users, NEW kind \in RewardKinds, NEW ref \in Refs,
             RewardOther(w, u, kind, ref)
      PROVE  CapInv' /\ OnceWithin(n)' /\ LikeXPGoesToAuthor'
  <2>1. UNCHANGED <<ledger, day, apply>>
    BY <1>3 DEF RewardOther, BeginAward, walletVars
  <2>2. /\ award'[w].pc = "cap" /\ award'[w].kind # "like_received"
        /\ \A v \in Workers : v # w => award'[v] = award[v]
    BY <1>3 DEF RewardOther, BeginAward, RewardsInv, AwardSlotsInv
  <2> QED
    BY <2>1, <2>2, QuietAwardStep DEF Unwritten
<1>4. ASSUME Midnight(Days), UNCHANGED award PROVE CapInv' /\ OnceWithin(n)' /\ LikeXPGoesToAuthor'
  <2>1. UNCHANGED <<ledger, apply>>
    BY <1>4 DEF Midnight
  <2>2. OnceWithin(n)'
    BY <1>4, <2>1, OnceQuiet DEF Unwritten
  <2>3. LikeXPGoesToAuthor'
    BY <2>1 DEF RewardsInv, LikeXPGoesToAuthor
  <2> QED
    BY <1>4, <2>2, <2>3, CapMidnight
<1>5. ASSUME CrashAll PROVE CapInv' /\ OnceWithin(n)' /\ LikeXPGoesToAuthor'
  <2>1. UNCHANGED <<ledger, day>> /\ \A v \in Workers : award'[v].pc = "idle"
    BY <1>5 DEF CrashAll, CrashRewards, CrashWallet, NoAward
  <2> QED
    BY <2>1, QuietAwardStep
<1> QED
  BY <1>1, <1>2, <1>3, <1>4, <1>5, BoundsAtWork
     DEF LikeRewardsNext, likeRewardsVars, Toggle

LEMMA RewardsInvInit == LikeRewardsInit => RewardsInv
<1> SUFFICES ASSUME LikeRewardsInit PROVE RewardsInv
  OBVIOUS
<1>1. /\ wallet = [u \in Users |-> [credits |-> Start, xp |-> 0]] /\ ledger = <<>> /\ day = 0
      /\ apply = [w \in Workers |-> [pc |-> "idle"]] /\ award = [w \in Workers |-> NoAward]
  BY DEF LikeRewardsInit, RewardsInit, WalletInit
<1>2. LedgerInv
  BY <1>1, WalletAssumption DEF LedgerInv, Balance
<1>3. AwardSlotsInv
  <2>1. [pc |-> "idle"] \in RewardCall
    BY DEF RewardCall
  <2> QED
    BY <1>1, <2>1 DEF AwardSlotsInv, AwardSlotInv, NoAward
<1>4. Cardinality({}) = 0 /\ Cardinality(Workers) \in Nat
  BY FS_EmptySet, RewardsAssumption, FS_CardinalityType
<1>5. CapInv
  <2>1. \A u, kind : RowsToday(u, kind) = {} /\ Counting(u, kind) = {}
    BY <1>1 DEF RowsToday, Counting, Unwritten, NoAward
  <2>2. \A kind \in RewardKinds : DailyCap[kind] \in Nat
    BY RewardsAssumption
  <2>3. ASSUME NEW kind \in RewardKinds, DailyCap[kind] > 0
        PROVE  0 + 0 <= DailyCap[kind] - 1 + Cardinality(Workers)
    BY <1>4, <2>2, <2>3
  <2>4. \A u, kind : Cardinality(RowsToday(u, kind)) = 0 /\ Cardinality(Counting(u, kind)) = 0
    BY <1>4, <2>1
  <2> QED
    BY <2>3, <2>4 DEF CapInv
<1>6. OnceInv
  <2>1. \A u, ref, actor : LikeRows(u, ref, actor) = {} /\ Earning(u, ref, actor) = {}
    BY <1>1 DEF LikeRows, Earning, Unwritten, NoAward
  <2> QED
    BY <1>4, <2>1 DEF OnceInv, OnceWithin
<1> QED
  BY <1>1, <1>2, <1>3, <1>5, <1>6 DEF RewardsInv, LikeXPGoesToAuthor

LEMMA BoundsHold == RewardsInv => RewardsKept
<1> SUFFICES ASSUME RewardsInv PROVE RewardsKept
  OBVIOUS
<1>1. CapNearlyHeld
  <2> SUFFICES ASSUME NEW u \in Users, NEW kind \in RewardKinds, DailyCap[kind] > 0
               PROVE  CountToday(u, kind) <= DailyCap[kind] - 1 + Cardinality(Workers)
    BY DEF CapNearlyHeld
  <2> DEFINE bound == DailyCap[kind] - 1 + Cardinality(Workers)
             rows == Cardinality(RowsToday(u, kind))
  <2>1. rows + Cardinality(Counting(u, kind)) <= bound
    BY DEF RewardsInv, CapInv
  <2>2. rows \in Nat /\ Cardinality(Counting(u, kind)) \in Nat
    BY RowsFinite, FS_CardinalityType DEF RewardsInv
  <2>3. bound \in Int
    BY RewardsAssumption, FS_CardinalityType
  <2>4. CountToday(u, kind) = rows
    BY DEF CountToday, RowsToday
  <2> HIDE DEF bound, rows
  <2>5. rows <= bound
    BY <2>1, <2>2, <2>3
  <2> QED
    BY <2>4, <2>5 DEF bound
<1>2. LikeRewardsBounded
  <2> SUFFICES ASSUME NEW u \in Users, NEW actor \in Users, NEW ref \in Refs
               PROVE  Cardinality(LikeRows(u, ref, actor)) <= Cardinality(Workers)
    BY DEF LikeRewardsBounded
  <2>1. Cardinality(LikeRows(u, ref, actor)) + Cardinality(Earning(u, ref, actor)) <= Cardinality(Workers)
    BY DEF RewardsInv, OnceInv, OnceWithin
  <2>2. Cardinality(LikeRows(u, ref, actor)) \in Nat /\ Cardinality(Earning(u, ref, actor)) \in Nat
    BY RowsFinite, FS_CardinalityType DEF RewardsInv
  <2>3. Cardinality(Workers) \in Nat
    BY RewardsAssumption, FS_CardinalityType
  <2> QED
    BY <2>1, <2>2, <2>3
<1> QED
  BY <1>1, <1>2 DEF RewardsKept, RewardsInv

LEMMA EveryoneEarning ==
  ASSUME AwardSlotsInv'
  PROVE  EarningWithin(Cardinality(Workers))' /\ Cardinality(Workers) \in Nat
<1>1. Cardinality(Workers) \in Nat
  BY RewardsAssumption, FS_CardinalityType
<1>2. ASSUME NEW u \in Users, NEW actor \in Users, NEW ref \in Refs
      PROVE  Cardinality(Earning(u, ref, actor)') <= Cardinality(Workers)
  <2>1. Earning(u, ref, actor)' \in SUBSET Workers
    BY DEF Earning
  <2> QED
    BY <2>1, RewardsAssumption, FS_Subset
<1> QED
  BY <1>1, <1>2 DEF EarningWithin

\* Both hold in every reachable state: who likes, and what likes bring.
LEMMA BothInvStep ==
  ASSUME LikesInv, RewardsInv, [LikeRewardsNext]_likeRewardsVars
  PROVE  LikesInv' /\ RewardsInv'
<1>1. LikesInv'
  BY LikesInvStep
<1>2. LedgerInv' /\ AwardSlotsInv'
  BY LedgerStep, AwardSlotsStep DEF LikesInv, RewardsInv
<1>3. CapInv' /\ OnceInv' /\ LikeXPGoesToAuthor'
  <2> DEFINE n == Cardinality(Workers)
  <2>1. n \in Nat /\ EarningWithin(n)' /\ OnceWithin(n)
    BY <1>2, EveryoneEarning DEF RewardsInv, OnceInv
  <2> HIDE DEF n
  <2>2. CapInv' /\ OnceWithin(n)' /\ LikeXPGoesToAuthor'
    BY <2>1, BoundsStep
  <2> QED
    BY <2>2 DEF n, OnceInv
<1> QED
  BY <1>1, <1>2, <1>3 DEF RewardsInv

\* For any number of users, targets, overlapping requests, days and restarts: a
\* reward passes its daily cap by the overlapping calls at most, a like is
\* rewarded at most once for each of them, and its XP goes to the author of
\* signed content from somebody else.
THEOREM RewardsSafe == LikeRewardsSpec => []RewardsKept
<1>1. LikeRewardsInit => LikesInv /\ RewardsInv
  BY LikesInvInit, RewardsInvInit DEF LikeRewardsInit
<1>2. RewardsInv => RewardsKept
  BY BoundsHold
<1> QED
  BY <1>1, <1>2, BothInvStep, PTL DEF LikeRewardsSpec

-----------------------------------------------------------------------------
(* Requests that come one by one.                                          *)

\* At most one request is at work.
AloneInv == \A v, w \in AtWork : v = w

\* The like a request looked up and is about to delete is still there.
FoundStays ==
  \A w \in Workers : toggle[w].pc = "delete" =>
    \E l \in likes : l.id = toggle[w].row /\ l.target = toggle[w].target

\* The reward rows of a like and those still to be written are one at most.
OnceAlone == OnceWithin(1)

ApartInv ==
  /\ overlap \in BOOLEAN
  /\ ~overlap => AloneInv /\ FoundStays /\ LikeCountExact /\ OnceAlone

LEMMA Attending ==
  ASSUME LikesTypeOK, AwardSlotsInv, NEW w \in Workers
  PROVE  /\ toggle[w].pc # "idle" \/ award[w].pc # "idle" => w \in AtWork
         /\ Unwritten(w) => w \in AtWork
BY DEF AtWork, Idle, NoAward, Unwritten

\* Who is at work changes by one request, but for restarts, which end them all.
LEMMA AtWorkMoves ==
  ASSUME LikesTypeOK, AwardSlotsInv, [LikeRewardsNext]_likeRewardsVars
  PROVE  AtWork' \subseteq AtWork \/ \E w \in Workers : AtWork' \subseteq AtWork \cup {w}
<1>1. ASSUME NEW w \in Workers, \A v \in Workers : v # w => toggle'[v] = toggle[v] /\ award'[v] = award[v]
      PROVE  AtWork' \subseteq AtWork \cup {w}
  BY <1>1 DEF AtWork
<1>2. ASSUME UNCHANGED <<toggle, award>> PROVE AtWork' \subseteq AtWork
  BY <1>2 DEF AtWork
<1>3. ASSUME CrashAll PROVE AtWork' \subseteq AtWork
  BY <1>3 DEF CrashAll, CrashRewards, AtWork
<1>4. ASSUME NEW w \in Workers, Toggle(w)
      PROVE  \A v \in Workers : v # w => toggle'[v] = toggle[v] /\ award'[v] = award[v]
  <2>1. UNCHANGED award
    BY <1>4 DEF Toggle, rewardsVars
  <2>2. \A v \in Workers : v # w => toggle'[v] = toggle[v]
    BY <1>4 DEF Toggle, ToggleStep, Lookup, DeleteLike, InsertLike, InsertRefused, ReadTarget, Done,
                LikesTypeOK
  <2> QED
    BY <2>1, <2>2
<1>5. ASSUME NEW w \in Workers, AwardStep(w), UNCHANGED likesVars
      PROVE  \A v \in Workers : v # w => toggle'[v] = toggle[v] /\ award'[v] = award[v]
  <2>1. UNCHANGED toggle
    BY <1>5 DEF likesVars
  <2>2. \A v \in Workers : v # w => award'[v] = award[v]
    BY <1>5 DEF AwardStep, CheckAwarded, CheckCap, EndAward, Drop, AwardSlotsInv
  <2> QED
    BY <2>1, <2>2
<1>6. ASSUME NEW w \in Workers, Reward(w)
      PROVE  \A v \in Workers : v # w => toggle'[v] = toggle[v] /\ award'[v] = award[v]
  BY <1>6 DEF Reward, TellOwner, Done, BeginLikeAward, rewardsVars, LikesTypeOK, AwardSlotsInv
<1>7. ASSUME NEW w \in Workers, NEW u \in Users, NEW kind \in RewardKinds, NEW ref \in Refs,
             RewardOther(w, u, kind, ref)
      PROVE  \A v \in Workers : v # w => toggle'[v] = toggle[v] /\ award'[v] = award[v]
  BY <1>7 DEF RewardOther, BeginAward, likesVars, AwardSlotsInv
<1>8. ASSUME NEW t \in Targets, DeleteTarget(t), UNCHANGED rewardsVars
      PROVE  UNCHANGED <<toggle, award>>
  BY <1>8 DEF DeleteTarget, rewardsVars
<1>9. ASSUME Midnight(Days), UNCHANGED <<award, likesVars>> PROVE UNCHANGED <<toggle, award>>
  BY <1>9 DEF likesVars
<1>10. ASSUME UNCHANGED likeRewardsVars PROVE UNCHANGED <<toggle, award>>
  BY <1>10 DEF likeRewardsVars, likesVars, rewardsVars
<1> QED
  BY <1>1, <1>2, <1>3, <1>4, <1>5, <1>6, <1>7, <1>8, <1>9, <1>10 DEF LikeRewardsNext

LEMMA AloneStep ==
  ASSUME LikesTypeOK, AwardSlotsInv, [LikeRewardsNext]_likeRewardsVars, AloneInv, ~BeginsBesideOthers
  PROVE  AloneInv'
<1>1. CASE AtWork' \subseteq AtWork
  BY <1>1 DEF AloneInv
<1>2. CASE AtWork = {}
  <2>1. PICK w : AtWork' \subseteq {w}
    BY <1>2, AtWorkMoves
  <2> QED
    BY <2>1 DEF AloneInv
<1> QED
  BY <1>1, <1>2 DEF BeginsBesideOthers

\* Nobody takes the like away between the SELECT and the DELETE of a request.
LEMMA FoundStep ==
  ASSUME LikesInv, [LikeRewardsNext]_likeRewardsVars, AloneInv, FoundStays
  PROVE  FoundStays'
<1> SUFFICES ASSUME NEW v \in Workers, toggle'[v].pc = "delete"
             PROVE  \E l \in likes' : l.id = toggle'[v].row /\ l.target = toggle'[v].target
  BY DEF FoundStays
<1> USE DEF LikesInv, LikesTypeOK
<1>1. ASSUME likes \subseteq likes', toggle'[v] = toggle[v]
      PROVE  \E l \in likes' : l.id = toggle'[v].row /\ l.target = toggle'[v].target
  BY <1>1 DEF FoundStays
<1>2. ASSUME NEW w \in Workers, NEW u \in Users, NEW t \in Targets, Lookup(w, u, t)
      PROVE  \E l \in likes' : l.id = toggle'[v].row /\ l.target = toggle'[v].target
  <2>1. CASE v = w
    BY <1>2, <2>1 DEF Lookup, LikesOf
  <2>2. CASE v # w
    BY <1>1, <1>2, <2>2 DEF Lookup
  <2> QED
    BY <2>1, <2>2
<1>3. ASSUME NEW w \in Workers, DeleteLike(w) PROVE FALSE
  <2>1. toggle[w].pc = "delete" /\ toggle' = [toggle EXCEPT ![w] = Idle]
    BY <1>3 DEF DeleteLike, Done
  <2>2. v # w
    BY <2>1 DEF Idle
  <2>3. toggle[v].pc = "delete"
    BY <2>1, <2>2
  <2>4. v \in AtWork /\ w \in AtWork
    BY <2>1, <2>3 DEF AtWork, Idle
  <2> QED
    BY <2>2, <2>4 DEF AloneInv
<1>4. ASSUME NEW w \in Workers, InsertLike(w)
      PROVE  likes \subseteq likes' /\ toggle'[v] = toggle[v]
  <2>1. toggle[w] \in Toggling
    BY <1>4, TogglingFields DEF InsertLike
  <2> QED
    BY <1>4, <2>1 DEF InsertLike, Toggling
<1>5. ASSUME NEW w \in Workers, InsertRefused(w) \/ ReadTarget(w) \/ TellOwner(w)
      PROVE  likes \subseteq likes' /\ toggle'[v] = toggle[v]
  <2>1. likes' = likes
    BY <1>5 DEF InsertRefused, ReadTarget, TellOwner
  <2>2. toggle[w] \in Toggling
    BY <1>5, TogglingFields DEF InsertRefused, ReadTarget, TellOwner
  <2>3. \/ toggle' = [toggle EXCEPT ![w] = Idle]
        \/ toggle' = [toggle EXCEPT ![w].pc = "tell"]
    BY <1>5 DEF InsertRefused, ReadTarget, TellOwner, Done
  <2>4. v # w
    BY <2>2, <2>3 DEF Idle, Toggling
  <2> QED
    BY <2>1, <2>3, <2>4
<1>6. ASSUME CrashAll PROVE FALSE
  BY <1>6 DEF CrashAll, Idle
<1>7. ASSUME UNCHANGED <<likes, toggle>>
      PROVE  likes \subseteq likes' /\ toggle'[v] = toggle[v]
  BY <1>7
<1>8. \/ \E w \in Workers :
           \/ \E u \in Users, t \in Targets : Lookup(w, u, t)
           \/ DeleteLike(w) \/ InsertLike(w)
           \/ InsertRefused(w) \/ ReadTarget(w) \/ TellOwner(w)
      \/ CrashAll \/ UNCHANGED <<likes, toggle>>
  BY DEF LikeRewardsNext, likeRewardsVars, likesVars, Toggle, ToggleStep, Reward, RewardOther,
         DeleteTarget
<1> QED
  BY <1>1, <1>2, <1>3, <1>4, <1>5, <1>6, <1>7, <1>8

\* A like adds a row and one to the counter; so does an unlike that finds its row
\* take one from each.
LEMMA ExactInsert ==
  ASSUME LikesInv, LikeCountExact, NEW w \in Workers, InsertLike(w), NEW t \in Targets
  PROVE  likeCount'[t] = Cardinality(LikesOf(t)')
<1> DEFINE row == [id |-> nextId, user |-> toggle[w].user, target |-> toggle[w].target]
<1>1. IsFiniteSet(LikesOf(t))
  BY FS_Subset DEF LikesInv, LikesOf
<1>2. likeCount[t] = Cardinality(LikesOf(t))
  BY DEF LikeCountExact
<1>3. CASE t = toggle[w].target
  <2>1. LikesOf(t)' = LikesOf(t) \cup {row} /\ row \notin LikesOf(t)
    BY <1>3, InsertLikeRows DEF LikesOf
  <2>2. Cardinality(LikesOf(t) \cup {row}) = Cardinality(LikesOf(t)) + 1
    BY <1>1, <2>1, FS_AddElement
  <2>3. likeCount'[t] = likeCount[t] + 1
    BY <1>3 DEF InsertLike, LikesInv, LikesTypeOK
  <2> QED
    BY <1>2, <2>1, <2>2, <2>3
<1>4. CASE t # toggle[w].target
  <2>1. LikesOf(t)' = LikesOf(t)
    BY <1>4, InsertLikeRows
  <2>2. likeCount'[t] = likeCount[t]
    BY <1>4 DEF InsertLike, LikesInv, LikesTypeOK
  <2> QED
    BY <1>2, <2>1, <2>2
<1> QED
  BY <1>3, <1>4

LEMMA ExactDelete ==
  ASSUME LikesInv, LikeCountExact, FoundStays, NEW w \in Workers, DeleteLike(w), NEW t \in Targets
  PROVE  likeCount'[t] = Cardinality(LikesOf(t)')
<1>1. likeCount[t] = Cardinality(LikesOf(t)) /\ likeCount[t] \in Int
  BY DEF LikeCountExact, LikesInv, LikesTypeOK
<1>2. LikesOf(t)' = {l \in LikesOf(t) : l.id # toggle[w].row}
  BY DEF DeleteLike, LikesOf
<1>3. PICK l \in likes : l.id = toggle[w].row /\ l.target = toggle[w].target
  BY DEF FoundStays, DeleteLike
<1>4. \A k \in likes : k.id = toggle[w].row => k = l
  BY <1>3 DEF LikesInv, KeysInv
<1>5. CASE t = toggle[w].target
  <2>1. l \in LikesOf(t) /\ LikesOf(t)' = LikesOf(t) \ {l}
    BY <1>2, <1>3, <1>4, <1>5 DEF LikesOf
  <2>2. IsFiniteSet(LikesOf(t))
    BY FS_Subset DEF LikesInv, LikesOf
  <2>3. Cardinality(LikesOf(t) \ {l}) = Cardinality(LikesOf(t)) - 1
    BY <2>1, <2>2, FS_RemoveElement
  <2>4. likeCount'[t] = likeCount[t] - 1
    BY <1>5 DEF DeleteLike, LikesInv, LikesTypeOK
  <2> QED
    BY <1>1, <2>1, <2>3, <2>4
<1>6. CASE t # toggle[w].target
  <2>1. LikesOf(t)' = LikesOf(t)
    BY <1>2, <1>3, <1>4, <1>6 DEF LikesOf
  <2>2. likeCount'[t] = likeCount[t]
    BY <1>6 DEF DeleteLike, LikesInv, LikesTypeOK
  <2> QED
    BY <1>1, <2>1, <2>2
<1> QED
  BY <1>5, <1>6

LEMMA ExactStep ==
  ASSUME LikesInv, [LikeRewardsNext]_likeRewardsVars, LikeCountExact, FoundStays
  PROVE  LikeCountExact'
<1>1. ASSUME likes' = likes, likeCount' = likeCount PROVE LikeCountExact'
  BY <1>1 DEF LikeCountExact, LikesOf
<1>2. ASSUME NEW w \in Workers, DeleteLike(w) PROVE LikeCountExact'
  BY <1>2, ExactDelete DEF LikeCountExact
<1>3. ASSUME NEW w \in Workers, InsertLike(w) PROVE LikeCountExact'
  BY <1>3, ExactInsert DEF LikeCountExact
<1> QED
  BY <1>1, <1>2, <1>3
     DEF LikeRewardsNext, Toggle, ToggleStep, Lookup, InsertRefused, ReadTarget, Reward, TellOwner,
         RewardOther, DeleteTarget, CrashAll, likeRewardsVars, likesVars

\* Alone, a call past the duplicate check is the only one.
LEMMA AloneEarning ==
  ASSUME LikesTypeOK, AwardSlotsInv, AloneInv
  PROVE  EarningWithin(1)
<1> SUFFICES ASSUME NEW u \in Users, NEW actor \in Users, NEW ref \in Refs
             PROVE  Cardinality(Earning(u, ref, actor)) <= 1
  BY DEF EarningWithin
<1>1. Earning(u, ref, actor) \subseteq AtWork
  BY Attending DEF Earning
<1>2. CASE Earning(u, ref, actor) = {}
  BY <1>2, FS_EmptySet
<1>3. ASSUME NEW w \in Earning(u, ref, actor) PROVE Cardinality(Earning(u, ref, actor)) <= 1
  <2>1. Earning(u, ref, actor) = {w}
    BY <1>1, <1>3 DEF AloneInv
  <2>2. Cardinality({w}) = 1
    BY FS_Singleton
  <2> QED
    BY <2>1, <2>2
<1> QED
  BY <1>2, <1>3

LEMMA OnceAloneStep ==
  ASSUME RewardsInv, [LikeRewardsNext]_likeRewardsVars, OnceAlone,
         LikesTypeOK', AwardSlotsInv', AloneInv'
  PROVE  OnceAlone'
<1>1. EarningWithin(1)'
  BY AloneEarning, PTL
<1> QED
  BY <1>1, BoundsStep DEF OnceAlone

LEMMA ApartStep ==
  ASSUME LikesInv, RewardsInv, ApartInv, [ApartNext]_apartVars
  PROVE  ApartInv'
<1>1. [LikeRewardsNext]_likeRewardsVars /\ LikesInv' /\ RewardsInv'
  BY BothInvStep DEF ApartNext, apartVars
<1>2. overlap' \in BOOLEAN
  BY Zenon DEF ApartInv, ApartNext, apartVars
<1>3. ASSUME UNCHANGED apartVars PROVE ApartInv'
  BY <1>3 DEF apartVars, likeRewardsVars, likesVars, rewardsVars, ApartInv, AloneInv, AtWork,
              FoundStays, LikeCountExact, LikesOf, OnceAlone, OnceWithin, LikeRows, Earning, Unwritten
<1>4. ASSUME ApartNext, ~overlap'
      PROVE  AloneInv' /\ FoundStays' /\ LikeCountExact' /\ OnceAlone'
  <2>1. ~overlap /\ ~BeginsBesideOthers
    BY <1>4, Zenon DEF ApartNext, ApartInv
  <2>2. AloneInv /\ FoundStays /\ LikeCountExact /\ OnceAlone
    BY <2>1 DEF ApartInv
  <2>3. LikesTypeOK /\ AwardSlotsInv /\ LikesTypeOK' /\ AwardSlotsInv'
    BY <1>1 DEF LikesInv, RewardsInv
  <2>4. AloneInv'
    BY <1>1, <2>1, <2>2, <2>3, AloneStep
  <2> QED
    BY <1>1, <2>2, <2>3, <2>4, FoundStep, ExactStep, OnceAloneStep
<1> QED
  BY <1>2, <1>3, <1>4, Zenon DEF ApartInv

LEMMA ApartInvInit == ApartInit => ApartInv
<1> SUFFICES ASSUME ApartInit PROVE ApartInv
  OBVIOUS
<1>1. /\ toggle = [w \in Workers |-> Idle] /\ likes = {} /\ likeCount = [t \in Targets |-> 0]
      /\ ledger = <<>> /\ award = [w \in Workers |-> NoAward]
  BY DEF ApartInit, LikeRewardsInit, LikesInit, RewardsInit, WalletInit
<1>2. AloneInv /\ FoundStays
  BY <1>1 DEF AloneInv, AtWork, FoundStays, Idle
<1>3. Cardinality({}) = 0
  BY FS_EmptySet
<1>4. LikeCountExact
  BY <1>1, <1>3 DEF LikeCountExact, LikesOf
<1>5. \A u, ref, actor : LikeRows(u, ref, actor) = {} /\ Earning(u, ref, actor) = {}
  BY <1>1 DEF LikeRows, Earning, Unwritten, NoAward
<1>6. OnceAlone
  BY <1>3, <1>5 DEF OnceAlone, OnceWithin
<1> QED
  BY <1>2, <1>4, <1>6 DEF ApartInv, ApartInit

LEMMA OnceAloneRows == ASSUME RewardsInv, OnceAlone PROVE LikeRewardedOnce
<1> SUFFICES ASSUME NEW u \in Users, NEW actor \in Users, NEW ref \in Refs
             PROVE  Cardinality(LikeRows(u, ref, actor)) <= 1
  BY DEF LikeRewardedOnce
<1>1. Cardinality(LikeRows(u, ref, actor)) + Cardinality(Earning(u, ref, actor)) <= 1
  BY DEF OnceAlone, OnceWithin
<1>2. Cardinality(LikeRows(u, ref, actor)) \in Nat /\ Cardinality(Earning(u, ref, actor)) \in Nat
  BY RowsFinite, FS_CardinalityType DEF RewardsInv
<1> QED
  BY <1>1, <1>2

\* Requests that come one by one, restarts in between or not: like_count is the
\* number of like rows, and however often likes are given and taken back nobody
\* is rewarded twice for one liker of one topic or post.
THEOREM LikesExactApartSafe == ApartSpec => []LikesExactApart
<1>1. ApartInit => LikesInv /\ RewardsInv /\ ApartInv
  BY LikesInvInit, RewardsInvInit, ApartInvInit DEF ApartInit, LikeRewardsInit
<1>2. LikesInv /\ RewardsInv /\ ApartInv /\ [ApartNext]_apartVars
        => LikesInv' /\ RewardsInv' /\ ApartInv'
  BY BothInvStep, ApartStep DEF ApartNext, apartVars
<1>3. RewardsInv /\ ApartInv => LikesExactApart
  BY OnceAloneRows
     DEF ApartInv, LikesExactApart, LikeCountExactApart, LikeRewardedOnceApart
<1> QED
  BY <1>1, <1>2, <1>3, PTL DEF ApartSpec
=============================================================================
