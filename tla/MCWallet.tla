------------------------------ MODULE MCWallet ------------------------------
(* A small instance of WalletOverlap. *)
EXTENDS WalletOverlap, TLC

CONSTANTS w1, w2, ann, bob

\* Takes credits and XP, gives XP.
Movements == {<<-1, -1>>, <<1, 0>>}

AnyWallet == [w \in Workers |-> Users]
=============================================================================
