--------------------------- MODULE MCTranslation ---------------------------
(* Small instances of Translation. *)
EXTENDS Translation, TLC

NoAdjustments == {}
AnyWallet == [w \in Workers |-> Users]

=============================================================================
