SPECIFICATION OverlapSpec
CONSTANTS
  w1 = w1
  w2 = w2
  ann = ann
  bob = bob
  Users = {ann, bob}
  Admins = {ann}
  Workers = {w1, w2}
  Serves <- AnyWallet
  Start = 2
  Cost = 2
  Penalty = 1
  Adjustments <- Movements
  MaxRows = 3
  MaxCrashes = 1
INVARIANTS LedgerChains
PROPERTIES AccountSpec
CHECK_DEADLOCK FALSE
