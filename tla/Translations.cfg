SPECIFICATION FairTranslationSpec
CONSTANTS
  Users = {ann}
  Admins = {}
  Workers = {w1, w2}
  Serves <- AnyWallet
  Start = 2
  Cost = 1
  Penalty = 0
  Adjustments <- NoAdjustments
  MaxRows = 7
  MaxCrashes = 1
  Texts = {hello, bye}
  FreeQuota = 1
  LastDay = 1
INVARIANTS PaidForResults QuotaNearlyHeld ChargeNeverOverdraws
PROPERTIES ChargeIsSettled
CHECK_DEADLOCK FALSE
