SPECIFICATION ApartSpec
CONSTANTS
  ann = ann
  bob = bob
  annMail = annMail
  bobMail = bobMail
  eve = eve
  dan = dan
  danMail = danMail
  eveMail = eveMail
  Names = {ann, bob, eve, dan}
  Applicants <- People
  Emails = {annMail, bobMail, eveMail, danMail}
  Legacy <- Upgraded
  AllowedEmails = {annMail, bobMail, eveMail, danMail}
  Codes = {code}
  MaxUses <- OneUse
  Workers = {w1, w2}
  MaxAccounts = 4
  MaxBanned = 1
  MaxCrashes = 1
SYMMETRY RegistrationSymmetry
INVARIANTS CodesKept AdminsStay ExactApart
CHECK_DEADLOCK FALSE
