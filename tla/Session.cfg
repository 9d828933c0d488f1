SPECIFICATION FairSpec
CONSTANTS
  ann = ann
  bob = bob
  tab1 = tab1
  tab2 = tab2
  Nobody = Nobody
  Users = {ann, bob}
  Admins = {ann}
  Newcomers = {bob}
  Tabs = {tab1, tab2}
  Calls = {1, 2}
  MaxIssues = 2
  MaxPresses = 3
  MaxFaults = 1
INVARIANTS SessionsSound StoreFollowsTokens StreamIsOwn
PROPERTIES RequestsEnd
CHECK_DEADLOCK FALSE
