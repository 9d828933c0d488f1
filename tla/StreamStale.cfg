SPECIFICATION StreamSpec
CONSTANTS
  ann = ann
  bob = bob
  tab1 = tab1
  tab2 = tab2
  Nobody = Nobody
  Users = {ann}
  Admins = {ann}
  Newcomers = {ann}
  Tabs = {tab1}
  Calls = {1}
  MaxIssues = 2
  MaxPresses = 3
  MaxFaults = 1
PROPERTIES StreamComesBack
CHECK_DEADLOCK FALSE
