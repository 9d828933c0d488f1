SPECIFICATION FairSpec
CONSTANTS
  ann = ann
  bob = bob
  tab1 = tab1
  tab2 = tab2
  Users = {ann, bob}
  Conns = {tab1, tab2}
  Owner <- Owners
  AdminConns = {tab2}
  Producers = {p1, p2}
  Capacity = 2
  MaxEvents = 3
INVARIANTS RightAudience ProducerOrder NothingLostSilently
PROPERTIES PublisherNotStalled
CHECK_DEADLOCK FALSE
