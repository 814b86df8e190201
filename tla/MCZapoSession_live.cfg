CONSTANTS
  Client = {c1, c2}
  Worker = {w1, w2}
  Homes <- Apart
  NoClient = NoClient
  Orphan = Orphan
  Faults = {"close", "reject", "recover", "crash", "hang", "deadline"}
  Budget = 2
  MaxGen = 30
SPECIFICATION FairSpec
CHECK_DEADLOCK FALSE
PROPERTIES EventuallyConnected
