CONSTANTS
  Client = {c1, c2}
  Worker = {w1, w2}
  Homes <- Anywhere
  NoClient = NoClient
  Orphan = Orphan
  Faults = {"close", "unlink", "reject", "deadline", "hang", "recover", "manual", "logout",
            "renew", "crash", "infra", "status", "lookup"}
  Budget = 2
  MaxGen = 4
SPECIFICATION Spec
SYMMETRY Symmetry
CHECK_DEADLOCK FALSE
INVARIANTS ConnectedIsCurrent OneLiveSocket ConnectedIsRegistered NotForgotten 
PROPERTIES OpensUnderLease RetiredNeverReconnects
