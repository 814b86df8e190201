CONSTANTS
  Run = {1}
  None = None
  Uno = Uno
  Messages = {"bulk"}
  MaxRetries = 3
  Receipts = {"delivered", "read"}
  MaxReceipts = 2
  Faults = {}
  Budget = 0
CHECK_DEADLOCK FALSE
SPECIFICATION Spec
INVARIANTS SkipsOnlySent
