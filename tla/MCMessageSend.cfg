CONSTANTS
  Run = {1, 2, 3}
  None = None
  Uno = Uno
  Messages = {"plain", "reply", "bulk"}
  MaxRetries = 2
  Receipts = {"delivered"}
  MaxReceipts = 1
  Faults = {"reject", "network", "timeout", "crash"}
  Budget = 2
CHECK_DEADLOCK FALSE
SPECIFICATION FairSpec
INVARIANTS SkippedWasSent WarningKept SentOnce
PROPERTIES WarningTold
