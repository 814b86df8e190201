CONSTANTS
  Msg = {m1}
  Slot = {s1, s2, s3, s4}
  Handler = {h1, h2}
  None = None
  Prefetch = 2
  MaxRetries = 2
  Notify = TRUE
  Faults = {"error", "circuit", "timeout", "nack", "uncertain", "close", "crash", "wake"}
  Budget = 3
SPECIFICATION FairSpec
CHECK_DEADLOCK FALSE
INVARIANTS NoLoss DeadAfterAttempts DeadIsNotified
PROPERTIES KeepsPromise EventuallySettled
