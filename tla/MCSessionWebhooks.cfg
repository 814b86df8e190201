CONSTANTS
  Destination = {d1}
  Observer = {o1, o2}
  Broker = {b1}
  None = None
  Events = {"connected", "disconnected", "unlinked", "removed", "unavailable", "heartbeat"}
  Stale = 2
  MaxDelay = 1
  MaxPending = 2
  Kinds = {"socket", "beat", "admin", "persist", "post", "crash"}
  Budget = 3
SPECIFICATION FairSpec
CHECK_DEADLOCK FALSE
INVARIANTS  ReceiverAgrees
PROPERTIES NoFalseAlarm 
