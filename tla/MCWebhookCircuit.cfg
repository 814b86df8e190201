CONSTANTS
  Delivery = {d1, d2}
  Threshold = 2
  OpenTtl = 2
  ProbeTtl = 1
  FailTtl = 3
  Faults = {"reject", "crash", "outage"}
  Budget = 3
SPECIFICATION FairSpec
  
PROPERTIES DeliveriesFlow
