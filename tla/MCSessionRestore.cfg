SPECIFICATION Spec
CONSTANTS
  r1 = r1
  r2 = r2
  r3 = r3
  Restore = {r1, r2, r3}
  OneShot = {r3}
  Pages = 2
  NoOne = NoOne
  Live = Live
  Manual = Manual
  Budget = 2
CHECK_DEADLOCK FALSE
INVARIANTS  PartialIsJournaled FailedMeansNothing
 
