SPECIFICATION Spec
CONSTANTS
  o1 = o1
  o2 = o2
  o3 = o3
  w1 = w1
  w2 = w2
  Command = {o1, o2, o3}
  Worker = {w1, w2}
  NoOne = NoOne
CHECK_DEADLOCK FALSE
SYMMETRY Symmetry
INVARIANTS ExecutedOnce ExpiredNeverRuns
