SPECIFICATION UploadSpec
CONSTANTS
  q1 = q1
  q2 = q2
  q3 = q3
  Request = {q1, q2, q3}
  Parts = 2
  a = a
  b = b
  Bytes = {a, b}
  None = None
  Mishaps = 2
CHECK_DEADLOCK FALSE
SYMMETRY Symmetry
INVARIANTS LaunchedOnce ImportedAsAcknowledged AcknowledgedIsKept
