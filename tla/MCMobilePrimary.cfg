SPECIFICATION Spec
CONSTANTS
  d1 = d1
  d2 = d2
  c1 = c1
  c2 = c2
  Draft = {d1, d2}
  Call = {c1, c2}
  NoOne = NoOne
  Live = Live
  Paired = Paired
  Writes = 6
  Budget = 2
CHECK_DEADLOCK FALSE
SYMMETRY Symmetry
INVARIANTS OneProviderCall 
PROPERTIES RegistrationIsKept 
