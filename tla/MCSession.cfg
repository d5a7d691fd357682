SPECIFICATION Spec
CONSTANTS
  Requests = {r1, r2}
  DropsBeforeCreate = FALSE
  MaxUnapproved = 2
SYMMETRY Symmetry
INVARIANTS
  OneSessionAtATime
  ReturnedIsClean
  NothingWithoutYes
PROPERTIES
  NeverResurrected
  ImplementsLifecycle
CHECK_DEADLOCK FALSE
