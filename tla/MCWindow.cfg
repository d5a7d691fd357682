SPECIFICATION WindowFairSpec
CONSTANTS
  MaxPending = 3
INVARIANTS GoneWhenFinished CopyIsOffered
PROPERTIES UpdatesAreShown ClosingEnds
CHECK_DEADLOCK FALSE
