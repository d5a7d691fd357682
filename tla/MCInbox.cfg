SPECIFICATION FairSpec
CONSTANTS
  Ids = {r1, r2}
  Age = 1
  Life = 2
  Skews = {0, 1}
  MaxTime = 4
  MaxFaults = 2
INVARIANTS
  HandledOnce
PROPERTIES
  EveryRequestIsHeard
CHECK_DEADLOCK FALSE
