SPECIFICATION FairSpec
CONSTANTS
  Requests = {r1}
  DropsBeforeCreate = FALSE
  MaxUnapproved = 1
PROPERTIES
  EveryRequestIsDecided
  DepartureEndsSession
  NodeRemoved
  ViewerResolves
CHECK_DEADLOCK FALSE
