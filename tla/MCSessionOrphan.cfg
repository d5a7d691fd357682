SPECIFICATION FairSpec
CONSTANTS
  Requests = {r1}
  MaxUnapproved = 1
  DropsBeforeCreate = TRUE
PROPERTIES
  NoOrphans
CHECK_DEADLOCK FALSE
