SPECIFICATION FairSpec
CONSTANTS
  HostTexts = {b, d}
  ViewerTexts = {a}
  MaxGestures = 3
  MaxBusy = 1
INVARIANTS
  NothingEchoed
PROPERTIES
  CopiesReachTheViewer
  DoReturns
CHECK_DEADLOCK FALSE
