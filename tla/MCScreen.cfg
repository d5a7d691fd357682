SPECIFICATION FairSpec
CONSTANTS
  Prompts = {p1, p2}
  Pickers = {k1}
  Keys = {x}
  NoQuestion = none
INVARIANTS
  OneLiveWindow
  AttentionIsHeld
  NothingHeldAfterClose
PROPERTIES
  CancelledQuestionsEnd
CHECK_DEADLOCK FALSE
