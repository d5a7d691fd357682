SPECIFICATION FairSpec
CONSTANTS
  Codes = {c1, c2, c3}
  Boot = boot
  Rotations = {j1}
  Attempts = 2
  Redraws = FALSE
  NoCode = none
PROPERTIES
  LiveRecordIsSafe
  NeverWithoutCode
  ReplacedCodeDies
CHECK_DEADLOCK FALSE
