SPECIFICATION DesktopSpec
CONSTANTS
  Modes = {m1, m2}
  Spots = {spot}
  MaxPicture = 2
  MaxUpsets = 2
INVARIANTS OnePointer
PROPERTIES KeepsPromise FrameCatchesUp
CHECK_DEADLOCK FALSE
