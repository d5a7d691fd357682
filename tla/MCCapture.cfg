SPECIFICATION FairSpec
CONSTANTS
  Modes = {m1, m2}
  MaxPicture = 1
  MaxUpsets = 1
  Images = {i1, i2, i3}
  FreeCap = 4
INVARIANTS ImagesExclusive EncoderIsCurrent
PROPERTIES PictureArrives LossIsRepaired UnreadCaptureEnds
CHECK_DEADLOCK FALSE
