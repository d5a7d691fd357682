SPECIFICATION FairSpec
CONSTANTS
  b1 = b1
  Batches = {b1, b2}
  NoBatch = none
  Files = 2
  Size <- MCSize
  ChunkUnits = 2
  Window = 2
  MaxFiles = 3
  MaxUnanswered = 1
INVARIANTS
  PartialIsCurrent
  AgreementIsKept
PROPERTIES
  RowsSettle
  SlotComesBack
CHECK_DEADLOCK FALSE
