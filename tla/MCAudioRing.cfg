SPECIFICATION MCSpec
CONSTANTS
  Lengths = {0, 3, 4}
  MaxRequest = 3
  MaxFrames = 6
  BatchSize = 2
  MaxTries = 2
  MaxCallback = 2
  InRate = 2
  OutRate = 3
  Adjustment = 1
INVARIANTS
  RingOK
  InOrder
  KeepsRate
PROPERTIES
  IsFifo
  WriteReturns
CHECK_DEADLOCK FALSE
