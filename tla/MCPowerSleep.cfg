CONSTANTS
  Hold = 3
  Delay = 2
  Minute = 1
  Stall = 1
  MaxQueue = 2
  MaxVolume = 2
SPECIFICATION MCSpec
INVARIANTS
  PowersOffOnHold
  AudibleAfterSleep
PROPERTIES
  PowerKeyAnswered
  PowersOffAlone
CHECK_DEADLOCK FALSE
