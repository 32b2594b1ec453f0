SPECIFICATION Spec
CONSTANTS
  MaxVolume = 2
  MaxBrightness = 1
  MaxObjects = 2
  None = None
INVARIANTS
  OneObjectWithKeymonFirst
  SavedWhenQuiet
  HeardAsSet
CHECK_DEADLOCK FALSE
