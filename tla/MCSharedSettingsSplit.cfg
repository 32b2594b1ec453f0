SPECIFICATION Spec
CONSTANTS
  MaxVolume = 2
  MaxBrightness = 1
  MaxObjects = 3
  None = None
INVARIANTS
  OneObject
