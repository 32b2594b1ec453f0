SPECIFICATION Spec
CONSTANTS
  MaxVolume = 3
  HeldAtStart = {"POWER"}
PROPERTIES
  VolumeButtonsOnly
CHECK_DEADLOCK FALSE
