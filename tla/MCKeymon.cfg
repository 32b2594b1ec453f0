SPECIFICATION Spec
CONSTANTS
  MaxVolume = 3
  HeldAtStart = {"POWER"}
INVARIANTS
  ForcePowerOff
PROPERTIES
  RepeatAtHalfSpeed
  ScreenshotNeedsBoth
CHECK_DEADLOCK FALSE
