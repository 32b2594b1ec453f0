CONSTANTS
  Out <- MCOut
  Keymap <- MCKeymap
  Modifiers = {}
  FFKey = "L"
  Pull = 10
  Collect = 4
  MaxQueue = 2
SPECIFICATION MCSpec
PROPERTIES
  IgnoredUntilDetermined
CHECK_DEADLOCK FALSE
