CONSTANTS
  Keys = {"frameskip", "interval", "blocked"}
  Values = {"0", "1"}
  Default <- MCDefault
  Blocked = {"blocked"}
  Type = "frameskip"
  Interval = "interval"
  TypeValue = "1"
  IntervalValue = "0"
  Games = {"game", "other"}
  OldFiles <- MCOldFiles
  Out <- MCOut
  Keymap <- MCKeymap
  Modifiers = {"B"}
  FFKey = "L"
  Pull = 2
  Collect = 2
  MaxQueue = 2
  Dumps <- MCDumps
  Bytes = {0, 1}
  MaxEnd = 3
  MaxRun = 2
  MaxRecords <- MCRecords
  None = None
SPECIFICATION MCSpec
INVARIANTS
  
  
  StartsAsStored
  CoreKnows
  FastForwardRestores
  PatchedAsMeant
CHECK_DEADLOCK FALSE
