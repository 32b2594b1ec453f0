SPECIFICATION MCSpec
CONSTANTS
  None = None
  RowCount = 2
  Dirs <- MCDirs
  Libraries <- MCLibraries
  LastPaths <- MCLastPaths
  CueDirs <- MCCueDirs
  M3uDirs <- MCM3uDirs
  FirstDisc <- MCFirstDisc
  BadM3u = {}
  Saved <- MCSaved
  SavedDisc <- MCSavedDisc
  Collation <- MCCollation
  MaxRecents = 3
  Paths <- MCPaths
  Game <- MCGame
  M3u <- MCM3u
  Removable = {"one", "disc1"}
INVARIANTS
  WindowsOK
  CursorVisible
  StackFollowsCursor
  RestoreIsCurrent
  ResumesOwnGame
  OnePerGame
  NewestAtTop
  NothingForgotten
PROPERTIES
  ReopenRestores
CHECK_DEADLOCK FALSE
