CONSTANTS
  MIN_YEAR = 1899
  MAX_YEAR = 1904
  DEFAULT_YEAR = 1901
  MAX_HOUR = 1
  MAX_MINUTE = 0
  MAX_SECOND = 0
  Parts = {dir, launcher, bin}
  Launcher = launcher
  Versions = {v1, v2}
  Missing = Missing
  Torn = Torn
  MaxCuts = 4
  Timeout = 1
SPECIFICATION MCSpec
INVARIANTS StockKeptOut
CHECK_DEADLOCK FALSE
