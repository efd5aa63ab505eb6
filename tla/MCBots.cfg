SPECIFICATION PartsSpec
CONSTANTS
  Everys = {1, 2}
  ListWait = 1
  MinStale = 3
  Hour = 2
  MaxAge = 8
  MaxChanges = 1
  MaxLogins = 2
  Bot = Bot
  Other = Other
  ProcNames <- MCProcNames
  Exclude <- MCExclude
  Pids = {0, 1, 2}
  MaxProcs = 3
  Inodes = {1, 2}
  N = 1
  Window = 3
  MaxLogLine = 2
  LogTail = 3
  MaxLogRead = 3
  MaxBytes = 5
  MaxSwaps = 1
  MaxFails = 1
INVARIANTS TypesOK EveryLineOnce NeverTwice FreshnessIsRight ActionIsShown NamesAreCurrent IdsHoldStill
PROPERTIES NameIsKept CatchesUp
CHECK_DEADLOCK FALSE
