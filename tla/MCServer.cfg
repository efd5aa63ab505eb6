SPECIFICATION PartsSpec
CONSTANTS
  Pages = {w1}
  HistoryLen = 3
  QueueCap = 2
  MaxChanges = 2
  MaxSamples = 3
  MaxRefreshes = 1
  MaxRestarts = 1
  Presses = {p1, p2}
  Ids = {i1}
  Names = {bot, shop}
  NoName = NoName
  NoId = NoId
  NoPress = NoPress
  ServerWait = 3
  ActionWait = 1
  MaxTableChanges = 1
INVARIANTS NeverBack KickHonoured TraceHasOneSeam ReportsAreTrue RightProcess
PROPERTIES Converges NoLateStart Answered
