SPECIFICATION PartsSpec
CONSTANTS
  Streams = {s1, s2}
  NoStream = NoStream
  TailLen = 2
  MaxLines = 3
  MaxOpens = 2
  MaxDrops = 1
  Sockets = {k1, k2}
  None = None
  MaxSessions = 2
  MaxOutages = 1
  Units = {u1, u2}
  NoUnit = NoUnit
  MaxSubs = 1
  Cap = 2
  BatchMax = 2
INVARIANTS TypesOK NothingLost OneSocket StreamCap
PROPERTIES Follows StaysConnected StopEnds DroppedLeaves
CHECK_DEADLOCK FALSE
