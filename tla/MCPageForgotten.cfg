SPECIFICATION FairSpec
CONSTANTS
  Sockets = {k1, k2}
  None = None
  MaxSessions = 1
  MaxOutages = 1
PROPERTIES SessionDeathIsSeen
CHECK_DEADLOCK FALSE
