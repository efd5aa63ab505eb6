SPECIFICATION FairSpec
CONSTANTS
  Streams = {s1}
  NoStream = NoStream
  TailLen = 2
  MaxLines = 2
  MaxOpens = 1
  MaxDrops = 1
INVARIANTS ShownOnce
CHECK_DEADLOCK FALSE
