SPECIFICATION PartsSpec
CONSTANTS
  Streams = {s1}
  MaxLogStreams = 1
  OutCap = 1
  WireCap = 1
  MaxCrashes = 0
  MaxToken = 1
  MaxBytes = 2
  MaxOutput = 2
  MaxSaid = 0
  MaxExpiries = 0
PROPERTY LogsFollowToTheEnd
CHECK_DEADLOCK FALSE
