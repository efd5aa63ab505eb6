SPECIFICATION PartsSpec
CONSTANTS
  Streams = {s1, s2}
  MaxLogStreams = 1
  OutCap = 1
  WireCap = 1
  MaxCrashes = 1
  MaxToken = 2
  MaxBytes = 3
  MaxOutput = 3
  MaxSaid = 2
  MaxExpiries = 1
INVARIANTS TypesOK EndIsTold FailuresAreTold ConsoleComplete
PROPERTIES SlotFreed StreamsEnd LogsKeepContract
CHECK_DEADLOCK FALSE
