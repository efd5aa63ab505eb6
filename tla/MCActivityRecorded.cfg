SPECIFICATION Spec
CONSTANTS
  Requests = {r1}
  Mounts = {1}
  Keep = 2
  Shown = 1
  MaxRestarts = 1
  MaxLosses = 1
INVARIANT EveryActionRecorded
CHECK_DEADLOCK FALSE
