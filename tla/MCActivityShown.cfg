SPECIFICATION Spec
CONSTANTS
  Requests = {r1}
  Mounts = {1}
  Keep = 2
  Shown = 2
  MaxRestarts = 0
  MaxLosses = 1
INVARIANT ShownUnderActivity
CHECK_DEADLOCK FALSE
