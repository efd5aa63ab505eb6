SPECIFICATION Spec
CONSTANTS
  Requests = {r1, r2, r3}
  Mounts = {1}
  Keep = 2
  Shown = 1
  MaxRestarts = 1
  MaxLosses = 1
SYMMETRY Symmetry
INVARIANTS MemoryMatchesFile ToldIsSaved
PROPERTY IsAuditLog
CHECK_DEADLOCK FALSE
