SPECIFICATION Spec
CONSTANTS
  Keys = {k1}
  Requests = {r1, r2}
  Tokens = {t1, t2}
  Users = {fin, root}
  PerKey = 2
  Global = 2
  Window = 1
  TTL = 1
  Period = 1
  MaxTime = 4
SYMMETRY Symmetry
INVARIANTS CodeOnce LogoutFinal RateLimit
PROPERTIES SurvivesRestart LockHolds
