SPECIFICATION Spec
CONSTANTS
  Keys = {k1}
  Requests = {r1, r2}
  Tokens = {t1, t2}
  Users = {fin}
  PerKey = 2
  Global = 2
  Window = 2
  TTL = 1
  Period = 1
  MaxTime = 6
PROPERTY LockoutLastsWindow
