INIT TokenOnly
NEXT AccountNext
CONSTANTS
  t1 = t1
  t2 = t2
  f1 = f1
  Task = {t1, t2, f1}
  Forced = {f1}
  NoTask = NoTask
  MaxToken = 3
  MaxEdit = 1
  r1 = r1
  r2 = r2
  r3 = r3
  Request = {r1, r2, r3}
  Limit = 1
  Modulus = 8
  MaxClears = 2
PROPERTY ReloadKeepsLiveToken
CHECK_DEADLOCK FALSE
