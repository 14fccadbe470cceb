SPECIFICATION Spec
CONSTANTS
  r1 = r1
  r2 = r2
  s1 = s1
  s2 = s2
  t1 = t1
  t2 = t2
  Rule = {r1}
  Source = {s1}
  Def <- AlertOnly
  Installed <- AlertInstalled
  MaxRestarts = 0
  MaxHistory = 1
  Task = {t1, t2}
  Ops = {"enable"}
  MaxTime = 1
  MaxCalls = 3
INVARIANT StoreInSync
CHECK_DEADLOCK FALSE
