SPECIFICATION Spec
CONSTANTS
  r1 = r1
  r2 = r2
  s1 = s1
  s2 = s2
  t1 = t1
  t2 = t2
  Rule = {r1, r2}
  Source = {s1, s2}
  Task = {t1}
  Def <- AlertNightlyButton
  Installed <- BothInstalled
  Ops = {"create", "update", "edit", "delete", "enable"}
  MaxTime = 1
  MaxCalls = 4
  MaxRestarts = 1
  MaxHistory = 1
INVARIANT StoreInSync
CHECK_DEADLOCK FALSE
