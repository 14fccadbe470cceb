SPECIFICATION Spec
CONSTANTS
  r1 = r1
  r2 = r2
  s1 = s1
  s2 = s2
  t1 = t1
  t2 = t2
  Rule = {r1}
  Source = {s1}
  Task = {t1, t2}
  Def <- AlertButton
  Installed <- AlertInstalled
  Ops = {"import", "update", "edit", "delete", "enable"}
  MaxTime = 2
  MaxCalls = 3
  MaxRestarts = 0
  MaxHistory = 1
INVARIANTS TypeOK IndexFresh EarlyFiresPaid  SinceAfterUnmet
PROPERTY NoDoubleFire
SYMMETRY Tasks
CHECK_DEADLOCK FALSE
