SPECIFICATION FairSpec
CONSTANTS
    p1 = p1
    c1 = c1
    c2 = c2
    q1 = q1
    q2 = q2
    Target = {p1}
    Cfg = {c1, c2}
    Broken = {c2}
    Stored <- NothingStored
    Task = {q1, q2}
    Ops = {"create", "update", "start", "stop", "delete", "disconnect"}
    MaxCalls = 3
    MaxRestarts = 1
INVARIANTS TypeOK NoLeak RunningMatchesStore
PROPERTIES OrphanExits RequestsReturn
CHECK_DEADLOCK FALSE
