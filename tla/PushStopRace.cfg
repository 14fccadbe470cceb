SPECIFICATION Spec
CONSTANTS
    p1 = p1
    c1 = c1
    c2 = c2
    q1 = q1
    q2 = q2
    Target = {p1}
    Cfg = {c1}
    Broken = {}
    Stored <- OneRunning
    Task = {q1, q2}
    Ops = {"start", "stop"}
    MaxCalls = 2
    MaxRestarts = 0
INVARIANT StoppedNotRunning
CHECK_DEADLOCK FALSE
