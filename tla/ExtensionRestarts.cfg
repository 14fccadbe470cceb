SPECIFICATION Spec
CONSTANTS
    c1 = c1
    c2 = c2
    l1 = l1
    u1 = u1
    Command = {c1, c2}
    Loader = {l1}
    Unloader = {u1}
    Scenarios <- Mixed
    MaxAttempts = 1
    CooldownTime = 1
    Hour = 2
    Capacity = 1
    MaxTime = 2
    MaxObject = 3
    MaxLock = 5
INVARIANTS TypeOK SingleProcess BurstBounded
PROPERTIES CrashHandled CallsReturn
CHECK_DEADLOCK FALSE
