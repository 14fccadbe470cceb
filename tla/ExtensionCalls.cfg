SPECIFICATION Spec
CONSTANTS
    c1 = c1
    c2 = c2
    Caller = {c1, c2}
    Scenarios <- Mixed
    Limit = 1
    MaxFailures = 2
    MaxAttempts = 2
    Pipe = 2
    MaxEpoch = 2
INVARIANTS TypeOK ServedWhileRunning LiveIsRunning TableOwned ActiveBacked
PROPERTIES CallsReturn HangKilled CrashAnnounced
CHECK_DEADLOCK FALSE
