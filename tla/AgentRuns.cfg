SPECIFICATION Spec
CONSTANTS
    timed = timed
    sensed = sensed
    fresh = fresh
    Agent = {timed, sensed, fresh}
    Exec = {1, 2}
    Request = {1, 2}
    Schedule <- ScheduleOf
    Priority <- PriorityOf
    Backend <- BackendOf
    Late <- LateOrNot
    Scenarios <- Mixed
    MaxConcurrent = 1
    MaxPerBackend = 1
    Interval = 2
    Cooldown = 1
    Retention = 1
    MaxTime = 7
INVARIANTS TypeOK ExecutingBacked ActiveScheduled PausedIdle
INVARIANTS SlotBacked HandlesLive GlobalCap
PROPERTY ReservedOnGrid
CHECK_DEADLOCK FALSE
