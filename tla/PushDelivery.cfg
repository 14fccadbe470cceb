SPECIFICATION FairSpec
CONSTANTS
    tr = tr
    dev = dev
    dump = dump
    v1 = v1
    Source = {tr, dev, dump}
    Value = {v1}
    Stamp = {1}
    Raw = {dump}
    Twin <- TransformOfDevice
    Configs <- AllModes
    MaxInflight = 1
    MaxBuffer = 2
    MaxLast = 2
    BusCapacity = 2
    MaxEvents = 3
    MaxRuns = 2
INVARIANTS TypeOK PermitCap OneFate LogTerminal BatchesInOrder
PROPERTIES BufferDrains LivesAsScheduled
CHECK_DEADLOCK FALSE
