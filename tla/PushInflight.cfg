SPECIFICATION Spec
CONSTANTS
    tr = tr
    dev = dev
    dump = dump
    v1 = v1
    Source = {tr, dev}
    Value = {v1}
    Stamp = {1}
    Raw = {}
    Twin <- TransformOfDevice
    Configs <- ImmediateOnly
    MaxInflight = 1
    MaxBuffer = 2
    MaxLast = 2
    BusCapacity = 2
    MaxEvents = 2
    MaxRuns = 2
INVARIANT PermitCapPerTarget
CHECK_DEADLOCK FALSE
