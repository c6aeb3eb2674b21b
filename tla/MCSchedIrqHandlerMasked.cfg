CONSTANTS
    one = one
    two = two
    Workers = {one, two}
    Idle = idle
    Boot = boot
    BootOrder <- MCBootOrder
    Quantum = 2
    SleepTimes = {0, 2}
    FarDelay = 4
    MaxLag = 2
    MaxDepth = 6
    None = None
SPECIFICATION Spec
INVARIANT HandlerMasked
CHECK_DEADLOCK FALSE
