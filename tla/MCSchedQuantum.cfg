CONSTANTS
    one = one
    two = two
    Workers = {one, two}
    Idle = idle
    Boot = boot
    BootOrder <- MCBootOrder
    Quantum = 2
    SleepTimes = {0, 1, 3}
    FarDelay = 4
    MaxLag = 2
SPECIFICATION FairSpec
PROPERTY QuantumPreempts
