CONSTANTS
    HeapWords = 16
    Sizes = {8, 40}
    Data = {35}
SPECIFICATION SpecDoubleFree
INVARIANT DoubleFreeCaught
CHECK_DEADLOCK FALSE
