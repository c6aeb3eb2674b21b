CONSTANTS
    e1 = e1
    e2 = e2
    e3 = e3
    e4 = e4
    e5 = e5
    Events = {e1, e2, e3, e4, e5}
    Times = {0, 1, 2}
    NULL = NULL
SPECIFICATION Spec
INVARIANTS
    TypeOK
    TreeCoherent
    PeekReturnsEarliest
PROPERTIES
    ImplementsTimerQueue
