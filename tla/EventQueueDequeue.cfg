CONSTANTS
    e1 = e1
    e2 = e2
    e3 = e3
    Events = {e1, e2, e3}
    Times = {0, 1, 2}
    NULL = NULL
SPECIFICATION SpecWithDequeue
PROPERTY OthersStayQueued
