\* Four connections, an array that grows from 1 to 2 to 4, a wall clock that may
\* be set back, realloc that may fail.  A millisecond of two microseconds and an
\* int of two bits: a timer may be too far off for the timeout, once the clock
\* was set back.
CONSTANTS
    Node = {n1, n2, n3, n4}
    NULL = NULL
    Interval = 1
    MaxClock = 2
    UsecPerMs = 2
    IntHalf = 2
    InitSize = 1
    MaxUsed = 4
    StepBack = TRUE
    ReallocFails = TRUE
SPECIFICATION Spec
SYMMETRY Symmetry
INVARIANTS TypeOK ArrayInBounds HeapOrder IndexExact TimersExact WaitIsExact
PROPERTY ImplementsTimerSet
CHECK_DEADLOCK FALSE
