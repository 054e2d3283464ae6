\* Seven connections and a clock that never goes back: enough for an erase
\* whose replacement must rise.
CONSTANTS
    Node = {n1, n2, n3, n4, n5, n6, n7}
    NULL = NULL
    Interval = 2
    MaxClock = 1
    UsecPerMs = 2
    IntHalf = 2
    InitSize = 16
    MaxUsed = 7
    StepBack = FALSE
    ReallocFails = FALSE
SPECIFICATION Spec
SYMMETRY Symmetry
INVARIANT DestroyRemovesTimer
CHECK_DEADLOCK FALSE
