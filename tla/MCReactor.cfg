\* Two connections at a time and a descriptor more than the table has.
CONSTANTS
    Conn = {c1, c2}
    NULL = NULL
    NoFile = 4
    TableSize = 3
    Interval = 2
    MaxBacklog = 1
    MaxInbox = 1
    GarbageMasks <- Anything
    Daemon = FALSE
SPECIFICATION Spec
SYMMETRY Symmetry
INVARIANTS TypeOK KernelAgrees ArgIsLive BatchFresh WriteArmed NothingLeaks
PROPERTY CtlNeverFails
CHECK_DEADLOCK FALSE
