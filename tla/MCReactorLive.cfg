\* Every connection the descriptors allow, under fairness.
CONSTANTS
    Conn = {c1, c2}
    NULL = NULL
    NoFile = 3
    TableSize = 3
    Interval = 1
    MaxBacklog = 2
    MaxInbox = 1
    GarbageMasks <- Zeroed
    Daemon = TRUE
SPECIFICATION FairSpec
PROPERTIES SilentIsReaped QueueMoves
CHECK_DEADLOCK FALSE
