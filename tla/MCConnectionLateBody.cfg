\* The head of a packet arrives before its body.
CONSTANTS
    HeadLen = 2
    CmdPos = 2
    BodyPos = 3
    Chunk = 2
    Pad = 2
    BufSize = 8
    SizeofInt = 1
    Packets <- EveryKind
    MaxPackets = 1
    MaxOutstanding = 1
SPECIFICATION Spec
INVARIANTS LateBodyAwaited
CHECK_DEADLOCK FALSE
