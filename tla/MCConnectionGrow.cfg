\* A packet whose reply is longer than the send buffer.
CONSTANTS
    HeadLen = 2
    CmdPos = 2
    BodyPos = 3
    Chunk = 2
    Pad = 2
    BufSize = 4
    SizeofInt = 1
    Packets <- LongTest
    MaxPackets = 1
    MaxOutstanding = 1
SPECIFICATION Spec
INVARIANTS SendInBounds
CHECK_DEADLOCK FALSE
