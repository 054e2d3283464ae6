\* A second test packet while the reply to the first waits.
CONSTANTS
    HeadLen = 2
    CmdPos = 2
    BodyPos = 3
    Chunk = 2
    Pad = 2
    BufSize = 14
    SizeofInt = 1
    Packets <- Tests
    MaxPackets = 2
    MaxOutstanding = 2
SPECIFICATION Spec
INVARIANTS RepliesQueued
CHECK_DEADLOCK FALSE
