\* Clients that wait for a reply before they send the next packet, and others.
CONSTANTS
    HeadLen = 2
    CmdPos = 2
    BodyPos = 3
    Chunk = 2
    Pad = 2
    BufSize = 8
    SizeofInt = 1
    Packets <- EveryKind
    MaxPackets = 3
    MaxOutstanding = 2
SPECIFICATION FairSpec
INVARIANTS TypeOK FramingExact RecvInBounds WriteArmed StreamIntact
PROPERTY Answered
CHECK_DEADLOCK FALSE
