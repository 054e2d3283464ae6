\* Two clients and two answers wanted, in every mode; requests go out in
\* one write or two, answers come in two segments, late, or not at all.
CONSTANTS
    needClientNum = 2
    needRequestNum = 2
    FirstFd = 5
    NoFile = 8
    ReqLen = 2
    Pieces = 2
    SndBuf = 3
    RecvMax = 2
    Timeout = 1
    MaxFail = 1
    Modes <- Every
    MaxTimeouts = 1
    MaxEnds = 1
SPECIFICATION FairSpec
INVARIANTS TypeOK SlotExact TurnTaking BatchFresh AnsweredOnce
PROPERTY Finishes
CHECK_DEADLOCK FALSE
