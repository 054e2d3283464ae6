\* One worker that is terminated.
CONSTANTS
    Worker = {w1}
    MaxFailures = 0
    MaxKills = 1
SPECIFICATION FairSpec
PROPERTY TermEnds
CHECK_DEADLOCK FALSE
