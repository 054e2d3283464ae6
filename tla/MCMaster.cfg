\* Three workers that may fail, be killed and be replaced.
CONSTANTS
    Worker = {w1, w2, w3}
    MaxFailures = 3
    MaxKills = 2
SPECIFICATION Spec
INVARIANTS TypeOK WorkersBalance
CHECK_DEADLOCK FALSE
