\* Two workers, two failures, two workers terminated, the service stopped at any
\* step of any log.
CONSTANTS
    Worker = {w1, w2}
    MaxFailures = 2
    MaxKills = 2
SPECIFICATION FairSpec
INVARIANTS TypeOK OwnLog HandleInUse
PROPERTIES EndsOutsideLog StopsEverybody RestoredOrStuck
CHECK_DEADLOCK FALSE
