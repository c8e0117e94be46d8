SPECIFICATION FairSpec
CONSTANTS
    LastDay = 4
    Requests = {r1}
    OverlapNights = TRUE
    MaxRows = 3
    MaxFailures = 2
INVARIANT NightEndsCovered
PROPERTY EventuallyLatest
CHECK_DEADLOCK FALSE
