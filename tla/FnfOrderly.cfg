SPECIFICATION Spec
CONSTANTS
    Requests = {r1, r2}
    Blocking = TRUE
    Installed = TRUE
    MaxSettlements = 2
    MaxRaced = 1
    MaxAmount = 1
    MaxCredits = 2
    MaxFaults = 1
SYMMETRY Interchangeable
INVARIANTS EncashedOnce ArchivedWasPaid PrintedIsFinal ExitHasReason
PROPERTY FollowsTable
CHECK_DEADLOCK FALSE
