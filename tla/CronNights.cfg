SPECIFICATION FairSpec
CONSTANTS
    DaysInMonth = 3
    FirstDay = 2
    LastDay = 4
    April = 1
    Slots = {1, 2}
    MaxManual = 1
    MaxFaults = 1
INVARIANTS TypeOK OverBeforeAccrual EveryDateEntered AccrualBeforePayroll
PROPERTY GroupEnds
CHECK_DEADLOCK FALSE
