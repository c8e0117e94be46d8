SPECIFICATION Spec
CONSTANTS
    Users = {u1}
    Longtime = {}
    Runs = {r1, r2}
    Overlapping = {}
    LastDay = 3
    NewYear = 3
    MonthLength = 1
    Months = 2
    FormStarts = {2}
    FormEnds = {2}
    Quota = 1
    Precision = 2
    MaxShare = 1
    MaxCredit = 1
    MaxTotal = 3
    MaxSettings = 3
    MaxBypassed = 1
    MaxFaults = 1
SYMMETRY Interchangeable
INVARIANTS YearsInForce OneBalance
PROPERTY NeverBelowFloor
CHECK_DEADLOCK FALSE
