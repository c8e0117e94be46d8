SPECIFICATION DaySpec
CONSTANTS
    Callers = {r1}
    Multiple = FALSE
    Manual = FALSE
    NotNull = {TRUE}
    Forced = {"PRESENT"}
    MaxRows = 2
    MaxRaced = 2
    MaxFood = 2
    MaxFaults = 0
SYMMETRY Interchangeable
INVARIANT EveryDayIsEntered
CHECK_DEADLOCK FALSE
