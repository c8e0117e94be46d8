SPECIFICATION DaySpec
CONSTANTS
    Callers = {r1, r2}
    Multiple = TRUE
    Manual = TRUE
    NotNull = {TRUE, FALSE}
    Forced = {"PRESENT", "HALF_DAY"}
    MaxRows = 4
    MaxRaced = 2
    MaxFood = 2
    MaxFaults = 1
SYMMETRY Interchangeable
INVARIANTS DayTypeOK SomethingActive OneActiveRow DayIsSettled FoodMatchesDay
CHECK_DEADLOCK FALSE
