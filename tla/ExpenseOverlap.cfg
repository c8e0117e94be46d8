SPECIFICATION Spec
CONSTANTS
    Kinds = {"tracker", "fuel"}
    Requests = {r1, r2, r3}
    MaxVersions = 4
SYMMETRY Interchangeable
INVARIANTS NeverLost FuelInLine
PROPERTY FuelIsOneRecord
CHECK_DEADLOCK FALSE
