SPECIFICATION Spec
CONSTANTS
    Users = {u1, u2}
    None = None
    Requests = {r1, r2}
    MaxActive = 2
    Kind = "asset"
SYMMETRY Interchangeable
INVARIANTS HolderWasOffered
PROPERTY HandedOver
CHECK_DEADLOCK FALSE
