SPECIFICATION TriggerSpec
CONSTANTS
    Calls = {c1, c2, c3}
    Keys <- TheKeys
    Dependent <- TheDependent
    Periodic <- ThePeriodic
    Future <- TheFuture
    NoKey = NoKey
    MaxFailures = 2
INVARIANTS MarksAreLive OneRunKeepsMark
