SPECIFICATION Spec
CONSTANTS
    Categories = {casual}
    LastDay = 3
    MonthLength = 2
    Holidays = {3}
    Backward = {casual}
    NoticeDays = 0
    MaxDays = 2
    Requests = {r1}
    MaxApps = 3
    MaxAllocated = 2
CHECK_DEADLOCK FALSE
INVARIANTS TypeOK ConsumedCoversLive LiveWithinAllocated AppliedOncePerDay
PROPERTY DecidedIsFinal
