SPECIFICATION FairPoolSpec
CONSTANTS
    Requests <- TheRequests
    Kind <- TheKind
    Size = 6
    Nobody = Nobody
INVARIANT NeverExhausted
PROPERTY CallsEnd
