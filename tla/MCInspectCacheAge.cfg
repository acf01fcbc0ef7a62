SPECIFICATION Spec
CONSTANTS
    Callers = {c1, c2}
    Pieces <- MCPieces
    Requests <- FourRequests
    TTL = 2
    MaxEntries = 2
    FetchLimit = 2
    MaxTime = 3
INVARIANT
    ServedWithinTTL
