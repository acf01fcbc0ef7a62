SPECIFICATION Spec
CONSTANTS
    Callers = {c1, c2}
    Pieces <- MCPieces
    Requests <- FourRequests
    TTL = 2
    MaxEntries = 2
    FetchLimit = 2
    MaxTime = 4
SYMMETRY CallerSymmetry
INVARIANTS
    TypeOK
    ServedReportIsRecent
    AnswersTheKeySet
PROPERTY
    LiveEntryLostOnlyWhenFull
