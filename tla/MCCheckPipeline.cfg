SPECIFICATION Spec
CONSTANTS
    DataKeys = {"balance", "admin"}
    MaxUntil = 4
    MaxLedger = 2
    MaxUint = 7
    Requests <- MCRequests
    ScVals <- MCScVals
    Global <- MCGlobal
    Overrides <- MCOverrides
INVARIANTS
    TypeOK
    PassMeansAlive
    FailHasReason
    RuntimeErrorHasCause
    StatusBacksVerdict
    EstimatesMatchEntries
CHECK_DEADLOCK FALSE
