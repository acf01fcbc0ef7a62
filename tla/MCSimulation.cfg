SPECIFICATION Spec
CONSTANTS
    Wasms = {"old", "new"}
    Functions = {"f", "g"}
    Figures = {"cpu instructions", "resource fee"}
    MaxFigure = 2
    Requests <- MCRequests
    Exports <- MCExports
INVARIANTS
    TypeOK
    TypedByOwnInterface
    GatesJudgeEveryRun
    FailuresAreOwn
CHECK_DEADLOCK FALSE
