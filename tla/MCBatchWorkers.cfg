SPECIFICATION HungSpec
CONSTANTS
    NumChecks = 3
    Concurrency = 2
    Timed = {1, 2}
INVARIANTS
    TypeOK
    ReportComplete
    AnswerInTimeWins
    BlameIsOwn
PROPERTIES
    ImplementsContract
    TimedCheckReleasesWorker
    CancelEndsBatch
    BatchReturns
CHECK_DEADLOCK FALSE
