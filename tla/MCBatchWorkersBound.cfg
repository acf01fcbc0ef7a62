SPECIFICATION Spec
CONSTANTS
    NumChecks = 3
    Concurrency = 2
    Timed = {1, 2}
INVARIANT
    AtMostConcurrencyRunning
CHECK_DEADLOCK FALSE
