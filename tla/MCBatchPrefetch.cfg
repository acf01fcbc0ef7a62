SPECIFICATION Spec
CONSTANTS
    Plan <- SharedAndBad
    CodeKeys <- TwoCodes
    MaxKeys = 2
    MaxLedger = 2
INVARIANTS
    NothingUnprefetched
    FailureIsContained
    LedgerIsHonest
PROPERTIES
    ImplementsContract
    PrefetchedReturns
CHECK_DEADLOCK FALSE
