SPECIFICATION Spec
CONSTANTS
    MinTokenLength = 2
    WordBits = 4
    Base = 3
    MaxDecimals = 3
    MaxSymbol = 5
    Default <- MCDefault
    Scenarios <- MCScenarios
    Values <- MCValues
INVARIANTS
    SettledByHighestLayer
    EffectiveIsUsable
    ExitTellsVerdict
    NothingIsMangled
PROPERTIES
    CommandEnds
CHECK_DEADLOCK FALSE
