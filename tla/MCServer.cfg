SPECIFICATION ServerSpec
CONSTANT
    Handlers = {h1, h2}
INVARIANTS
    TypeOK
    AnswerHasEvidence
    ReturnIsHonest
PROPERTIES
    StopsOnceCancelled
    ReadinessFollowsEndpoint
CHECK_DEADLOCK FALSE
