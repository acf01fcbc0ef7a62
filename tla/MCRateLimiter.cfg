SPECIFICATION Spec
CONSTANTS
    Clients = {a, b, c}
    Requests = {q1, q2}
    Costs = {1, 9}
    Burst = 2
    Rate = 3
    TicksPerSecond = 2
    MaxClients = 2
    MaxTime = 2
SYMMETRY LimiterSymmetry
INVARIANTS
    TypeOK
    AdmissionIsBounded
    RetryAfterIsEnough
CHECK_DEADLOCK FALSE
