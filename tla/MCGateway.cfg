SPECIFICATION GatewaySpec
CONSTANTS
    Calls = {c1, c2}
    Dialects <- TwoDialects
    MaxRetries = 1
    JudgeRetries = 1
    StepTimeout = TRUE
    MaxChunks = 1
CHECK_DEADLOCK FALSE
INVARIANTS
    CallsBounded
    UsageConserved
PROPERTIES
    KeepsPromise
