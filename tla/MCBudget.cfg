SPECIFICATION Spec
CONSTANTS
    NULL = NULL
    Calls = {a, b, c}
    Cap = 3
    SoftWarn = 2
    MaxCost = 2
    Admin = TRUE
    Faults = TRUE
CHECK_DEADLOCK FALSE
SYMMETRY Symmetry
INVARIANTS
    NeverOvercharged
    ExactUnlessRaced
    CapRespected
