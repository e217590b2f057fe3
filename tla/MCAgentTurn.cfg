SPECIFICATION TurnSpec
CONSTANTS
    NoConv = NoConv
    Turns = {t1, t2}
    Convs = {c1, c2}
    MaxToolIterations = 1
    MaxHistory = 1
    BeforeSummary = 1
    MaxCalls = 2
    MaxLength = 2
CHECK_DEADLOCK FALSE
INVARIANTS
    OwnConversation
PROPERTIES
    EscalationIsLast
    EveryTurnAnswered
