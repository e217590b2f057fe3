SPECIFICATION FairSpec
CONSTANTS
    NULL = NULL
    Conv = {c1}
    Users = {u1, u2}
    Reqs = {r1, r2, r3}
    Faults = TRUE
INVARIANTS
    OneTicketPerConversation
    AuditTrail
PROPERTIES
    EverySessionEnds
