SPECIFICATION Spec
CONSTANTS
    NULL = NULL
    Mails = {m1, m2}
    Deliveries = {d1, d2, d3}
    Customers = {c1}
    MaxRetries = 1
    Faults = TRUE
CHECK_DEADLOCK FALSE
SYMMETRY Symmetry
INVARIANTS
    SequentialRedelivery
    OneConversationPerMail
    MailedAfterCommit
