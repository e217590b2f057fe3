SPECIFICATION Spec
CONSTANTS
    NULL = NULL
    Replies = {r1}
    Clicks = {k1}
    QaSlots = {s1, s2}
    MiningSlots = {w1}
    Admins = {a1, a2}
    Tenants = {"t1", "t2"}
    Questions <- MCQuestions
    Long = {"q3"}
    Zero = {}
    MinSize = 2
    MaxSize = 2
    MaxTries = 2
    MaxFaults = 2
CHECK_DEADLOCK FALSE
INVARIANTS
    ScoresCounted
    OneArticlePerDraft
    WholeBatches
PROPERTY WorkEnds
