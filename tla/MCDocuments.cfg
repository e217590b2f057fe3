SPECIFICATION Spec
CONSTANTS
    NULL = NULL
    t1 = t1
    t2 = t2
    ga = ga
    gb = gb
    Docs <- MCDocs
    Sizes = {0, 2}
    Overlaps = {1, 2}
    Uploads = {u}
    Searches = {s}
    Tenants = {t1, t2}
    Slugs = {ga, gb}
    Kbs <- MCKbs
    Articles <- MCArticles
    Pages = {1, 2}
    Score <- MCScore
    TopK = 2
    Threshold = 2
    MaxShown = 3
    RRF_K = 60
    MaxFaults = 1
CHECK_DEADLOCK FALSE
INVARIANTS
    PhrasesKept
    CanBeOpened
    BestOfAll
    FairShares
PROPERTIES
    ChunkingEnds
