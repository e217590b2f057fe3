SPECIFICATION Spec
CONSTANTS
    NULL = NULL
    Jobs = {j1, j2, j3}
    Readers = {r}
    Texts = {t}
    Blank = blank
    Sizes = {1, 2}
    TopK = 1
    Faults = TRUE
SYMMETRY Symmetry
CHECK_DEADLOCK FALSE
INVARIANTS
    IndexedMeansFound
    IndexingHasRun
    OrphansExplained
    FreshAnswers
