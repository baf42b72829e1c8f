SPECIFICATION Spec
CONSTANTS
    Threads = {t1, t2}
    Rows <- MCRows
    MaxRows = 3
    MaxRuns = 2
SYMMETRY Symmetric
INVARIANTS
    SyntheticConsistent
    PricesInside
    ReportsExplained
PROPERTY NoLookahead
CHECK_DEADLOCK FALSE
