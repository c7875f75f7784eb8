CONSTANTS
    c1 = c1
    c2 = c2
    Caller = {c1, c2}
    MaxGeneration = 5
    NoDocument = NoDocument
SPECIFICATION Spec
INVARIANTS
    HistoryReplays
PROPERTIES
    CurrentCopyFollowsGraph
SYMMETRY Symmetry
CHECK_DEADLOCK FALSE
