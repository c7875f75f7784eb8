CONSTANTS
    t1 = t1
    t2 = t2
    Thread = {t1, t2}
    Tolerance = 1
    MaxGap = 3
    Duration = 5
    MaxTick = 6
    MaxRegressions = 1
    Free = Free
    NoHold = NoHold
SPECIFICATION Spec
INVARIANTS
    SleepBounded
    RegressionIsReal
PROPERTIES
    HoldLatched
SYMMETRY Symmetry
CHECK_DEADLOCK FALSE
