SPECIFICATION Spec
CONSTANTS
    Bars <- MCBars
    Lookback = 1
    MaxBars = 7
    OteMin = 62
    OteMax = 79
    Tolerance = 300
CHECK_DEADLOCK FALSE
INVARIANTS
    TypeOK
    EventsAreTheBreaks
    OneBreakPerBar
    LabelsFollowTrend
    EqualSwingsShareAPool
    PoolsAreTight
