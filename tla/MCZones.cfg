SPECIFICATION Spec
CONSTANTS
    Bars <- MCFewBars
    Lookback = 2
    MaxBars = 8
    OteMin = 62
    OteMax = 79
    Tolerance = 100
CHECK_DEADLOCK FALSE
INVARIANT
    LegIsAnImpulse
PROPERTIES
    ZonesAreNotRewritten
    OteZonesSettle
