SPECIFICATION Spec
CONSTANTS
    Bars <- MCBars
    Lookback = 1
    Providers = {"twelvedata", "oanda"}
    Count = 5
    MaxHistory = 6
INVARIANT
    TypeOK
PROPERTIES
    ReportedBreaksLast
    ReportedZonesLast
