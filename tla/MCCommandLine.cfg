SPECIFICATION FairSpec
CONSTANTS
    eur = eur
    gbp = gbp
    noname = noname
    Instruments <- MCInstruments
    NoName = noname
    Watchlist <- MCWatchlist
    RawReplies <- MCRawReplies
    Launches <- MCLaunches
    Moments <- MCMoments
    OffsetAt <- MCOffsetAt
    CommitErrors = {"busy", "rollback"}
    MaxPasses = 2
    MaxStarts = 2
CHECK_DEADLOCK FALSE
INVARIANTS
    TypeOK
    SettingsHaveOneSource
    TrailTellsTheStory
    KillZonesFit
PROPERTIES
    PassSpec
    PassesAreReported
