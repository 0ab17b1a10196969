SPECIFICATION FairSpec
CONSTANTS
    loop = loop
    now1 = now1
    now2 = now2
    op1 = op1
    op2 = op2
    eur = eur
    gbp = gbp
    noname = noname
    Loop = loop
    NoName = noname
    RunNowThreads = {now1}
    PhaseThreads = {op1}
    Watchlist <- MCOne
    Instruments <- MCOneInstrument
    Environments <- MCPaperEnvironment
    ModelReplies <- MCReplies
    CommitErrors = {"busy"}
    CanHang = TRUE
    MaxCycles = 2
    MaxPhaseChanges = 1
    MaxBoots = 1
CHECK_DEADLOCK FALSE
PROPERTIES
    CyclesFinish
    LoopGoesOn
    StopIsHonoured
    LeavingPaperDrains
