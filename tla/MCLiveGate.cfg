SPECIFICATION Spec
CONSTANTS
    loop = loop
    now1 = now1
    now2 = now2
    op1 = op1
    op2 = op2
    eur = eur
    gbp = gbp
    noname = noname
    Loop = loop
    NoName = noname
    RunNowThreads = {}
    PhaseThreads = {op1}
    Watchlist <- MCOne
    Instruments <- MCOneInstrument
    Environments <- MCTwoEnvironments
    ModelReplies <- MCTrades
    CommitErrors = {"busy"}
    CanHang = FALSE
    MaxCycles = 1
    MaxPhaseChanges = 1
    MaxBoots = 1
CHECK_DEADLOCK FALSE
INVARIANT
    LiveTakesBothVariables
