SPECIFICATION Spec
CONSTANTS
    loop = loop
    now1 = now1
    now2 = now2
    op1 = op1
    op2 = op2
    eur = eur
    gbp = gbp
    noname = noname
    Loop = loop
    NoName = noname
    RunNowThreads = {now1}
    PhaseThreads = {}
    Watchlist <- MCOne
    Instruments <- MCOneInstrument
    Environments <- MCPaperEnvironment
    ModelReplies <- MCTrades
    CommitErrors = {"rollback"}
    CanHang = FALSE
    MaxCycles = 2
    MaxPhaseChanges = 0
    MaxBoots = 1
CHECK_DEADLOCK FALSE
INVARIANT
    RecordReturnsItsRow
