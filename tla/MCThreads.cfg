SPECIFICATION Spec
CONSTANTS
    loop = loop
    now1 = now1
    now2 = now2
    op1 = op1
    op2 = op2
    eur = eur
    gbp = gbp
    noname = noname
    Loop = loop
    NoName = noname
    RunNowThreads = {now1}
    PhaseThreads = {op1, op2}
    Watchlist <- MCOne
    Instruments <- MCOneInstrument
    Environments <- MCTwoEnvironments
    ModelReplies <- MCTrades
    CommitErrors = {"busy"}
    CanHang = FALSE
    MaxCycles = 2
    MaxPhaseChanges = 2
    MaxBoots = 2
CHECK_DEADLOCK FALSE
INVARIANTS
    EveryFillIsAudited
    FilledOnce
    AcknowledgedPhaseLasts
PROPERTIES
    LedgerMovesUnderPaper
SYMMETRY MCRequestSymmetry
