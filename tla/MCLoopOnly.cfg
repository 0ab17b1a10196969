SPECIFICATION Spec
CONSTANTS
    loop = loop
    now1 = now1
    now2 = now2
    op1 = op1
    op2 = op2
    eur = eur
    gbp = gbp
    noname = noname
    Loop = loop
    NoName = noname
    RunNowThreads = {}
    PhaseThreads = {op1}
    Watchlist <- MCTwo
    Instruments <- MCInstruments
    Environments <- MCPaperEnvironments
    ModelReplies <- MCStrayReplies
    CommitErrors = {"busy", "rollback"}
    CanHang = TRUE
    MaxCycles = 2
    MaxPhaseChanges = 1
    MaxBoots = 2
CHECK_DEADLOCK FALSE
INVARIANTS
    TypeOK
    EveryFillIsAudited
    FilledOnce
    QuietDashboardMeansLoopRuns
PROPERTIES
    AuditTrailIsAppendOnly
    LedgerSpec
