SPECIFICATION Spec
CONSTANTS
    eur = eur
    noname = noname
    loop = loop
    now1 = now1
    b1 = b1
    none = none
    right = right
    wrong = wrong
    unicode = unicode
    k1 = k1
    k2 = k2
    Instruments = {eur}
    NoName = noname
    None = none
    Loop = loop
    RunNowThreads = {now1}
    Browsers = {b1}
    Words = {right, wrong, unicode}
    AsciiWords = {right, wrong}
    SigningKeys = {k1, k2}
    Configs <- MCConfigs
    FormPhases = {"autonomous", "unknown"}
    Findings <- MCFindings
    Queries <- MCQueries
    CommitErrors = {"rollback"}
    MicrosPerSecond = 2
    SessionMaxAge = 0
    PageLimit = 1
    MaxMoment = 3
    MaxDecisions = 2
    MaxRequests = 3
    MaxBoots = 2
CHECK_DEADLOCK FALSE
INVARIANTS
    TypeOK
PROPERTIES
    SessionsDecideAccess
    AnswersAreTheLatest
    ShownDecisionsStay
