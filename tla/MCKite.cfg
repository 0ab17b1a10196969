SPECIFICATION Spec
CONSTANTS
    nse = nse
    nfo = nfo
    infy = infy
    future = future
    Callers = {loop, now1}
    Exchanges <- MCExchanges
    Symbols <- MCSymbols
    Listings <- MCListings
    MaxDays = 2
    MaxLogins = 2
INVARIANTS
    TypeOK
    CandlesAreOfTheContract
PROPERTIES
    ListedContractsAreKnown
    SessionEndsWithItsDay
