SPECIFICATION FairSpec
CONSTANTS
    Symbols = {a, b}
    NoSymbol = NoSymbol
    NoRow = NoRow
    Refresher = refresher
    Readers = {r1}
    Limit = 2
    MaxTry = 2
    TTL = 1
    PageSize = 2
    MaxRows = 3
    MaxHour = 1
INVARIANTS
    UniverseWithinLimit
PROPERTIES
    RefreshKeepsCachedStocks
    RefreshEnds
