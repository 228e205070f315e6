SPECIFICATION Spec
CONSTANTS
    Tickers = {1, 2, 3}
    Universes <- MCUniverses
    Nil = Nil
    NoTicker = NoTicker
    TopN = 2
    SentinelTop = 2
    MaxAge = 1
    MinEPSGrowth = 10
    Unit = 12
CHECK_DEADLOCK FALSE
INVARIANTS
    TypeOK
    RankingIsDefinite
    BetterRanksHigher
    RawScoresAverageToTheMiddle
    WatchlistIsDefinite
    DistressIsShown
