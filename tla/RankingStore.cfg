SPECIFICATION FairSpec
CONSTANTS
    t1 = t1
    t2 = t2
    Tickers = {t1, t2}
    Rankings <- MCRankings
    RunIds <- MCRunIds
    Minutes <- MCMinutes
    Gens <- MCGens
    Callers = {c1, c2}
    NoCaller = NoCaller
    HistCap = 2
INVARIANTS
    VisibleIsDurable
    HistoryIsNewestRuns
PROPERTIES
    ImplementsFeed
    LockReleased
