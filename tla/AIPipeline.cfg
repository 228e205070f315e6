SPECIFICATION FairSpec
CONSTANTS
    t1 = t1
    t2 = t2
    Tickers = {t1, t2}
    Rankings <- MCRankings
    RunIds <- MCRunIds
    Minutes <- MCMinutes
    Gens <- MCGens
    QueueCap = 2
    LLMEnabled = TRUE
    MaxEnqueues = 4
INVARIANTS
    TypeOK
    NoRunLost
    AnalysisMatchesRun
    TickerFollowsQueue
PROPERTY AcceptedIsAnalysed
