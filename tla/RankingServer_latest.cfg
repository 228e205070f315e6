SPECIFICATION Spec
CONSTANTS
    t1 = t1
    MaxMinute = 1
    Tickers = {t1}
    Rankings <- MCRankings
    RunIds <- MCRunIds
    Minutes <- MCMinutes
    Gens <- MCGens
    Scheduler = Scheduler
    Handlers = {h1, h2}
    NoCaller = NoCaller
    HistCap = 2
    QueueCap = 1
    LLMEnabled = FALSE
    LiveEnabled = TRUE
    MaxCycles = 3
PROPERTY LatestNeverGoesBack
