SPECIFICATION FairSpec
CONSTANTS
    t1 = t1
    MaxMinute = 0
    Tickers = {t1}
    Rankings <- MCRankings
    RunIds <- MCRunIds
    Minutes <- MCMinutes
    Gens <- MCGens
    Scheduler = Scheduler
    Handlers = {h1}
    NoCaller = NoCaller
    HistCap = 2
    QueueCap = 1
    LLMEnabled = FALSE
    LiveEnabled = FALSE
    MaxCycles = 3
PROPERTY CyclesReturn
