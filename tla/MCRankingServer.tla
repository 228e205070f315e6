-------------------------- MODULE MCRankingServer --------------------------
EXTENDS RankingServer, TLC

CONSTANTS t1,
          MaxMinute   \* bound of the clock

MCRankings == {<<t1>>}

MCRunIds == 1..MaxCycles
MCMinutes == 0..MaxMinute
MCGens == 0..1

HandlerSymmetry == Permutations(Handlers)
=============================================================================
