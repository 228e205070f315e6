--------------------------- MODULE MCAIPipeline ---------------------------
EXTENDS AIPipeline

CONSTANTS t1, t2

\* Rankings that share a ticker, so that one analysis can replace another.
MCRankings == {<<t1, t2>>, <<t2>>}

MCRunIds == 1..2
MCMinutes == {0}
MCGens == {0}
=============================================================================
