-------------------------- MODULE MCRankingStore --------------------------
EXTENDS RankingStore

CONSTANTS t1, t2

\* A full ranking, a shorter one and the empty one.
MCRankings == {<<t1, t2>>, <<t2>>, <<>>}

\* One more run than the history keeps, and one more to crash on.
MCRunIds == 1..4

MCMinutes == {0}
MCGens == {0}
=============================================================================
