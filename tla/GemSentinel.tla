------------------------------ MODULE GemSentinel ------------------------------
(***************************************************************************)
(* service.GetTop5SpringateDistress with package gemsentinel: the          *)
(* watchlist of the stocks most likely to fail, computed from the same     *)
(* snapshots as the ranking of module Ranking.  It changes no state, so    *)
(* the module has operators only: Watchlists is the set of every result    *)
(* that the order of the map and the unstable sort leave open.             *)
(*                                                                         *)
(* Scores and ratios are integers, 10000 of which are 1: the code rounds   *)
(* them to four digits.  The sum is exact before it is rounded.            *)
(***************************************************************************)
EXTENDS Ranking

CONSTANT SentinelTop  \* 5

ASSUME SentinelAssumption == SentinelTop \in Nat \ {0}

CutoffDistress == 8620
CutoffCritical == 5000

\* The snapshot that wins for each ticker, found by the loop that Rank has too.
Newest(list) ==
    LET kept[n \in 0 .. Len(list)] ==
          IF n = 0 THEN {} ELSE Seen(kept[n - 1], list[n])
    IN kept[Len(list)]

Value(x) == IF x = Nil THEN 0 ELSE x
Over(x, y) == IF Value(y) <= 0 THEN <<0, 1>> ELSE <<Value(x), Value(y)>>

Times(n, x) == <<n * x[1], x[2]>>
Plus(x, y) == <<x[1] * y[2] + y[1] * x[2], x[2] * y[2]>>

\* math.Round: halves go away from zero.
Round(x) == IF x[1] >= 0 THEN (2 * x[1] + x[2]) \div (2 * x[2])
                         ELSE -((-2 * x[1] + x[2]) \div (2 * x[2]))

Ratios(s) == <<Over(s.wc, s.ta), Over(s.ebit, s.ta), Over(s.ebt, s.cl),
               Over(s.revenue, s.ta)>>

\* The Springate score: three of the four ratios share a denominator.
Springate(s) ==
    Round(Plus(Over(10300 * Value(s.wc) + 30700 * Value(s.ebit)
                      + 4000 * Value(s.revenue), s.ta),
               Over(6600 * Value(s.ebt), s.cl)))

Zone(score) == IF score < CutoffCritical THEN "CRITICAL"
               ELSE IF score < CutoffDistress THEN "MODERATE" ELSE "HEALTHY"

\* IdentifyPrimaryVulnerability, from the rounded ratios.
Vulnerability(s) ==
    LET x == [n \in 1 .. 4 |-> Round(Times(10000, Ratios(s)[n]))] IN
    CASE x[1] < 0 /\ x[2] < 0 -> "deficit and loss"
      [] x[1] < 0 /\ x[2] >= 0 -> "deficit"
      [] x[1] >= 0 /\ x[2] < 0 -> "loss"
      [] x[1] >= 0 /\ x[2] >= 0 /\ x[3] < 0 -> "liabilities"
      [] OTHER -> IF x[4] < 2000 THEN "turnover" ELSE "declining"

Row(s) == [ticker |-> s.ticker, score |-> Springate(s), zone |-> Zone(Springate(s)),
           vulnerability |-> Vulnerability(s)]

Scanned(list) == {Row(s) : s \in {t \in Newest(list) : t.ticker # NoTicker}}

\* Mutant: the order of equal scores is left to the sort.
WorseByScore(a, b) == a.score < b.score

Worse(a, b) == \/ a.score < b.score
               \/ a.score = b.score /\ a.ticker < b.ticker

\* Every order sort.Slice may leave the rows in.
Sorted(rows) == Sortings(rows, {p \in rows \X rows : Worse(p[1], p[2])})

\* The loop of the distress filter: the rows below a cutoff, in their order.
ScoredBelow(cutoff, order) ==
    LET kept[n \in 0 .. Len(order)] ==
          IF n = 0 THEN <<>>
          ELSE IF order[n].score < cutoff THEN Append(kept[n - 1], order[n]) ELSE kept[n - 1]
    IN kept[Len(order)]

TopOfList(rows) == SubSeq(rows, 1, IF Len(rows) > SentinelTop THEN SentinelTop ELSE Len(rows))

\* Mutant: the distress filter is forgotten; healthy stocks fill the list up.
CutUnfiltered(order) == TopOfList(order)

\* Stocks in distress, or the lowest scores if there are none; at most five.
Cut(order) ==
    LET distressed == ScoredBelow(CutoffDistress, order)
    IN TopOfList(IF distressed = <<>> THEN order ELSE distressed)

Watchlists(list) == {Cut(order) : order \in Sorted(Scanned(list))}
-----------------------------------------------------------------------------
\* GET /gemsentinel, GET /api/v1/gemsentinel and the digest compute the list
\* anew each time: from the same snapshots they must show the same list,
\* whatever the order of the map and of the sort (ranking.go:196, 224).
WatchlistIsDefinite ==
    pc = "done" => Cardinality(Watchlists(snaps)) = 1

\* The list is of the stocks scanned, the worst first.  A healthy stock is on it
\* only when nobody is in distress, and a stock is left out only for worse ones
\* that fill the list, or because it is healthy and others are not; so a market
\* with stocks has a list (the sort, the filter, the fallback and the cut of
\* ranking.go:224-246).
DistressIsShown ==
    pc = "done" => \A list \in Watchlists(snaps) :
        LET shown == {list[n] : n \in DOMAIN list}
            rows == Scanned(snaps)
        IN /\ shown \subseteq rows
           /\ \A m, n \in DOMAIN list : m < n => list[m].score <= list[n].score
           /\ \A t \in shown : Zone(t.score) = "HEALTHY" =>
                 \A r \in rows : Zone(r.score) = "HEALTHY"
           /\ \A r \in rows \ shown :
                 \/ Len(list) = SentinelTop /\ \A t \in shown : t.score <= r.score
                 \/ Zone(r.score) = "HEALTHY" /\ \E t \in shown : Zone(t.score) # "HEALTHY"
===============================================================================
