-------------------------------- MODULE Ranking --------------------------------
(***************************************************************************)
(* service.Rank with the formulas of package scoring: snapshots are        *)
(* deduplicated by ticker, filtered, scored by percentile against each     *)
(* other, sorted, cut to the top and numbered.                             *)
(*                                                                         *)
(* Rank iterates over Go maps, whose order differs from run to run, and    *)
(* sorts with sort.Slice, which keeps no order among equals: both are      *)
(* nondeterministic here.  Numbers are exact: the ratios are compared by   *)
(* cross-multiplication, percentile scores are integers of which Unit is   *)
(* 100, weights are per cent, so the tolerance of 1e-9 and the rounding of *)
(* floats are left out.  The root of GrahamValue is left out too, because  *)
(* it changes no comparison of margins of safety.                          *)
(***************************************************************************)
EXTENDS Integers, Sequences, FiniteSets, FiniteSetsExt

CONSTANTS
    Tickers,       \* numbers, in the order of the tickers as strings
    Universes,     \* the lists of snapshots Rank is called with
    Nil,           \* a missing field
    NoTicker,      \* the ticker "" of a blank snapshot
    TopN,          \* 10
    MaxAge,        \* MaxDataAgeHours, 0 for no limit
    MinEPSGrowth,  \* in per cent
    Unit           \* the score 100

\* domain.Snapshot, as far as Rank and the Gem Sentinel read it.
Snapshot ==
    LET Optional == Int \cup {Nil} IN
    [ticker : Tickers \cup {NoTicker}, published : Int, age : Int, price : Int,
     eps : Optional, prevEPS : Optional, bvps : Optional, pe : Optional, pb : Optional,
     roe : Optional, revenue : Optional, prevRevenue : Optional,
     wc : Optional, ebit : Optional, ta : Optional, ebt : Optional, cl : Optional]

ASSUME RankingAssumption ==
    /\ Tickers \subseteq Nat /\ IsFiniteSet(Tickers)
    /\ Nil \notin Int
    /\ Universes \subseteq Seq(Snapshot)
    /\ {TopN, Unit} \subseteq Nat \ {0}
    /\ MaxAge \in Nat /\ MinEPSGrowth \in Int
    /\ \A n \in 1 .. Cardinality(Tickers) : Unit % (2 * n) = 0

VARIABLES
    snaps,  \* the argument
    pc,
    i,      \* how many snapshots the first loop has seen
    best,   \* the map best, as the set of its values
    mids,   \* the eligible stocks, as a set
    out     \* the result

vars == <<snaps, pc, i, best, mids, out>>

(***************************************************************************)
(* The formulas of package scoring, as fractions <<numerator, positive     *)
(* denominator>>.                                                          *)
(***************************************************************************)
Less(x, y) == x[1] * y[2] < y[1] * x[2]
Same(x, y) == x[1] * y[2] = y[1] * x[2]

Growth(new, old) == IF new = Nil \/ old = Nil THEN Nil
                    ELSE IF old <= 0 THEN Nil ELSE <<new - old, old>>
EPSGrowth(s) == Growth(s.eps, s.prevEPS)
RevenueGrowth(s) == Growth(s.revenue, s.prevRevenue)

\* Grows with 1 - price / sqrt(22.5 * eps * bvps).
MarginOfSafety(s) == <<-(s.price * s.price), s.eps * s.bvps>>
PEG(s) == <<s.pe * s.prevEPS, s.eps - s.prevEPS>>
Plain(x) == IF x = Nil THEN Nil ELSE <<x, 1>>

Factors == {"mos", "pe", "pb", "eps", "roe", "peg", "rev"}
LowerIsBetter == {"pe", "pb", "peg"}
Factor(k, s) == CASE k = "mos" -> MarginOfSafety(s)
                  [] k = "pe" -> Plain(s.pe)
                  [] k = "pb" -> Plain(s.pb)
                  [] k = "eps" -> EPSGrowth(s)
                  [] k = "roe" -> Plain(s.roe)
                  [] k = "peg" -> PEG(s)
                  [] k = "rev" -> RevenueGrowth(s)
Has(k, s) == Factor(k, s) # Nil

\* Mutant: equal values all take the lowest of their ranks.
PercentileOfLowestRank(k, s, stocks) ==
    LET all == {t \in stocks : Has(k, t)}
        less == Cardinality({t \in all : Less(Factor(k, t), Factor(k, s))})
        p == (less * Unit) \div (Cardinality(all) - 1)
    IN IF ~Has(k, s) \/ Cardinality(all) = 1 THEN Unit \div 2
       ELSE IF k \in LowerIsBetter THEN Unit - p ELSE p

\* Mutant: low is good for no factor.
PercentileUpwards(k, s, stocks) ==
    LET all == {t \in stocks : Has(k, t)}
        less == Cardinality({t \in all : Less(Factor(k, t), Factor(k, s))})
        equal == Cardinality({t \in all : Same(Factor(k, t), Factor(k, s))})
    IN IF ~Has(k, s) \/ Cardinality(all) = 1 THEN Unit \div 2
       ELSE ((2 * less + equal - 1) * Unit) \div (2 * (Cardinality(all) - 1))

\* PercentileScore, and Rank's neutral 50 for a missing factor: the rank among
\* the values present, ties averaged.
Percentile(k, s, stocks) ==
    LET all == {t \in stocks : Has(k, t)}
        less == Cardinality({t \in all : Less(Factor(k, t), Factor(k, s))})
        equal == Cardinality({t \in all : Same(Factor(k, t), Factor(k, s))})
        p == ((2 * less + equal - 1) * Unit) \div (2 * (Cardinality(all) - 1))
    IN IF ~Has(k, s) \/ Cardinality(all) = 1 THEN Unit \div 2
       ELSE IF k \in LowerIsBetter THEN Unit - p ELSE p

GrahamScore(s, stocks) ==
    LET P(k) == Percentile(k, s, stocks)
    IN 40 * P("mos") + 20 * P("pe") + 15 * P("pb") + 15 * P("eps") + 10 * P("roe")
LynchScore(s, stocks) ==
    LET P(k) == Percentile(k, s, stocks)
    IN 50 * P("peg") + 25 * P("eps") + 15 * P("rev") + 10 * P("roe")
GLScore(s, stocks) == 55 * GrahamScore(s, stocks) + 45 * LynchScore(s, stocks)

(***************************************************************************)
(* Rank, loop by loop.                                                     *)
(***************************************************************************)
\* Mutant: the newer snapshot is kept beside the older one.
SeenKeepingBoth(kept, s) ==
    LET older == {t \in kept : t.ticker = s.ticker /\ s.published > t.published}
    IN IF older # {} \/ \A t \in kept : t.ticker # s.ticker THEN kept \cup {s} ELSE kept

\* One round of the first loop, on the values of the map best.
Seen(kept, s) ==
    LET older == {t \in kept : t.ticker = s.ticker /\ s.published > t.published}
    IN IF older # {} \/ \A t \in kept : t.ticker # s.ticker
       THEN (kept \ older) \cup {s} ELSE kept

Dedup ==
    /\ pc = "dedup" /\ i < Len(snaps)
    /\ best' = Seen(best, snaps[i + 1])
    /\ i' = i + 1
    /\ UNCHANGED <<snaps, pc, mids, out>>

EndDedup ==
    /\ pc = "dedup" /\ i = Len(snaps)
    /\ pc' = "filter"
    /\ UNCHANGED <<snaps, i, best, mids, out>>

Eligible(s) ==
    /\ s.ticker # NoTicker /\ s.price > 0 /\ s.eps # Nil
    /\ ~(MaxAge > 0 /\ s.age > MaxAge)
    /\ s.bvps # Nil
    /\ s.eps > 0 /\ s.bvps > 0
    /\ s.pe # Nil /\ s.pe > 0
    /\ EPSGrowth(s) # Nil
    /\ (s.eps - s.prevEPS) * 100 > MinEPSGrowth * s.prevEPS
    /\ s.eps > s.prevEPS

\* The loop over the map visits it in any order.
Filter ==
    /\ pc = "filter"
    /\ \E s \in best :
        /\ best' = best \ {s}
        /\ mids' = IF Eligible(s) THEN mids \cup {s} ELSE mids
    /\ UNCHANGED <<snaps, pc, i, out>>

\* What the sort compares, key by key; the higher comes first.
Keys(stocks) ==
    [s \in stocks |-> <<<<GLScore(s, stocks), 1>>, <<GrahamScore(s, stocks), 1>>,
                        <<LynchScore(s, stocks), 1>>, MarginOfSafety(s), EPSGrowth(s),
                        <<-s.ticker, 1>>>>]

\* Mutant: without the ticker the order of equals is left to the sort.
BeforeWithoutTicker(x, y) ==
    \E n \in 1 .. 5 : /\ Less(y[n], x[n])
                      /\ \A m \in 1 .. n - 1 : Same(x[m], y[m])

\* The comparison sort.Slice is given.
Before(x, y) ==
    \E n \in 1 .. 6 : /\ Less(y[n], x[n])
                      /\ \A m \in 1 .. n - 1 : Same(x[m], y[m])

\* Every order sort.Slice may leave S in: none is ahead of one that comes
\* before it.  The comparison is a set of pairs.
Sortings(S, before) ==
    LET places == 1 .. Cardinality(S)
    IN {o \in [places -> S] :
          \A m, n \in places : m < n => o[m] # o[n] /\ <<o[n], o[m]>> \notin before}

Orders(stocks) ==
    LET keys == Keys(stocks)
    IN Sortings(stocks, {p \in stocks \X stocks : Before(keys[p[1]], keys[p[2]])})

Top(order) == SubSeq(order, 1, IF Len(order) > TopN THEN TopN ELSE Len(order))

ScoreAndSort ==
    /\ pc = "filter" /\ best = {}
    /\ \E order \in Orders(mids) : out' = Top(order)
    /\ pc' = "done"
    /\ UNCHANGED <<snaps, i, best, mids>>

Init ==
    /\ snaps \in Universes
    /\ pc = "dedup" /\ i = 0 /\ best = {} /\ mids = {} /\ out = <<>>

Next == Dedup \/ EndDedup \/ Filter \/ ScoreAndSort

Spec == Init /\ [][Next]_vars
-----------------------------------------------------------------------------
Given == {snaps[n] : n \in DOMAIN snaps}

TypeOK ==
    /\ pc \in {"dedup", "filter", "done"}
    /\ i \in 0 .. Len(snaps)
    /\ best \subseteq Given /\ mids \subseteq Given
    /\ \A s, t \in best \cup mids : s.ticker = t.ticker => s = t
    /\ Len(out) <= TopN /\ \A n \in DOMAIN out : out[n] \in mids

\* What Rank should keep, said without its loops: of each ticker the first of
\* its newest snapshots, if eligible.
Kept == {snaps[n] : n \in {m \in DOMAIN snaps :
            /\ Eligible(snaps[m])
            /\ \A k \in DOMAIN snaps : snaps[k].ticker = snaps[m].ticker =>
                  \/ snaps[k].published < snaps[m].published
                  \/ snaps[k].published = snaps[m].published /\ k >= m}}

\* The same market data always gives the same ranking: in whatever order Rank
\* visits its maps and its sort moves equals, each kept stock is at the place
\* that the number of better ones gives it, and scored against kept ones only.
RankingIsDefinite ==
    pc = "done" => LET keys == Keys(Kept) IN
        /\ Len(out) = IF Cardinality(Kept) > TopN THEN TopN ELSE Cardinality(Kept)
        /\ \A n \in DOMAIN out :
              /\ out[n] \in Kept
              /\ Cardinality({s \in Kept : Before(keys[s], keys[out[n]])}) = n - 1

\* A stock at least as good in every factor, with no factor missing, and better
\* in one is never ranked below the other, missed by the cut included.
AtLeast(k, a, b) == IF k \in LowerIsBetter THEN ~Less(Factor(k, b), Factor(k, a))
                                           ELSE ~Less(Factor(k, a), Factor(k, b))
Dominates(a, b) ==
    /\ \A k \in Factors : Has(k, a) /\ Has(k, b) /\ AtLeast(k, a, b)
    /\ \E k \in Factors : ~AtLeast(k, b, a)

BetterRanksHigher ==
    pc = "done" => \A a, b \in mids : Dominates(a, b) =>
        \A n \in DOMAIN out : out[n] = b => \E m \in 1 .. n - 1 : out[m] = a

\* Scores are a curve: whatever is tied or missing, what GLScore returns averages
\* 50 over the stocks of a run, as methodology.html:95 says of a percentile ("the
\* average company gets around 50") and README.md:89 means by "a neutral
\* percentile" for a missing PB or ROE.  These are the scores Rank sorts by and
\* users see; methodology.html:115 calls them GLScore_raw.  The page's final score
\* (lines 117-122), scaled and cut at 100, is computed nowhere.
RawScoresAverageToTheMiddle ==
    pc = "done" => MapThenSumSet(LAMBDA s : GLScore(s, mids), mids)
                     = Cardinality(mids) * (Unit \div 2) * 100 * 100
=============================================================================
