------------------------------- MODULE MCRanking -------------------------------
(***************************************************************************)
(* Bounds: lists of three snapshots of up to three tickers, two dates of   *)
(* publication, six profiles and the blank snapshot of an error body.  The  *)
(* profiles are a base, one better in two factors, one better in some and  *)
(* worse in others, one without PB, ROE and revenue, and two that a filter *)
(* drops (expired, no growth).  With a top of two, three eligible stocks   *)
(* are cut; equal profiles tie.  In the same order their Springate scores  *)
(* are 0.862 (healthy by a hair), 0.5 (moderate by a hair), negative, 0    *)
(* for want of data, above the cutoff with a loss before tax, and 0.532.   *)
(***************************************************************************)
EXTENDS GemSentinel

Base == [age |-> 0, price |-> 2, eps |-> 3, prevEPS |-> 2, bvps |-> 1, pe |-> 4,
         pb |-> 2, roe |-> 2, revenue |-> 3, prevRevenue |-> 2,
         wc |-> 6, ebit |-> -1, ta |-> 5, ebt |-> 0, cl |-> 2]

Profiles == {
    Base,
    [Base EXCEPT !.price = 1, !.pe = 2, !.wc = 10, !.ebit = 0, !.ta = 23],
    [Base EXCEPT !.prevEPS = 1, !.pb = 3, !.prevRevenue = 3, !.wc = -1],
    [Base EXCEPT !.pb = Nil, !.roe = Nil, !.revenue = Nil,
                 !.wc = Nil, !.ebit = Nil, !.ta = Nil, !.ebt = Nil, !.cl = Nil],
    [Base EXCEPT !.age = 2, !.ebit = 2, !.ebt = -1],
    [Base EXCEPT !.prevEPS = 3, !.ebt = -1] }

Snapshots == {[f \in DOMAIN p \cup {"ticker", "published"} |->
                 CASE f = "ticker" -> t [] f = "published" -> d [] OTHER -> p[f]] :
              p \in Profiles, t \in Tickers, d \in {0, 1}}

Blank == [f \in DOMAIN Base \cup {"ticker", "published"} |->
            CASE f = "ticker" -> NoTicker [] f \in {"age", "price", "published"} -> 0
              [] OTHER -> Nil]

MCUniverses == [1 .. 3 -> Snapshots \cup {Blank}]
=============================================================================
