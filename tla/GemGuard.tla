-------------------------------- MODULE GemGuard --------------------------------
(***************************************************************************)
(* Gem Guard: the risk score of package gemguard, the surveillance list of *)
(* main.go, which is a constant sample of five stocks, and who is at high  *)
(* risk for the page and for the digest.                                   *)
(*                                                                         *)
(* Kept: every threshold and its side.  Indicators are in hundredths of    *)
(* the code's units, so the rounding of ARAThreshold*0.8 as a float is     *)
(* left out, and so are the indicators that ComputeRiskScore does not read *)
(* and the wording of the risk factors.  The metrics of the package        *)
(* (velocity, RSI, ARABoundary ...) have no caller outside its tests.      *)
(***************************************************************************)
EXTENDS Integers, FiniteSets

PIRPoints(s) == IF s.pir > 200 THEN 30 ELSE IF s.pir > 100 THEN 15 ELSE 0
VolumePoints(s) == IF s.volume >= 500 THEN 25 ELSE IF s.volume >= 300 THEN 15 ELSE 0
ARAPoints(s) == IF s.spike >= s.ara THEN 25 ELSE IF 10 * s.spike >= 8 * s.ara THEN 10 ELSE 0
ConsecutivePoints(s) == IF s.consec >= 2 THEN 20 ELSE 0
LeveragePoints(s) == IF s.der > 200 THEN 10 ELSE 0
SellingPoints(s) == IF s.selling > 500 THEN 15 ELSE 0
MomentumPoints(s) == IF s.rsi > 8000 THEN 5 ELSE 0

Points(s) == PIRPoints(s) + VolumePoints(s) + ARAPoints(s) + ConsecutivePoints(s)
               + LeveragePoints(s) + SellingPoints(s) + MomentumPoints(s)

RiskScore(s) == IF Points(s) > 100 THEN 100 ELSE Points(s)

RiskLevel(s) == IF RiskScore(s) >= 70 THEN "HIGH"
                ELSE IF RiskScore(s) >= 40 THEN "MEDIUM" ELSE "LOW"

UMASuspected(s) ==
    s.consec >= 2 \/ (100 * s.spike >= 95 * s.ara /\ s.volume >= 300)

\* The sample; ticker stands for the place of the ticker in their order.
Stock(ticker, pir, volume, spike, ara, consec, der, selling, rsi) ==
    [ticker |-> ticker, pir |-> pir, volume |-> volume, spike |-> spike, ara |-> ara,
     consec |-> consec, der |-> der, selling |-> selling, rsi |-> rsi]

PUMP == Stock(4, 450, 550, 3450, 3500, 2, 320, 750, 8800)
GOTO == Stock(3, 142, 310, 1250, 3500, 0, 25, 120, 6200)
BBCA == Stock(2, 25, 95, 80, 2000, 0, 0, 0, 5400)
ASII == Stock(1, 55, 120, 180, 2000, 0, 102, 0, 4800)
TLKM == Stock(5, 42, 105, -50, 2500, 0, 78, 0, 4200)
Surveillance == {PUMP, GOTO, BBCA, ASII, TLKM}

\* The place of a stock in the sorted list.
Riskier(s, t) == \/ RiskScore(s) > RiskScore(t)
                 \/ RiskScore(s) = RiskScore(t) /\ s.ticker < t.ticker
Rank(s, stocks) == 1 + Cardinality({t \in stocks : Riskier(t, s)})

\* Mutant: nobody is above the cap of the score.
HighAboveCap(stocks) == {s \in stocks : RiskScore(s) > 100}

\* Whom the page counts, and whom the digest warns of.
HighOnPage(stocks) == {s \in stocks : RiskLevel(s) = "HIGH"}
HighInDigest(stocks) == {s \in stocks : RiskLevel(s) = "HIGH" \/ RiskScore(s) >= 70}
=================================================================================
