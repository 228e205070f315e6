---------------------------- MODULE MapReportProofs ----------------------------
(***************************************************************************)
(* Proofs about MapReport for any reports: lists of any length, any years  *)
(* up to any bound, any figures missing.  Merging is the inductive         *)
(* strengthening: after n rows of a list, each year of the map has the     *)
(* figures of the last of those rows, or of none.                          *)
(***************************************************************************)
EXTENDS MapReport, WellFoundedInduction, TLAPS

\* There is a newest year in every set of years.
LEMMA NewestIsNewest ==
    ASSUME NEW S, S \subseteq Years, S # {}
    PROVE  Newest(S) \in S /\ \A z \in S : z <= Newest(S)
<1> DEFINE T == {MaxYear - y : y \in S}
           R == OpToRel(<, Nat)
<1>1. MaxYear \in Nat /\ \A y \in S : y \in 1 .. MaxYear
  BY MapReportAssumption DEF Years
<1>2. T \subseteq Nat /\ T # {}
  BY <1>1
<1>3. IsWellFoundedOn(R, Nat)
  BY NatLessThanWellFounded
<1>4. \E x \in T : \A y \in T : ~ (<<y, x>> \in R)
  <2> HIDE DEF T, R
  <2> QED
    BY <1>2, <1>3, WFMin
<1>5. \A a, b \in Nat : a < b => <<a, b>> \in R
  BY DEF OpToRel
<1>6. PICK x \in T : \A y \in T : ~ (y < x)
  BY <1>2, <1>4, <1>5
<1>7. PICK y \in S : x = MaxYear - y
  BY <1>6
<1>8. \A z \in S : z <= y
  <2> TAKE z \in S
  <2>1. MaxYear - z \in T
    OBVIOUS
  <2>2. ~ (MaxYear - z < MaxYear - y)
    BY <1>6, <1>7, <2>1
  <2> QED
    BY <1>1, <2>2
<1> QED
  BY <1>7, <1>8 DEF Newest

-----------------------------------------------------------------------------
\* The years of a map and their figures, after n rows of a list.
Merged(map, rows, figures, n) ==
    /\ \A k \in 1 .. n : rows[k].year \in DOMAIN map
    /\ \A y \in DOMAIN map :
          \/ /\ \A k \in 1 .. n : rows[k].year # y
             /\ \A f \in figures : map[y][f] = Nil
          \/ \E k \in 1 .. n :
                /\ rows[k].year = y
                /\ \A j \in k + 1 .. n : rows[j].year # y
                /\ \A f \in figures : map[y][f] = rows[k].figure[f]

\* Their EPS, after all years of HistEPS but keys.
MergedEarnings ==
    /\ DOMAIN report.histEPS \ keys \subseteq DOMAIN m
    /\ \A y \in DOMAIN m :
          m[y]["eps"] = IF y \in DOMAIN report.histEPS \ keys THEN report.histEPS[y] ELSE Nil

MapTyped == DOMAIN m \subseteq Years /\ m \in [DOMAIN m -> [Figures -> Value]]

\* How far each list has been merged, and what the snapshot is.
Progress ==
    /\ IsReport(report)
    /\ pc \in {"fin", "eps", "val", "done"}
    /\ i \in Nat /\ i <= Len(IF pc \in {"fin", "eps"} THEN report.fin ELSE report.val)
    /\ keys \subseteq DOMAIN report.histEPS
    /\ pc \in {"val", "done"} => keys = {}
    /\ pc = "eps" => i = Len(report.fin)
    /\ snap = IF pc = "done" /\ DOMAIN m # {} THEN Choose ELSE [year |-> 0, eps |-> report.eps]

FinRows == IF pc = "fin" THEN i ELSE Len(report.fin)
ValRows == IF pc \in {"fin", "eps"} THEN 0
           ELSE IF pc = "val" THEN i ELSE Len(report.val)

Merging ==
    /\ MapTyped
    /\ Merged(m, report.fin, StatementFigures, FinRows)
    /\ MergedEarnings
    /\ Merged(m, report.val, ValuationFigures, ValRows)

Inv == Progress /\ Merging

LEMMA InitInv == Init => Inv
<1> SUFFICES ASSUME Init PROVE Inv
  OBVIOUS
<1>1. IsReport(report)
  BY MapReportAssumption DEF Init
<1>2. DOMAIN m = {} /\ m \in [{} -> [Figures -> Value]]
  BY DEF Init
<1>3. Progress
  BY <1>1, <1>2 DEF Init, Progress, IsReport
<1>4. FinRows = 0 /\ ValRows = 0 /\ keys = DOMAIN report.histEPS
  BY DEF Init, FinRows, ValRows
<1>5. Merging
  BY <1>2, <1>4 DEF Merging, MapTyped, Merged, MergedEarnings
<1> QED
  BY <1>3, <1>5 DEF Inv

\* What merging one row does to the map.
LEMMA MergeEffect ==
    ASSUME NEW y \in Years, NEW figs \in SUBSET Figures, NEW figure \in [figs -> Value],
           MapTyped, m' = Merge(y, figure)
    PROVE  /\ MapTyped'
           /\ DOMAIN m' = DOMAIN m \cup {y}
           /\ \A z \in DOMAIN m : z # y => m'[z] = m[z]
           /\ \A f \in figs : m'[y][f] = figure[f]
           /\ \A f \in Figures \ figs :
                 m'[y][f] = IF y \in DOMAIN m THEN m[y][f] ELSE Nil
<1>1. Entry(y) \in [Figures -> Value]
  BY DEF Entry, Missing, MapTyped, Value
<1>2. /\ DOMAIN m' = DOMAIN m \cup {y}
      /\ \A z \in DOMAIN m : z # y => m'[z] = m[z]
      /\ m'[y] = [f \in Figures |-> IF f \in figs THEN figure[f] ELSE Entry(y)[f]]
  BY DEF Merge
<1>3. m'[y] \in [Figures -> Value]
  BY <1>1, <1>2
<1>4. m' = [z \in DOMAIN m' |-> m'[z]]
  BY DEF Merge
<1>5. MapTyped'
  <2>1. \A z \in DOMAIN m' : m'[z] \in [Figures -> Value]
    BY <1>2, <1>3 DEF MapTyped
  <2> QED
    BY <1>2, <1>4, <2>1 DEF MapTyped
<1> QED
  BY <1>1, <1>2, <1>5 DEF Entry, Missing

\* Merging the next row of a list ...
LEMMA MergeNext ==
    ASSUME NEW rows, NEW figs \in SUBSET Figures, NEW n \in Nat,
           rows[n + 1].year \in Years, rows[n + 1].figure \in [figs -> Value],
           MapTyped, Merged(m, rows, figs, n),
           m' = Merge(rows[n + 1].year, rows[n + 1].figure)
    PROVE  Merged(m', rows, figs, n + 1)
<1> DEFINE r == rows[n + 1]
<1>1. /\ DOMAIN m' = DOMAIN m \cup {r.year}
      /\ \A z \in DOMAIN m : z # r.year => m'[z] = m[z]
      /\ \A f \in figs : m'[r.year][f] = r.figure[f]
  BY MergeEffect
<1>2. \A k \in 1 .. n + 1 : rows[k].year \in DOMAIN m'
  <2> TAKE k \in 1 .. n + 1
  <2>1. k \in 1 .. n \/ k = n + 1
    OBVIOUS
  <2> QED
    BY <1>1, <2>1 DEF Merged
<1>3. ASSUME NEW y \in DOMAIN m'
      PROVE  \/ /\ \A k \in 1 .. n + 1 : rows[k].year # y
                /\ \A f \in figs : m'[y][f] = Nil
             \/ \E k \in 1 .. n + 1 :
                   /\ rows[k].year = y
                   /\ \A j \in k + 1 .. n + 1 : rows[j].year # y
                   /\ \A f \in figs : m'[y][f] = rows[k].figure[f]
  <2>1. CASE y = r.year
    <3>1. n + 1 \in 1 .. n + 1 /\ \A j \in (n + 1) + 1 .. n + 1 : FALSE
      OBVIOUS
    <3> QED
      BY <1>1, <2>1, <3>1
  <2>2. CASE y # r.year
    <3>1. y \in DOMAIN m /\ m'[y] = m[y]
      BY <1>1, <2>2
    <3>2. CASE /\ \A k \in 1 .. n : rows[k].year # y
               /\ \A f \in figs : m[y][f] = Nil
      <4>1. \A k \in 1 .. n + 1 : rows[k].year # y
        <5> TAKE k \in 1 .. n + 1
        <5>1. k \in 1 .. n \/ k = n + 1
          OBVIOUS
        <5> QED
          BY <2>2, <3>2, <5>1
      <4> QED
        BY <3>1, <3>2, <4>1
    <3>3. CASE \E k \in 1 .. n :
                  /\ rows[k].year = y
                  /\ \A j \in k + 1 .. n : rows[j].year # y
                  /\ \A f \in figs : m[y][f] = rows[k].figure[f]
      <4>1. PICK k \in 1 .. n :
                  /\ rows[k].year = y
                  /\ \A j \in k + 1 .. n : rows[j].year # y
                  /\ \A f \in figs : m[y][f] = rows[k].figure[f]
        BY <3>3
      <4>2. \A j \in k + 1 .. n + 1 : rows[j].year # y
        <5> TAKE j \in k + 1 .. n + 1
        <5>1. j \in k + 1 .. n \/ j = n + 1
          OBVIOUS
        <5> QED
          BY <2>2, <4>1, <5>1
      <4>3. k \in 1 .. n + 1
        OBVIOUS
      <4> QED
        BY <3>1, <4>1, <4>2, <4>3
    <3> QED
      BY <3>1, <3>2, <3>3 DEF Merged
  <2> QED
    BY <2>1, <2>2
<1> QED
  BY <1>2, <1>3 DEF Merged

\* ... leaves what was merged of another list; a year that is new to the map
\* has no row there.
LEMMA MergeOther ==
    ASSUME NEW rows, NEW others \in SUBSET Figures, NEW n \in Nat,
           NEW y \in Years, NEW figs \in SUBSET (Figures \ others),
           NEW figure \in [figs -> Value],
           MapTyped, Merged(m, rows, others, n), m' = Merge(y, figure)
    PROVE  Merged(m', rows, others, n)
<1>1. /\ DOMAIN m' = DOMAIN m \cup {y}
      /\ \A z \in DOMAIN m : z # y => m'[z] = m[z]
      /\ \A f \in others : m'[y][f] = IF y \in DOMAIN m THEN m[y][f] ELSE Nil
  BY MergeEffect
<1>2. \A z \in DOMAIN m, f \in others : m'[z][f] = m[z][f]
  BY <1>1
<1>3. y \notin DOMAIN m => \A k \in 1 .. n : rows[k].year # y
  BY DEF Merged
<1>4. \A k \in 1 .. n : rows[k].year \in DOMAIN m'
  BY <1>1 DEF Merged
<1>5. ASSUME NEW z \in DOMAIN m'
      PROVE  \/ /\ \A k \in 1 .. n : rows[k].year # z
                /\ \A f \in others : m'[z][f] = Nil
             \/ \E k \in 1 .. n :
                   /\ rows[k].year = z
                   /\ \A j \in k + 1 .. n : rows[j].year # z
                   /\ \A f \in others : m'[z][f] = rows[k].figure[f]
  <2>1. CASE z \in DOMAIN m
    BY <1>2, <2>1 DEF Merged
  <2>2. CASE z \notin DOMAIN m
    BY <1>1, <1>3, <2>2
  <2> QED
    BY <2>1, <2>2
<1> QED
  BY <1>4, <1>5 DEF Merged

\* The same of the EPS.
LEMMA MergeKeepsEarnings ==
    ASSUME NEW y \in Years, NEW figs \in SUBSET (Figures \ {"eps"}),
           NEW figure \in [figs -> Value],
           MapTyped, MergedEarnings, m' = Merge(y, figure),
           report' = report, keys' = keys, keys \subseteq DOMAIN report.histEPS
    PROVE  MergedEarnings'
<1>1. /\ DOMAIN m' = DOMAIN m \cup {y}
      /\ \A z \in DOMAIN m : z # y => m'[z] = m[z]
      /\ m'[y]["eps"] = IF y \in DOMAIN m THEN m[y]["eps"] ELSE Nil
  BY MergeEffect DEF Figures
<1>2. y \notin DOMAIN m => y \notin DOMAIN report.histEPS \ keys
  BY DEF MergedEarnings
<1> QED
  BY <1>1, <1>2 DEF MergedEarnings

LEMMA MergeEarning ==
    ASSUME NEW y \in keys, report.histEPS[y] \in Value, y \in Years,
           MapTyped, MergedEarnings,
           m' = Merge(y, [f \in {"eps"} |-> report.histEPS[y]]),
           report' = report, keys' = keys \ {y}, keys \subseteq DOMAIN report.histEPS
    PROVE  MergedEarnings'
<1>1. /\ DOMAIN m' = DOMAIN m \cup {y}
      /\ \A z \in DOMAIN m : z # y => m'[z] = m[z]
      /\ m'[y]["eps"] = report.histEPS[y]
  <2>1. [f \in {"eps"} |-> report.histEPS[y]] \in [{"eps"} -> Value]
    OBVIOUS
  <2>2. {"eps"} \in SUBSET Figures
    BY DEF Figures
  <2> QED
    BY <2>1, <2>2, MergeEffect
<1> QED
  BY <1>1 DEF MergedEarnings

\* Statements, EPS and valuations are different figures.
LEMMA FiguresApart ==
    /\ StatementFigures \in SUBSET (Figures \ ValuationFigures)
    /\ StatementFigures \in SUBSET (Figures \ {"eps"})
    /\ ValuationFigures \in SUBSET (Figures \ StatementFigures)
    /\ ValuationFigures \in SUBSET (Figures \ {"eps"})
    /\ {"eps"} \in SUBSET (Figures \ StatementFigures)
    /\ {"eps"} \in SUBSET (Figures \ ValuationFigures)
BY DEF Figures, StatementFigures, ValuationFigures

LEMMA NextInv == Inv /\ [Next]_vars => Inv'
<1> SUFFICES ASSUME Inv, [Next]_vars PROVE Inv'
  OBVIOUS
<1> USE DEF Inv
<1>1. CASE Statement
  <2>1. /\ i \in Nat /\ i + 1 \in 1 .. Len(report.fin)
        /\ FinRows = i /\ ValRows = 0 /\ FinRows' = i + 1 /\ ValRows' = 0
        /\ report' = report /\ keys' = keys
        /\ m' = Merge(report.fin[i + 1].year, report.fin[i + 1].figure)
    BY <1>1 DEF Statement, Progress, FinRows, ValRows, IsReport
  <2>2. /\ report.fin[i + 1].year \in Years
        /\ report.fin[i + 1].figure \in [StatementFigures -> Value]
    <3>1. report.fin \in Seq(Row(StatementFigures))
      BY DEF Progress, IsReport
    <3>2. report.fin[i + 1] \in Row(StatementFigures)
      BY <2>1, <3>1
    <3> QED
      BY <3>2 DEF Row
  <2>3. MapTyped'
    BY <2>1, <2>2, FiguresApart, MergeEffect DEF Merging
  <2>4. Merged(m, report.fin, StatementFigures, FinRows)'
    <3>1. Merged(m, report.fin, StatementFigures, i)
      BY <2>1 DEF Merging
    <3> QED
      BY <2>1, <2>2, <3>1, FiguresApart, MergeNext DEF Merging
  <2>5. MergedEarnings'
    BY <2>1, <2>2, FiguresApart, MergeKeepsEarnings DEF Merging, Progress
  <2>6. Merged(m, report.val, ValuationFigures, ValRows)'
    <3>1. Merged(m, report.val, ValuationFigures, 0)
      BY <2>1 DEF Merging
    <3> QED
      BY <2>1, <2>2, <3>1, FiguresApart, MergeOther DEF Merging
  <2>7. Progress'
    BY <1>1, <2>1 DEF Statement, Progress
  <2> QED
    BY <2>3, <2>4, <2>5, <2>6, <2>7 DEF Merging
<1>2. CASE EndStatements
  <2>1. /\ FinRows' = FinRows /\ ValRows' = ValRows
        /\ report' = report /\ keys' = keys /\ m' = m
    BY <1>2 DEF EndStatements, FinRows, ValRows
  <2>2. Progress'
    BY <1>2 DEF EndStatements, Progress
  <2> QED
    BY <2>1, <2>2 DEF Merging, MapTyped, Merged, MergedEarnings
<1>3. CASE Earnings
  <2>1. PICK y \in keys :
          /\ m' = Merge(y, [f \in {"eps"} |-> report.histEPS[y]])
          /\ keys' = keys \ {y}
    BY <1>3 DEF Earnings
  <2>2. /\ FinRows = Len(report.fin) /\ ValRows = 0
        /\ FinRows' = FinRows /\ ValRows' = ValRows
        /\ report' = report /\ keys \subseteq DOMAIN report.histEPS
        /\ Len(report.fin) \in Nat
    BY <1>3 DEF Earnings, Progress, FinRows, ValRows, IsReport
  <2>3. y \in Years /\ report.histEPS[y] \in Value
    BY <2>2 DEF Progress, IsReport
  <2>4. [f \in {"eps"} |-> report.histEPS[y]] \in [{"eps"} -> Value]
    BY <2>3
  <2>5. MapTyped'
    <3>1. {"eps"} \in SUBSET Figures
      BY FiguresApart
    <3> QED
      BY <2>1, <2>3, <2>4, <3>1, MergeEffect DEF Merging
  <2>6. Merged(m, report.fin, StatementFigures, FinRows)'
    <3>1. Merged(m, report.fin, StatementFigures, Len(report.fin))
      BY <2>2 DEF Merging
    <3>2. StatementFigures \in SUBSET Figures /\ {"eps"} \in SUBSET (Figures \ StatementFigures)
      BY FiguresApart
    <3> QED
      BY <2>1, <2>2, <2>3, <2>4, <3>1, <3>2, MergeOther DEF Merging
  <2>7. MergedEarnings'
    BY <2>1, <2>2, <2>3, MergeEarning DEF Merging
  <2>8. Merged(m, report.val, ValuationFigures, ValRows)'
    <3>1. Merged(m, report.val, ValuationFigures, 0)
      BY <2>2 DEF Merging
    <3>2. ValuationFigures \in SUBSET Figures /\ {"eps"} \in SUBSET (Figures \ ValuationFigures)
      BY FiguresApart
    <3> QED
      BY <2>1, <2>2, <2>3, <2>4, <3>1, <3>2, MergeOther DEF Merging
  <2>9. Progress'
    BY <1>3, <2>1 DEF Earnings, Progress
  <2> QED
    BY <2>5, <2>6, <2>7, <2>8, <2>9 DEF Merging
<1>4. CASE EndEarnings
  <2>1. /\ FinRows' = FinRows /\ ValRows' = 0 /\ ValRows = 0
        /\ report' = report /\ keys' = keys /\ m' = m
    BY <1>4 DEF EndEarnings, FinRows, ValRows
  <2>2. Progress'
    BY <1>4 DEF EndEarnings, Progress, IsReport
  <2> QED
    BY <2>1, <2>2 DEF Merging, MapTyped, Merged, MergedEarnings
<1>5. CASE Valuation
  <2>1. /\ i \in Nat /\ i + 1 \in 1 .. Len(report.val)
        /\ ValRows = i /\ ValRows' = i + 1
        /\ FinRows = Len(report.fin) /\ FinRows' = Len(report.fin) /\ Len(report.fin) \in Nat
        /\ report' = report /\ keys' = keys
        /\ m' = Merge(report.val[i + 1].year, report.val[i + 1].figure)
    BY <1>5 DEF Valuation, Progress, FinRows, ValRows, IsReport
  <2>2. /\ report.val[i + 1].year \in Years
        /\ report.val[i + 1].figure \in [ValuationFigures -> Value]
    <3>1. report.val \in Seq(Row(ValuationFigures))
      BY DEF Progress, IsReport
    <3>2. report.val[i + 1] \in Row(ValuationFigures)
      BY <2>1, <3>1
    <3> QED
      BY <3>2 DEF Row
  <2>3. MapTyped'
    BY <2>1, <2>2, FiguresApart, MergeEffect DEF Merging
  <2>4. Merged(m, report.val, ValuationFigures, ValRows)'
    <3>1. Merged(m, report.val, ValuationFigures, i)
      BY <2>1 DEF Merging
    <3> QED
      BY <2>1, <2>2, <3>1, FiguresApart, MergeNext DEF Merging
  <2>5. MergedEarnings'
    BY <2>1, <2>2, FiguresApart, MergeKeepsEarnings DEF Merging, Progress
  <2>6. Merged(m, report.fin, StatementFigures, FinRows)'
    <3>1. Merged(m, report.fin, StatementFigures, Len(report.fin))
      BY <2>1 DEF Merging
    <3> QED
      BY <2>1, <2>2, <3>1, FiguresApart, MergeOther DEF Merging
  <2>7. Progress'
    BY <1>5, <2>1 DEF Valuation, Progress
  <2> QED
    BY <2>3, <2>4, <2>5, <2>6, <2>7 DEF Merging
<1>6. CASE Return
  <2>1. /\ FinRows' = FinRows /\ ValRows' = ValRows
        /\ report' = report /\ keys' = keys /\ m' = m
    BY <1>6 DEF Return, FinRows, ValRows
  <2>2. Choose' = Choose
    BY <2>1 DEF Choose, FinYear, HasFinance, BookValue, Multiple, FigureOf,
                ValuationYears, PreviousYears
  <2>3. Progress'
    BY <1>6, <2>2 DEF Return, Progress
  <2> QED
    BY <2>1, <2>3 DEF Merging, MapTyped, Merged, MergedEarnings
<1>7. CASE UNCHANGED vars
  <2>1. /\ FinRows' = FinRows /\ ValRows' = ValRows
        /\ report' = report /\ keys' = keys /\ m' = m /\ snap' = snap /\ pc' = pc /\ i' = i
    BY <1>7 DEF vars, FinRows, ValRows
  <2>2. Choose' = Choose
    BY <2>1 DEF Choose, FinYear, HasFinance, BookValue, Multiple, FigureOf,
                ValuationYears, PreviousYears
  <2>3. Progress'
    BY <2>1, <2>2 DEF Progress
  <2> QED
    BY <2>1, <2>3 DEF Merging, MapTyped, Merged, MergedEarnings
<1> QED
  BY <1>1, <1>2, <1>3, <1>4, <1>5, <1>6, <1>7 DEF Next

LEMMA AlwaysInv == Spec => []Inv
<1>1. Init => Inv
  BY InitInv
<1>2. Inv /\ [Next]_vars => Inv'
  BY NextInv
<1> QED
  BY <1>1, <1>2, PTL DEF Spec

-----------------------------------------------------------------------------
\* What the merged map says of a list, in the words of the properties.
LEMMA MapOfRows ==
    ASSUME NEW rows, NEW figures, NEW n \in Nat, DOMAIN rows = 1 .. n, Len(rows) = n,
           Merged(m, rows, figures, n)
    PROVE  /\ \A y, k : k \in LastRows(rows, y) =>
                 y \in DOMAIN m /\ \A f \in figures : m[y][f] = rows[k].figure[f]
           /\ \A y \in DOMAIN m : (\E f \in figures : m[y][f] # Nil) => LastRows(rows, y) # {}
<1>1. ASSUME NEW y, NEW k \in LastRows(rows, y)
      PROVE  y \in DOMAIN m /\ \A f \in figures : m[y][f] = rows[k].figure[f]
  <2>1. /\ k \in 1 .. n /\ rows[k].year = y
        /\ \A j \in k + 1 .. n : rows[j].year # y
    BY DEF LastRows
  <2>2. y \in DOMAIN m
    BY <2>1 DEF Merged
  <2>3. PICK l \in 1 .. n : /\ rows[l].year = y
                            /\ \A j \in l + 1 .. n : rows[j].year # y
                            /\ \A f \in figures : m[y][f] = rows[l].figure[f]
    BY <2>1, <2>2 DEF Merged
  <2>4. l = k
    BY <2>1, <2>3
  <2> QED
    BY <2>2, <2>3, <2>4
<1>2. ASSUME NEW y \in DOMAIN m, \E f \in figures : m[y][f] # Nil
      PROVE  LastRows(rows, y) # {}
  BY <1>2 DEF Merged, LastRows
<1> QED
  BY <1>1, <1>2

\* All lists have been merged when MapReport returns.
Complete ==
    /\ \A y, k : k \in LastRows(report.fin, y) =>
          y \in DOMAIN m /\ \A f \in StatementFigures : m[y][f] = report.fin[k].figure[f]
    /\ \A y \in DOMAIN m :
          (\E f \in StatementFigures : m[y][f] # Nil) => LastRows(report.fin, y) # {}
    /\ \A y, k : k \in LastRows(report.val, y) =>
          y \in DOMAIN m /\ \A f \in ValuationFigures : m[y][f] = report.val[k].figure[f]
    /\ \A y \in DOMAIN m :
          (\E f \in ValuationFigures : m[y][f] # Nil) => LastRows(report.val, y) # {}
    /\ DOMAIN report.histEPS \subseteq DOMAIN m
    /\ \A y \in DOMAIN m :
          m[y]["eps"] = IF y \in DOMAIN report.histEPS THEN report.histEPS[y] ELSE Nil

LEMMA DoneIsComplete ==
    ASSUME Inv, Mapped
    PROVE  /\ Complete /\ MapTyped
           /\ DOMAIN m \subseteq Years /\ DOMAIN m # {}
           /\ snap = Choose
<1>1. /\ pc = "done" /\ keys = {}
      /\ Merged(m, report.fin, StatementFigures, Len(report.fin))
      /\ Merged(m, report.val, ValuationFigures, Len(report.val))
      /\ MergedEarnings
  BY DEF Inv, Mapped, Progress, Merging, FinRows, ValRows
<1>2. /\ Len(report.fin) \in Nat /\ DOMAIN report.fin = 1 .. Len(report.fin)
      /\ Len(report.val) \in Nat /\ DOMAIN report.val = 1 .. Len(report.val)
  BY DEF Inv, Progress, IsReport
<1>3. /\ \A y, k : k \in LastRows(report.fin, y) =>
            y \in DOMAIN m /\ \A f \in StatementFigures : m[y][f] = report.fin[k].figure[f]
      /\ \A y \in DOMAIN m :
            (\E f \in StatementFigures : m[y][f] # Nil) => LastRows(report.fin, y) # {}
  BY <1>1, <1>2, MapOfRows
<1>4. /\ \A y, k : k \in LastRows(report.val, y) =>
            y \in DOMAIN m /\ \A f \in ValuationFigures : m[y][f] = report.val[k].figure[f]
      /\ \A y \in DOMAIN m :
            (\E f \in ValuationFigures : m[y][f] # Nil) => LastRows(report.val, y) # {}
  BY <1>1, <1>2, MapOfRows
<1>5. Complete
  BY <1>1, <1>3, <1>4 DEF Complete, MergedEarnings
<1>6. snap = Choose /\ DOMAIN m # {} /\ MapTyped
  BY DEF Inv, Progress, Merging, Mapped
<1> QED
  BY <1>5, <1>6 DEF MapTyped

\* A year is stated if and only if its merged figures say so.
LEMMA StatedIsMerged ==
    ASSUME Complete, MapTyped
    PROVE  \A y : Stated(y) <=> y \in DOMAIN m /\ HasFinance(y)
<1>1. \A f \in {"rev", "ta", "eq"} : f \in StatementFigures
  BY DEF StatementFigures
<1>2. ASSUME NEW y, Stated(y) PROVE y \in DOMAIN m /\ HasFinance(y)
  <2>1. PICK f \in {"rev", "ta", "eq"}, k \in LastRows(report.fin, y) :
            report.fin[k].figure[f] # Nil
    BY <1>2 DEF Stated, Given, StatedIn
  <2> QED
    BY <1>1, <2>1 DEF Complete, HasFinance
<1>3. ASSUME NEW y \in DOMAIN m, HasFinance(y) PROVE Stated(y)
  <2>1. PICK f \in {"rev", "ta", "eq"} : m[y][f] # Nil
    BY <1>3 DEF HasFinance
  <2>2. PICK k \in LastRows(report.fin, y) : TRUE
    BY <1>1, <2>1 DEF Complete
  <2>3. report.fin[k].figure[f] = m[y][f]
    BY <1>1, <2>1, <2>2 DEF Complete
  <2> QED
    BY <2>1, <2>2, <2>3 DEF Stated, Given, StatedIn
<1> QED
  BY <1>2, <1>3

\* The fundamental year is the newest stated one, if any year is stated.
LEMMA FundamentalYear ==
    ASSUME Complete, MapTyped, DOMAIN m \subseteq Years, DOMAIN m # {}
    PROVE  /\ FinYear \in DOMAIN m
           /\ (\E y : Stated(y)) =>
                 Stated(FinYear) /\ \A y \in Years : y > FinYear => ~Stated(y)
<1> DEFINE stated == {y \in DOMAIN m : HasFinance(y)}
<1>1. CASE stated # {}
  <2>1. stated \subseteq Years
    OBVIOUS
  <2>2. Newest(stated) \in stated /\ \A z \in stated : z <= Newest(stated)
    <3> HIDE DEF stated
    <3> QED
      BY <1>1, <2>1, NewestIsNewest
  <2>3. FinYear = Newest(stated)
    BY <1>1 DEF FinYear
  <2>4. FinYear \in Years
    BY <2>2, <2>3
  <2>5. \A y \in Years : y > FinYear => y \notin stated
    <3> HIDE DEF stated
    <3>1. \A y \in Years : y \in Int
      BY MapReportAssumption DEF Years
    <3> QED
      BY <2>2, <2>3, <2>4, <3>1
  <2> QED
    BY <2>2, <2>3, <2>5, StatedIsMerged
<1>2. CASE stated = {}
  <2>1. FinYear \in DOMAIN m
    BY <1>2, NewestIsNewest DEF FinYear
  <2> QED
    BY <1>2, <2>1, StatedIsMerged
<1> QED
  BY <1>1, <1>2

\* The two other choices, of a valuation and of the year before.
LEMMA ChosenValuation ==
    ASSUME Complete, MapTyped, DOMAIN m \subseteq Years, NEW f \in ValuationFigures,
           ValuationYears # {}
    PROVE  LET y == Newest(ValuationYears) IN
           /\ y \in DOMAIN m /\ y <= FinYear /\ m[y]["pe"] # Nil
           /\ Multiple(f) = m[y][f]
           /\ LastRows(report.val, y) # {}
<1>1. Newest(ValuationYears) \in ValuationYears
  <2>1. ValuationYears \subseteq Years
    BY DEF ValuationYears
  <2> QED
    BY <2>1, NewestIsNewest
<1>2. "pe" \in ValuationFigures
  BY DEF ValuationFigures
<1> QED
  BY <1>1, <1>2 DEF ValuationYears, Multiple, FigureOf, Complete

-----------------------------------------------------------------------------
\* MapReport keeps its types.
THEOREM MapReportTyped == Spec => []TypeOK
<1>1. Inv => TypeOK
  <2> SUFFICES ASSUME Inv PROVE TypeOK
    OBVIOUS
  <2>1. Progress /\ MapTyped
    BY DEF Inv, Merging
  <2>2. CASE pc = "done" /\ DOMAIN m # {}
    <3>1. snap = Choose
      BY <2>1, <2>2 DEF Progress
    <3>2. FinYear \in DOMAIN m
      <4> DEFINE stated == {y \in DOMAIN m : HasFinance(y)}
      <4>1. stated \subseteq Years /\ DOMAIN m \subseteq Years
        BY <2>1 DEF MapTyped
      <4>2. stated # {} => Newest(stated) \in stated
        BY <4>1, NewestIsNewest
      <4>3. Newest(DOMAIN m) \in DOMAIN m
        BY <2>2, <4>1, NewestIsNewest
      <4> QED
        BY <4>2, <4>3 DEF FinYear
    <3>3. snap.year = FinYear /\ snap.eps \in {m[FinYear]["eps"], report.eps}
      BY <3>1 DEF Choose
    <3>4. m[FinYear]["eps"] \in Value /\ report.eps \in Value
      BY <2>1, <3>2 DEF MapTyped, Figures, Progress, IsReport
    <3>5. FinYear # 0
      BY <2>1, <3>2, MapReportAssumption DEF MapTyped, Years
    <3> QED
      BY <2>1, <2>2, <3>2, <3>3, <3>4, <3>5 DEF TypeOK, Progress, MapTyped, IsReport
  <2>3. CASE ~(pc = "done" /\ DOMAIN m # {})
    <3>1. snap.year = 0 /\ snap.eps \in Value
      BY <2>1, <2>3 DEF Progress, IsReport
    <3> QED
      BY <2>1, <2>3, <3>1 DEF TypeOK, Progress, MapTyped, IsReport
  <2> QED
    BY <2>2, <2>3
<1> QED
  BY <1>1, AlwaysInv, PTL

\* Of every report with statements, the figures of one statement are used.
THEOREM MapReportUsesOneStatement == Spec => []FiguresAreOfOneStatement
<1>1. Inv => FiguresAreOfOneStatement
  <2> SUFFICES ASSUME Inv, Mapped, NEW z \in Years, Stated(z)
               PROVE  /\ Stated(snap.year)
                      /\ \A y \in Years : y > snap.year => ~Stated(y)
                      /\ \E k \in LastRows(report.fin, snap.year) :
                            LET row == report.fin[k].figure IN
                            /\ snap.rev = row["rev"] /\ snap.ta = row["ta"] /\ snap.wc = row["wc"]
                            /\ snap.bvps # Nil => snap.bvps = <<row["eq"], row["sh"]>>
    BY DEF FiguresAreOfOneStatement
  <2>1. Complete /\ MapTyped /\ DOMAIN m \subseteq Years /\ DOMAIN m # {} /\ snap = Choose
    BY DoneIsComplete
  <2>2. /\ FinYear \in DOMAIN m /\ Stated(FinYear)
        /\ \A y \in Years : y > FinYear => ~Stated(y)
    BY <2>1, FundamentalYear
  <2>3. snap.year = FinYear
    BY <2>1 DEF Choose
  <2>4. PICK k \in LastRows(report.fin, FinYear) : TRUE
    BY <2>2 DEF Stated, StatedIn, Given
  <2>5. \A f \in {"rev", "ta", "eq", "sh", "wc"} : m[FinYear][f] = report.fin[k].figure[f]
    BY <2>1, <2>4 DEF Complete, StatementFigures
  <2>6. LET row == report.fin[k].figure IN
        /\ snap.rev = row["rev"] /\ snap.ta = row["ta"] /\ snap.wc = row["wc"]
        /\ snap.bvps # Nil => snap.bvps = <<row["eq"], row["sh"]>>
    BY <2>1, <2>5 DEF Choose, BookValue
  <2> QED
    BY <2>2, <2>3, <2>4, <2>6
<1> QED
  BY <1>1, AlwaysInv, PTL

\* Of every report, PE and PB come from one valuation.
THEOREM MapReportUsesOneValuation == Spec => []MultiplesAreOfOneValuation
<1>1. Inv => MultiplesAreOfOneValuation
  <2> SUFFICES ASSUME Inv, Mapped
               PROVE  \/ snap.pe = Nil /\ snap.pb = Nil
                      \/ \E k \in DOMAIN report.val :
                            LET row == report.val[k].figure IN
                            snap.pe = row["pe"] /\ snap.pb = row["pb"] /\ snap.pe # Nil
    BY DEF MultiplesAreOfOneValuation
  <2>1. Complete /\ MapTyped /\ DOMAIN m \subseteq Years /\ snap = Choose
    BY DoneIsComplete
  <2>2. snap.pe = Multiple("pe") /\ snap.pb = Multiple("pb")
    BY <2>1 DEF Choose
  <2>3. CASE ValuationYears = {}
    BY <2>2, <2>3 DEF Multiple, FigureOf
  <2>4. CASE ValuationYears # {}
    <3> DEFINE y == Newest(ValuationYears)
    <3>0. "pe" \in ValuationFigures /\ "pb" \in ValuationFigures
      BY DEF ValuationFigures
    <3>1. /\ m[y]["pe"] # Nil /\ LastRows(report.val, y) # {}
          /\ Multiple("pe") = m[y]["pe"] /\ Multiple("pb") = m[y]["pb"]
      BY <2>1, <2>4, <3>0, ChosenValuation
    <3> HIDE DEF y
    <3>2. PICK k \in LastRows(report.val, y) : TRUE
      BY <3>1
    <3>3. /\ k \in DOMAIN report.val
          /\ m[y]["pe"] = report.val[k].figure["pe"] /\ m[y]["pb"] = report.val[k].figure["pb"]
      BY <2>1, <3>0, <3>2 DEF Complete, LastRows
    <3> QED
      BY <2>2, <3>1, <3>3
  <2> QED
    BY <2>3, <2>4
<1> QED
  BY <1>1, AlwaysInv, PTL

\* Of every report, growth compares with the newest earlier year of EPS.
THEOREM MapReportGrowsAgainstOneYear == Spec => []GrowthIsAgainstOneYear
<1>1. Inv => GrowthIsAgainstOneYear
  <2> SUFFICES ASSUME Inv, Mapped
               PROVE  \/ /\ snap.prevEPS = Nil /\ snap.prevRev = Nil
                         /\ \A y \in Years : y < snap.year => ~Given(EarnedIn(y))
                      \/ \E y \in Years :
                            /\ y < snap.year /\ snap.prevEPS \in EarnedIn(y) \ {Nil}
                            /\ \A z \in y + 1 .. snap.year - 1 : ~Given(EarnedIn(z))
                            /\ snap.prevRev \in StatedIn(y, "rev") \cup {Nil}
                            /\ Given(StatedIn(y, "rev")) => snap.prevRev # Nil
    BY DEF GrowthIsAgainstOneYear
  <2>1. /\ Complete /\ MapTyped /\ DOMAIN m \subseteq Years /\ DOMAIN m # {}
        /\ snap = Choose
    BY DoneIsComplete
  <2>2. /\ snap.year = FinYear
        /\ snap.prevEPS = FigureOf(PreviousYears, "eps")
        /\ snap.prevRev = FigureOf(PreviousYears, "rev")
    BY <2>1 DEF Choose
  <2>3. \A y : y < FinYear => (Given(EarnedIn(y)) <=> y \in PreviousYears)
    BY <2>1 DEF Given, EarnedIn, PreviousYears, Complete
  <2>4. CASE PreviousYears = {}
    BY <2>2, <2>3, <2>4 DEF FigureOf
  <2>5. CASE PreviousYears # {}
    <3> DEFINE y == Newest(PreviousYears)
    <3>1. PreviousYears \subseteq Years
      BY <2>1 DEF PreviousYears
    <3>2. y \in PreviousYears /\ \A z \in PreviousYears : z <= y
      BY <2>5, <3>1, NewestIsNewest
    <3>3. snap.prevEPS = m[y]["eps"] /\ snap.prevRev = m[y]["rev"]
      BY <2>2, <2>5 DEF FigureOf
    <3> HIDE DEF y
    <3>4. y \in Years /\ y \in DOMAIN m /\ y < FinYear /\ m[y]["eps"] # Nil
      BY <3>1, <3>2 DEF PreviousYears
    <3>5. snap.prevEPS \in EarnedIn(y) \ {Nil}
      BY <2>1, <3>3, <3>4 DEF Complete, EarnedIn
    <3>6. \A z \in y + 1 .. snap.year - 1 : ~Given(EarnedIn(z))
      <4>1. FinYear \in Int /\ y \in Int
        <5>1. FinYear \in Years
          BY <2>1, FundamentalYear
        <5> QED
          BY <3>4, <5>1, MapReportAssumption DEF Years
      <4> TAKE z \in y + 1 .. snap.year - 1
      <4>2. z \in Int /\ z > y /\ z < FinYear
        BY <2>2, <4>1
      <4> QED
        BY <2>3, <3>2, <4>1, <4>2
    <3>7. \A k \in LastRows(report.fin, y) : snap.prevRev = report.fin[k].figure["rev"]
      BY <2>1, <3>3 DEF Complete, StatementFigures
    <3>8. snap.prevRev # Nil => LastRows(report.fin, y) # {}
      BY <2>1, <3>3, <3>4 DEF Complete, StatementFigures
    <3>9. /\ snap.prevRev \in StatedIn(y, "rev") \cup {Nil}
          /\ Given(StatedIn(y, "rev")) => snap.prevRev # Nil
      BY <3>7, <3>8 DEF StatedIn, Given
    <3> QED
      BY <2>2, <3>4, <3>5, <3>6, <3>9
  <2> QED
    BY <2>4, <2>5
<1> QED
  BY <1>1, AlwaysInv, PTL

\* Of every report, a snapshot with a BVPS is of years with statements only.
THEOREM MapReportUsesNoForwardYears == Spec => []NoForwardYears
<1>1. Inv => NoForwardYears
  <2> DEFINE past == {y \in Years : y <= snap.year}
  <2> SUFFICES ASSUME Inv, Mapped, snap.bvps # Nil
               PROVE  /\ Stated(snap.year)
                      /\ snap.pe \in {Nil} \cup UNION {ValuedIn(y, "pe") : y \in past}
                      /\ snap.pb \in {Nil} \cup UNION {ValuedIn(y, "pb") : y \in past}
                      /\ snap.eps \in {report.eps} \cup UNION {EarnedIn(y) : y \in past}
    BY DEF NoForwardYears
  <2>1. /\ Complete /\ MapTyped /\ DOMAIN m \subseteq Years /\ DOMAIN m # {}
        /\ snap = Choose
    BY DoneIsComplete
  <2>2. snap.year = FinYear /\ FinYear \in DOMAIN m /\ FinYear \in past
    <3>1. FinYear \in Years /\ FinYear \in Nat
      BY <2>1, FundamentalYear, MapReportAssumption DEF Years
    <3>2. snap.year = FinYear
      BY <2>1 DEF Choose
    <3> QED
      BY <2>1, <3>1, <3>2, FundamentalYear
  <2>3. Stated(snap.year)
    <3>1. snap.bvps = BookValue(m[FinYear])
      BY <2>1 DEF Choose
    <3>2. m[FinYear]["eq"] # Nil
      BY <3>1 DEF BookValue
    <3> QED
      BY <2>1, <2>2, <3>2, StatedIsMerged DEF HasFinance
  <2>4. ASSUME NEW f \in ValuationFigures
        PROVE  Multiple(f) \in {Nil} \cup UNION {ValuedIn(y, f) : y \in past}
    <3>1. CASE ValuationYears = {}
      BY <3>1 DEF Multiple, FigureOf
    <3>2. CASE ValuationYears # {}
      <4> DEFINE y == Newest(ValuationYears)
      <4>1. /\ y \in DOMAIN m /\ y <= FinYear
            /\ Multiple(f) = m[y][f] /\ LastRows(report.val, y) # {}
        BY <2>1, <3>2, ChosenValuation
      <4> HIDE DEF y
      <4>2. y \in past
        BY <2>1, <2>2, <4>1
      <4>3. PICK k \in LastRows(report.val, y) : TRUE
        BY <4>1
      <4>4. m[y][f] = report.val[k].figure[f]
        BY <2>1, <4>3 DEF Complete
      <4>5. Multiple(f) \in ValuedIn(y, f)
        BY <4>1, <4>3, <4>4 DEF ValuedIn
      <4> QED
        BY <4>2, <4>5
    <3> QED
      BY <3>1, <3>2
  <2>5. /\ snap.pe = Multiple("pe") /\ snap.pb = Multiple("pb")
        /\ "pe" \in ValuationFigures /\ "pb" \in ValuationFigures
    BY <2>1 DEF Choose, ValuationFigures
  <2>6. snap.eps \in {report.eps} \cup UNION {EarnedIn(y) : y \in past}
    <3>1. snap.eps = IF m[FinYear]["eps"] # Nil THEN m[FinYear]["eps"] ELSE report.eps
      BY <2>1 DEF Choose
    <3>2. m[FinYear]["eps"] # Nil => m[FinYear]["eps"] \in EarnedIn(FinYear)
      BY <2>1, <2>2 DEF Complete, EarnedIn
    <3> QED
      BY <2>2, <3>1, <3>2
  <2> QED
    BY <2>3, <2>4, <2>5, <2>6
<1> QED
  BY <1>1, AlwaysInv, PTL
===============================================================================
