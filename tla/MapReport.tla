------------------------------- MODULE MapReport -------------------------------
(***************************************************************************)
(* MapReport of package sectors: the report of one company, with its       *)
(* yearly statements, earnings per share and valuations, becomes the one   *)
(* snapshot that Rank and Gem Sentinel work with.  Three loops merge the   *)
(* rows year by year; then one year is chosen for the statement's figures, *)
(* one for PE and PB, and one for the figures of the year before.          *)
(*                                                                         *)
(* Kept: the order of the loops, what a later row of a year overwrites,    *)
(* Go's random order over the map of EPS, and every choice.  Abstracted: a *)
(* figure is a number that tells where it comes from; ebit, profit before  *)
(* tax and current liabilities go the way of wc (working capital); what is *)
(* copied unread (price, sector, dates of the close) is left out.  A year  *)
(* of HistEPS is its number: the API's keys are years.                     *)
(***************************************************************************)
EXTENDS Integers, Sequences, FiniteSets

CONSTANTS
    MaxYear,  \* bound of the years
    Reports,  \* the reports MapReport is called with
    Nil       \* a missing figure

Years == 1 .. MaxYear
StatementFigures == {"rev", "ta", "eq", "sh", "wc"}
ValuationFigures == {"pe", "pb"}
Figures == StatementFigures \cup {"eps"} \cup ValuationFigures
Value == Nat \cup {Nil}

Row(figures) == [year : Years, figure : [figures -> Value]]
IsReport(r) ==
    /\ r.fin \in Seq(Row(StatementFigures))
    /\ DOMAIN r.histEPS \subseteq Years /\ r.histEPS \in [DOMAIN r.histEPS -> Value]
    /\ r.val \in Seq(Row(ValuationFigures))
    /\ r.eps \in Value

ASSUME MapReportAssumption == MaxYear \in Nat /\ \A r \in Reports : IsReport(r)

VARIABLES
    report,  \* the argument
    pc,
    i,       \* rows of the current list that have been merged
    keys,    \* years of HistEPS still to be visited
    m,       \* the map m: what is known of each year
    snap     \* the snapshot, as far as it depends on years

vars == <<report, pc, i, keys, m, snap>>

Missing == [f \in Figures |-> Nil]
Entry(y) == IF y \in DOMAIN m THEN m[y] ELSE Missing

\* One row is merged: its figures overwrite the year's, missing ones too.
Merge(y, figure) ==
    [z \in DOMAIN m \cup {y} |->
        IF z # y THEN m[z]
        ELSE [f \in Figures |-> IF f \in DOMAIN figure THEN figure[f] ELSE Entry(y)[f]]]

-----------------------------------------------------------------------------
Init ==
    /\ report \in Reports
    /\ pc = "fin" /\ i = 0
    /\ keys = DOMAIN report.histEPS
    /\ m = [y \in {} |-> Missing]
    /\ snap = [year |-> 0, eps |-> report.eps]

Statement ==
    /\ pc = "fin" /\ i < Len(report.fin)
    /\ LET row == report.fin[i + 1] IN m' = Merge(row.year, row.figure)
    /\ i' = i + 1
    /\ UNCHANGED <<report, pc, keys, snap>>

EndStatements ==
    /\ pc = "fin" /\ i = Len(report.fin)
    /\ pc' = "eps"
    /\ UNCHANGED <<report, i, keys, m, snap>>

Earnings ==
    /\ pc = "eps"
    /\ \E y \in keys :
        /\ m' = Merge(y, [f \in {"eps"} |-> report.histEPS[y]])
        /\ keys' = keys \ {y}
    /\ UNCHANGED <<report, pc, i, snap>>

EndEarnings ==
    /\ pc = "eps" /\ keys = {}
    /\ pc' = "val" /\ i' = 0
    /\ UNCHANGED <<report, keys, m, snap>>

Valuation ==
    /\ pc = "val" /\ i < Len(report.val)
    /\ LET row == report.val[i + 1] IN m' = Merge(row.year, row.figure)
    /\ i' = i + 1
    /\ UNCHANGED <<report, pc, keys, snap>>

-----------------------------------------------------------------------------
Newest(years) == CHOOSE y \in years : \A z \in years : z <= y
HasFinance(y) == \E f \in {"rev", "ta", "eq"} : m[y][f] # Nil

\* Mutant: the newest year of all, forward years included.
NewestYear == Newest(DOMAIN m)

\* curFin.y: the newest year with figures of a statement, else the newest.
FinYear == LET stated == {y \in DOMAIN m : HasFinance(y)} IN
           IF stated # {} THEN Newest(stated) ELSE Newest(DOMAIN m)

\* Mutant: the newest PE of all, forward years included.
ValuationOfAnyYear == {y \in DOMAIN m : m[y]["pe"] # Nil}

\* Mutant: the statement's own year counts as an earlier one.
PreviousOrSameYears == {y \in DOMAIN m : y <= FinYear /\ m[y]["eps"] # Nil}

\* Where curVal and prvFin are looked for.
ValuationYears == {y \in DOMAIN m : y <= FinYear /\ m[y]["pe"] # Nil}
PreviousYears == {y \in DOMAIN m : y < FinYear /\ m[y]["eps"] # Nil}

FigureOf(years, f) == IF years = {} THEN Nil ELSE m[Newest(years)][f]

\* Mutant: PB is taken from the newest valuation that has one.
MultipleOfItsOwnYear(f) ==
    FigureOf({y \in DOMAIN m : y <= FinYear /\ m[y][f] # Nil}, f)

\* curVal is chosen by its PE and gives PB as well.
Multiple(f) == FigureOf(ValuationYears, f)

\* BVPS, as the pair of which it is the quotient.
BookValue(entry) ==
    IF entry["eq"] # Nil /\ entry["sh"] # Nil /\ entry["sh"] > 0
    THEN <<entry["eq"], entry["sh"]>> ELSE Nil

Choose ==
    LET cur == m[FinYear] IN
    [year |-> FinYear,
     eps |-> IF cur["eps"] # Nil THEN cur["eps"] ELSE report.eps,
     bvps |-> BookValue(cur),
     rev |-> cur["rev"], ta |-> cur["ta"], wc |-> cur["wc"],
     pe |-> Multiple("pe"), pb |-> Multiple("pb"),
     prevEPS |-> FigureOf(PreviousYears, "eps"),
     prevRev |-> FigureOf(PreviousYears, "rev")]

\* A report without any year leaves the snapshot as it is.
Return ==
    /\ pc = "val" /\ i = Len(report.val)
    /\ pc' = "done"
    /\ snap' = IF DOMAIN m = {} THEN snap ELSE Choose
    /\ UNCHANGED <<report, i, keys, m>>

Next == \/ Statement \/ EndStatements
        \/ Earnings \/ EndEarnings
        \/ Valuation \/ Return

Spec == Init /\ [][Next]_vars
-----------------------------------------------------------------------------
\* What the report says of a year, said without the loops: the last row counts.
LastRows(rows, y) == {k \in DOMAIN rows : /\ rows[k].year = y
                                          /\ \A n \in k + 1 .. Len(rows) : rows[n].year # y}
StatedIn(y, f) == {report.fin[k].figure[f] : k \in LastRows(report.fin, y)}
ValuedIn(y, f) == {report.val[k].figure[f] : k \in LastRows(report.val, y)}
EarnedIn(y) == IF y \in DOMAIN report.histEPS THEN {report.histEPS[y]} ELSE {}
Given(values) == values \ {Nil} # {}
Stated(y) == \E f \in {"rev", "ta", "eq"} : Given(StatedIn(y, f))

Mapped == pc = "done" /\ snap.year # 0

\* The map holds known years and figures; a snapshot without a year has the
\* top-level EPS only, and there is none when the report has any year.
TypeOK ==
    /\ pc \in {"fin", "eps", "val", "done"}
    /\ i \in 0 .. Len(IF pc \in {"fin", "eps"} THEN report.fin ELSE report.val)
    /\ keys \subseteq DOMAIN report.histEPS
    /\ DOMAIN m \subseteq Years /\ m \in [DOMAIN m -> [Figures -> Value]]
    /\ snap.year \in DOMAIN m \cup {0} /\ snap.eps \in Value
    /\ pc = "done" /\ DOMAIN m # {} => snap.year # 0

\* A stock that Rank can admit, which needs a BVPS, is described by years that
\* are over: its fundamental year has a statement, and its PE, PB and EPS are
\* of that year or an earlier one, though valuations and earnings are also
\* given for years to come (sectors.go:217-219).  The EPS may be the report's
\* current one.
NoForwardYears ==
    Mapped /\ snap.bvps # Nil =>
        LET past == {y \in Years : y <= snap.year} IN
        /\ Stated(snap.year)
        /\ snap.pe \in {Nil} \cup UNION {ValuedIn(y, "pe") : y \in past}
        /\ snap.pb \in {Nil} \cup UNION {ValuedIn(y, "pb") : y \in past}
        /\ snap.eps \in {report.eps} \cup UNION {EarnedIn(y) : y \in past}

\* As soon as any year is stated, the statement's figures are those of one row,
\* the newest stated year's last: equity is never divided by another row's
\* shares, nor is a loss of one row set beside the assets of another
\* (sectors.go:179-187, 219-252).
FiguresAreOfOneStatement ==
    Mapped /\ (\E y \in Years : Stated(y)) =>
        /\ Stated(snap.year)
        /\ \A y \in Years : y > snap.year => ~Stated(y)
        /\ \E k \in LastRows(report.fin, snap.year) :
              LET row == report.fin[k].figure IN
              /\ snap.rev = row["rev"] /\ snap.ta = row["ta"] /\ snap.wc = row["wc"]
              /\ snap.bvps # Nil => snap.bvps = <<row["eq"], row["sh"]>>

\* PE and PB are of one valuation: a PB is never shown beside the PE of another
\* year, even if the year of the PE has none (sectors.go:263-281).
MultiplesAreOfOneValuation ==
    Mapped => \/ snap.pe = Nil /\ snap.pb = Nil
              \/ \E k \in DOMAIN report.val :
                    LET row == report.val[k].figure IN
                    snap.pe = row["pe"] /\ snap.pb = row["pb"] /\ snap.pe # Nil

\* Growth compares with one earlier year, the newest whose EPS is known: no
\* year's EPS in between is passed over, and the revenue is of that year or
\* missing (sectors.go:269-287).
GrowthIsAgainstOneYear ==
    Mapped =>
        \/ /\ snap.prevEPS = Nil /\ snap.prevRev = Nil
           /\ \A y \in Years : y < snap.year => ~Given(EarnedIn(y))
        \/ \E y \in Years :
              /\ y < snap.year /\ snap.prevEPS \in EarnedIn(y) \ {Nil}
              /\ \A z \in y + 1 .. snap.year - 1 : ~Given(EarnedIn(z))
              /\ snap.prevRev \in StatedIn(y, "rev") \cup {Nil}
              /\ Given(StatedIn(y, "rev")) => snap.prevRev # Nil
===============================================================================
