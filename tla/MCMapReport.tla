------------------------------ MODULE MCMapReport ------------------------------
(***************************************************************************)
(* Bounds: three years, so that a year can lie between two others; up to   *)
(* two statements and two valuations, of any years in any order, and any   *)
(* history of EPS.  Each figure is another number, or missing; shares may  *)
(* be 0.  Total assets follow the equity, and working capital is always    *)
(* there, which leaves every case of the choices.                          *)
(***************************************************************************)
EXTENDS MapReport

Figure(n, has) == IF has THEN n ELSE Nil

Statements(k) ==
    {[year |-> y,
      figure |-> [f \in StatementFigures |->
          CASE f = "rev" -> Figure(10 * k + 1, rev) [] f = "ta" -> Figure(10 * k + 2, eq)
            [] f = "eq" -> Figure(10 * k + 3, eq) [] f = "sh" -> sh
            [] OTHER -> 10 * k + 5]] :
     y \in Years, rev \in BOOLEAN, eq \in BOOLEAN, sh \in {0, 10 * k + 4}}

Valuations(k) ==
    {[year |-> y,
      figure |-> [f \in ValuationFigures |->
          IF f = "pe" THEN Figure(10 * k + 6, pe) ELSE Figure(10 * k + 7, pb)]] :
     y \in Years, pe \in BOOLEAN, pb \in BOOLEAN}

UpToTwo(rows(_)) ==
    {<<>>} \cup {<<a>> : a \in rows(1)} \cup {<<a, b>> : a \in rows(1), b \in rows(2)}

Histories == {[y \in ys |-> Figure(80 + y, y \in known)] :
              ys \in {{}, {2}, {1, 2}, {1, 2, 3}}, known \in {{1, 3}, {1, 2, 3}}}

MCReports == [fin : UpToTwo(Statements), val : UpToTwo(Valuations),
              histEPS : Histories, eps : {80}]
===============================================================================
