------------------------------- MODULE MCAnalyst -------------------------------
(***************************************************************************)
(* Bounds: stocks on either side of every threshold, sixteen combinations  *)
(* of them; a model that is there or not and that may write nothing, quote *)
(* a score as it is shown (with a term that only the prompt forbids), use  *)
(* a forbidden term, or quote another score.                               *)
(***************************************************************************)
EXTENDS Analyst

MCStocks == {[score |-> [gl_score |-> 9140, graham_score |-> 9410, lynch_score |-> 8820],
              mos |-> m, eps |-> e, pe |-> p, roe |-> x[1], peg |-> x[2], rev |-> x[3]] :
             m \in {-1, 1}, e \in {5, 151}, p \in {20, 31},
             x \in {<<Nil, 100, Nil>>, <<16, 99, 4>>}}

Written(terms, quotes) ==
    [by |-> "llm", about |-> "stock", terms |-> terms, quotes |-> quotes]

MCLLMTexts == {
    Written({"buy recommendation"}, {[name |-> "gl_score", value |-> 9143]}),
    Written({"buy signal"}, {}),
    Written({}, {[name |-> "lynch_score", value |-> 8840]}) }
===============================================================================
