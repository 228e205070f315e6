-------------------------------- MODULE Analyst --------------------------------
(***************************************************************************)
(* analystImpl.Analyze for one ranked stock: the deterministic analysis,   *)
(* its enrichment by a language model, and the guardrails.  AIPipeline     *)
(* sees only how it ends (AnalyseOK, AnalyseRejected).                     *)
(*                                                                         *)
(* A text is what the code can tell about it: who wrote it, what a text of *)
(* the code's own is about, the terms in it and the scores it quotes as    *)
(* "gl_score = 91.4"; its wording is left out.  Every field is a set of    *)
(* texts, of one text unless it is a list.  Growth, margin and ROE are in  *)
(* per cent, PEG and scores in hundredths.  The stale flag of the input    *)
(* and its branches are left out: nothing sets RunResult.Stale.            *)
(***************************************************************************)
EXTENDS Integers, FiniteSets

CONSTANTS Stocks,      \* the ranked stocks, as the figures Analyze looks at
          LLMTexts,    \* what the model may write
          Nil          \* a missing figure

Scores == {"gl_score", "graham_score", "lynch_score"}

ASSUME AnalystAssumption ==
    /\ \A t \in LLMTexts : t.by = "llm" /\ t.quotes \subseteq [name : Scores, value : Int]
    /\ \A s \in Stocks : s.score \in [Scores -> Int]

VARIABLES llm,       \* enabled by configuration, with an API key: SetLLMClient was called
          pc, stock,
          base,      \* the deterministic analysis
          analysis   \* the one to be returned

vars == <<llm, pc, stock, base, analysis>>

Lists == {"strengths", "risks"}
Enriched == {"summary", "bull_case", "bear_case"} \cup Lists
Fields == Enriched \cup {"why_ranked"}
-----------------------------------------------------------------------------
\* The text "".
Blank == [by |-> "nobody", about |-> "nothing", terms |-> {}, quotes |-> {}]
Own(about) == [by |-> "code", about |-> about, terms |-> {}, quotes |-> {}]

Above(x, limit) == x # Nil /\ x > limit
Below(x, limit) == x # Nil /\ x < limit

Those(holds) == {f \in DOMAIN holds : holds[f]}

Praised(s) == Those([eps |-> Above(s.eps, 10), mos |-> s.mos > 0,
                     roe |-> Above(s.roe, 15), peg |-> Below(s.peg, 100)])
Doubted(s) == Those([pe |-> Above(s.pe, 20), mos |-> s.mos <= 0,
                     rev |-> Below(s.rev, 5)])

\* Mutant of Strengths: nothing is said when there is nothing to praise.
StrengthsFound(s) == {Own(f) : f \in Praised(s)}

Strengths(s) == {Own(f) : f \in IF Praised(s) = {} THEN {"profile"} ELSE Praised(s)}
Risks(s) == {Own(f) : f \in IF Doubted(s) = {} THEN {"market"} ELSE Doubted(s)}

\* DetectAnomalies; its fourth rule compares with a previous run, and Analyze
\* passes none.
RiskFlags(s) == Those([mos |-> s.mos < 0, eps |-> Above(s.eps, 150),
                       pe |-> Above(s.pe, 30)])

Confidence(flags) == LET conf == 85 - 5 * Cardinality(flags)
                     IN IF conf < 50 THEN 50 ELSE conf

Deterministic(s) ==
    [provider |-> "quant-heuristic", flags |-> RiskFlags(s),
     confidence |-> Confidence(RiskFlags(s)),
     text |-> [f \in Fields |-> IF f = "strengths" THEN Strengths(s)
                                ELSE IF f = "risks" THEN Risks(s) ELSE {Own(f)}]]

Draft ==
    /\ pc = "start"
    /\ base' = Deterministic(stock)
    /\ analysis' = base'
    /\ pc' = IF llm THEN "asking" ELSE "checking"
    /\ UNCHANGED <<llm, stock>>
-----------------------------------------------------------------------------
\* What comes back from the model's endpoint; status 0 is no connection, a
\* timeout, or a body that breaks off.
Responses == [status : {0, 200, 500}, decodes : BOOLEAN, error : BOOLEAN, choices : {0, 1}]

Completed(r) == r.status = 200 /\ r.decodes /\ ~r.error /\ r.choices > 0

\* Complete returns an error; the deterministic analysis stays.
CompletionFails ==
    /\ pc = "asking"
    /\ \E r \in Responses : ~Completed(r)
    /\ pc' = "checking"
    /\ UNCHANGED <<llm, stock, base, analysis>>

CompletionArrives ==
    /\ pc = "asking"
    /\ \E r \in Responses : Completed(r)
    /\ pc' = "decoding"
    /\ UNCHANGED <<llm, stock, base, analysis>>

\* Mutant of DecodingFails: the error is returned.
DecodingFailsAnalysis ==
    /\ pc = "decoding"
    /\ pc' = "rejected"
    /\ UNCHANGED <<llm, stock, base, analysis>>

\* The content is not the JSON asked for.
DecodingFails ==
    /\ pc = "decoding"
    /\ pc' = "checking"
    /\ UNCHANGED <<llm, stock, base, analysis>>

\* The JSON a model may answer with: a field left out is blank, a list may
\* be empty or hold blank items.
Parsed == {[f \in Enriched |-> IF f \in Lists THEN list[f] ELSE {single[f]}] :
             list \in [Lists -> SUBSET (LLMTexts \cup {Blank})],
             single \in [Enriched \ Lists -> LLMTexts \cup {Blank}]}

Given(p, f) == IF f \in Lists THEN p[f] # {} ELSE p[f] # {Blank}

\* What is left of the draft where the model said nothing.
Merged(p) ==
    [f \in Fields |-> IF f \in Enriched /\ Given(p, f) THEN p[f] ELSE base.text[f]]

\* Mutant of Enrich: the label stays that of the copy.
EnrichUnlabelled ==
    /\ pc = "decoding"
    /\ \E p \in Parsed : analysis' = [base EXCEPT !.text = Merged(p)]
    /\ pc' = "checking"
    /\ UNCHANGED <<llm, stock, base>>

\* enrichWithLLM: a labelled copy with what the model gave.
Enrich ==
    /\ pc = "decoding"
    /\ \E p \in Parsed :
        analysis' = [provider |-> "llm", flags |-> base.flags,
                     confidence |-> base.confidence, text |-> Merged(p)]
    /\ pc' = "checking"
    /\ UNCHANGED <<llm, stock, base>>
-----------------------------------------------------------------------------
\* forbiddenRegex
ForbiddenTerms == {"pasti naik", "pasti untung", "jaminan profit", "rekomendasi beli",
                   "guaranteed return", "sure profit", "buy signal", "target harga pasti"}

\* Printed with one decimal.
Tenths(x) == (x + 5) \div 10

ValidText(t, s) ==
    /\ t.terms \cap ForbiddenTerms = {}
    /\ \A q \in t.quotes : Tenths(q.value) = Tenths(s.score[q.name])

\* Mutant of Valid: the risks are not looked at.
ValidButRisks(a, s) == \A f \in Fields \ {"risks"} : \A t \in a.text[f] : ValidText(t, s)

\* ValidateAnalysis
Valid(a, s) == \A f \in Fields : \A t \in a.text[f] : ValidText(t, s)

Return ==
    /\ pc = "checking"
    /\ Valid(analysis, stock)
    /\ pc' = "returned"
    /\ UNCHANGED <<llm, stock, base, analysis>>

Reject ==
    /\ pc = "checking"
    /\ ~Valid(analysis, stock)
    /\ pc' = "rejected"
    /\ UNCHANGED <<llm, stock, base, analysis>>

None == [provider |-> "none", flags |-> {}, confidence |-> 0, text |-> [f \in Fields |-> {}]]

Init ==
    /\ llm \in BOOLEAN /\ stock \in Stocks
    /\ pc = "start" /\ base = None /\ analysis = None

Next == \/ Draft
        \/ CompletionFails \/ CompletionArrives \/ DecodingFails \/ Enrich
        \/ Return \/ Reject

Spec == Init /\ [][Next]_vars
-----------------------------------------------------------------------------
Texts == {Blank} \cup LLMTexts
           \cup {Own(k) : k \in Fields \cup {"eps", "mos", "roe", "peg", "pe", "rev",
                                          "profile", "market"}}

Analyses == [provider : {"quant-heuristic", "llm"}, flags : SUBSET {"mos", "eps", "pe"},
             confidence : 70 .. 85, text : [Fields -> SUBSET Texts]]

TypeOK ==
    /\ pc \in {"start", "asking", "decoding", "checking", "returned", "rejected"}
    /\ llm \in BOOLEAN /\ stock \in Stocks
    /\ IF pc = "start" THEN base = None /\ analysis = None
                       ELSE base \in Analyses /\ analysis \in Analyses

\* Whatever the model wrote, in whichever field: no text of a returned analysis
\* has a forbidden term or quotes a score that is not the stock's
\* (analyst.go:137, guardrails.go:56-83).
ReturnedIsGuarded ==
    pc = "returned" => \A f \in Fields : \A t \in analysis.text[f] :
        /\ t.terms \cap ForbiddenTerms = {}
        /\ \A q \in t.quotes : q.value - stock.score[q.name] \in -9 .. 9

\* Text of the model never goes out under the name of the deterministic
\* engine, and why a stock ranked, its flags and its confidence are the
\* engine's even if the rest is the model's (analyst.go:202-219).
LabelTellsTheSource ==
    pc = "returned" =>
        /\ (\E f \in Fields : \E t \in analysis.text[f] : t.by = "llm")
              => analysis.provider = "llm"
        /\ analysis.text["why_ranked"] = {Own("why_ranked")}
        /\ analysis.flags = base.flags /\ analysis.confidence = base.confidence

\* A stock goes without an analysis only for what the model wrote: a model
\* that cannot be reached, fails or babbles costs nothing, and without a model
\* every stock has one, as AIPipeline assumes (analyst.go:130-139).
RejectionIsTheModelsFault ==
    pc = "rejected" => llm /\ \E f \in Enriched : \E t \in analysis.text[f] :
        t.by = "llm" /\ ~ValidText(t, stock)

\* A returned analysis has every field, whatever figures the stock lacks and
\* whatever the model leaves out (analyst.go:44, 59, 205-219).
NothingIsMissing ==
    pc = "returned" => \A f \in Fields :
        analysis.text[f] # {} /\ (f \notin Lists => analysis.text[f] # {Blank})
===============================================================================
