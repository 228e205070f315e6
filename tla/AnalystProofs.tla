----------------------------- MODULE AnalystProofs -----------------------------
(***************************************************************************)
(* Proofs about Analyst for any stocks and anything a language model may   *)
(* write.  Sourced is the inductive strengthening: what was drafted, and   *)
(* that text which is not the model's passes the guardrails.               *)
(***************************************************************************)
EXTENDS Analyst, FiniteSetTheorems, TLAPS

\* Text of the code's own, and no text, hold nothing the guardrails look for.
LEMMA OwnTextIsValid ==
    ASSUME NEW s, NEW t \in Texts, t.by # "llm"
    PROVE  ValidText(t, s)
BY AnalystAssumption DEF ValidText, Texts, Own, Blank

\* The quotes of every text have numbers and names of scores.
LEMMA QuotesTyped ==
    ASSUME NEW t \in Texts
    PROVE  t.quotes \subseteq [name : Scores, value : Int]
BY AnalystAssumption DEF Texts, Own, Blank

\* There are no more than three flags.
LEMMA FewFlags ==
    ASSUME NEW F \in SUBSET {"mos", "eps", "pe"}
    PROVE  Cardinality(F) \in 0 .. 3
<1> DEFINE A == {} \cup {"mos"}
           B == A \cup {"eps"}
           C == B \cup {"pe"}
<1>1. IsFiniteSet({}) /\ Cardinality({}) = 0
    BY FS_EmptySet
<1>2. IsFiniteSet(A) /\ Cardinality(A) = 1
    BY <1>1, FS_AddElement
<1>3. IsFiniteSet(B) /\ Cardinality(B) = 2
    BY <1>2, FS_AddElement
<1>4. IsFiniteSet(C) /\ Cardinality(C) = 3
    BY <1>3, FS_AddElement
<1>5. F \in SUBSET C
    OBVIOUS
<1>6. IsFiniteSet(F) /\ Cardinality(F) <= 3
    BY <1>4, <1>5, FS_Subset
<1> QED
    BY <1>6, FS_CardinalityType

LEMMA FlagsTyped ==
    ASSUME NEW s
    PROVE  RiskFlags(s) \in SUBSET {"mos", "eps", "pe"}
BY DEF RiskFlags, Those

LEMMA ConfidenceTyped ==
    ASSUME NEW s
    PROVE  Confidence(RiskFlags(s)) \in 70 .. 85
<1>1. Cardinality(RiskFlags(s)) \in 0 .. 3
    BY FlagsTyped, FewFlags
<1> QED
    BY <1>1 DEF Confidence

\* The lists of the draft are the code's own texts, and never empty.
LEMMA DraftedLists ==
    ASSUME NEW s
    PROVE  /\ Strengths(s) \in SUBSET Texts /\ Strengths(s) # {}
           /\ Risks(s) \in SUBSET Texts /\ Risks(s) # {}
           /\ \A t \in Strengths(s) \cup Risks(s) : t.by = "code"
<1>1. Praised(s) \subseteq {"eps", "mos", "roe", "peg"}
    BY DEF Praised, Those
<1>2. Doubted(s) \subseteq {"pe", "mos", "rev"}
    BY DEF Doubted, Those
<1> DEFINE P == IF Praised(s) = {} THEN {"profile"} ELSE Praised(s)
           D == IF Doubted(s) = {} THEN {"market"} ELSE Doubted(s)
           Topics == {"eps", "mos", "roe", "peg", "pe", "rev", "profile", "market"}
<1>3. P # {} /\ P \subseteq Topics /\ D # {} /\ D \subseteq Topics
    BY <1>1, <1>2
<1>4. \A k \in Topics : Own(k) \in Texts /\ Own(k).by = "code"
    BY DEF Texts, Own
<1>5. Strengths(s) = {Own(k) : k \in P} /\ Risks(s) = {Own(k) : k \in D}
    BY DEF Strengths, Risks
<1> HIDE DEF P, D, Topics
<1> QED
    BY <1>3, <1>4, <1>5

LEMMA DraftTyped ==
    ASSUME NEW s
    PROVE  /\ Deterministic(s) \in Analyses
           /\ Deterministic(s).text["why_ranked"] = {Own("why_ranked")}
           /\ \A f \in Fields : /\ Deterministic(s).text[f] # {}
                                /\ f \notin Lists => Deterministic(s).text[f] # {Blank}
                                /\ \A t \in Deterministic(s).text[f] : t.by # "llm"
<1> DEFINE T == Deterministic(s).text
<1>1. T = [f \in Fields |-> IF f = "strengths" THEN Strengths(s)
                           ELSE IF f = "risks" THEN Risks(s) ELSE {Own(f)}]
    BY DEF Deterministic
<1>2. ASSUME NEW f \in Fields
      PROVE  /\ T[f] \in SUBSET Texts /\ T[f] # {}
             /\ f \notin Lists => T[f] # {Blank}
             /\ \A t \in T[f] : t.by # "llm"
    <2>1. CASE f = "strengths"
        <3>1. T[f] = Strengths(s)
            BY <1>1, <2>1
        <3> QED
            BY <2>1, <3>1, DraftedLists DEF Lists
    <2>2. CASE f = "risks"
        <3>1. T[f] = Risks(s)
            BY <1>1, <2>2
        <3> QED
            BY <2>2, <3>1, DraftedLists DEF Lists
    <2>3. CASE f # "strengths" /\ f # "risks"
        <3>1. T[f] = {Own(f)}
            BY <1>1, <2>3
        <3>2. Own(f) \in Texts /\ Own(f) # Blank /\ Own(f).by # "llm"
            BY DEF Texts, Own, Blank
        <3> QED
            BY <3>1, <3>2
    <2> QED
        BY <2>1, <2>2, <2>3
<1>3. T["why_ranked"] = {Own("why_ranked")}
    BY <1>1 DEF Fields
<1>4. T \in [Fields -> SUBSET Texts]
    BY <1>1, <1>2
<1>5. Deterministic(s) \in Analyses
    BY <1>4, FlagsTyped, ConfidenceTyped DEF Deterministic, Analyses
<1> QED
    BY <1>2, <1>3, <1>5
-----------------------------------------------------------------------------
\* What the model may have put into the analysis that is about to be checked.
Sourced ==
    pc # "start" =>
        /\ base = Deterministic(stock)
        /\ pc \in {"asking", "decoding"} => llm /\ analysis = base
        /\ analysis.flags = base.flags /\ analysis.confidence = base.confidence
        /\ analysis.text["why_ranked"] = {Own("why_ranked")}
        /\ \A f \in Fields :
              /\ analysis.text[f] # {}
              /\ f \notin Lists => analysis.text[f] # {Blank}
              /\ \A t \in analysis.text[f] :
                    t.by = "llm" => llm /\ f \in Enriched /\ analysis.provider = "llm"

Checked ==
    /\ pc = "returned" => Valid(analysis, stock)
    /\ pc = "rejected" => ~Valid(analysis, stock)

IInv == TypeOK /\ Sourced /\ Checked

LEMMA InitIInv == Init => IInv
BY DEF Init, IInv, TypeOK, Sourced, Checked

LEMMA DraftIInv == IInv /\ Draft => IInv'
<1> SUFFICES ASSUME IInv, Draft PROVE IInv'
    OBVIOUS
<1> USE DEF IInv
<1>1. base' = Deterministic(stock) /\ analysis' = base' /\ stock' = stock /\ llm' = llm
    BY DEF Draft
<1>2. pc' = IF llm THEN "asking" ELSE "checking"
    BY DEF Draft
<1>3. TypeOK'
    BY <1>1, <1>2, DraftTyped DEF TypeOK
<1>4. Sourced'
    BY <1>1, <1>2, DraftTyped DEF Sourced
<1>5. Checked'
    BY <1>2 DEF Checked
<1> QED
    BY <1>3, <1>4, <1>5

\* What a decoded reply makes of the draft.
LEMMA RewrittenText ==
    ASSUME NEW p \in Parsed, NEW T \in [Fields -> SUBSET Texts], NEW f \in Fields,
           T[f] # {}, f \notin Lists => T[f] # {Blank}
    PROVE  LET U == IF f \in Enriched /\ Given(p, f) THEN p[f] ELSE T[f]
           IN /\ U \in SUBSET Texts /\ U # {}
              /\ f \notin Lists => U # {Blank}
<1>1. CASE f \in Enriched /\ Given(p, f)
    <2>1. PICK list \in [Lists -> SUBSET (LLMTexts \cup {Blank})],
               single \in [Enriched \ Lists -> LLMTexts \cup {Blank}] :
             p = [g \in Enriched |-> IF g \in Lists THEN list[g] ELSE {single[g]}]
        BY DEF Parsed
    <2>2. CASE f \in Lists
        BY <1>1, <2>1, <2>2 DEF Given, Texts
    <2>3. CASE f \notin Lists
        <3>1. p[f] = {single[f]} /\ single[f] \in LLMTexts \cup {Blank}
            BY <1>1, <2>1, <2>3
        <3> QED
            BY <1>1, <2>3, <3>1 DEF Given, Texts
    <2> QED
        BY <2>2, <2>3
<1>2. CASE ~(f \in Enriched /\ Given(p, f))
    BY <1>2
<1> QED
    BY <1>1, <1>2

LEMMA EnrichIInv == IInv /\ Enrich => IInv'
<1> SUFFICES ASSUME IInv, Enrich PROVE IInv'
    OBVIOUS
<1> USE DEF IInv
<1>1. PICK p \in Parsed :
         analysis' = [provider |-> "llm", flags |-> base.flags,
                      confidence |-> base.confidence, text |-> Merged(p)]
    BY DEF Enrich
<1>2. pc = "decoding" /\ pc' = "checking" /\ base' = base /\ stock' = stock /\ llm' = llm
    BY DEF Enrich
<1>3. base \in Analyses /\ base = Deterministic(stock) /\ llm
    BY <1>2 DEF TypeOK, Sourced
<1> DEFINE U == Merged(p)
<1>4. ASSUME NEW f \in Fields
      PROVE  /\ U[f] \in SUBSET Texts /\ U[f] # {}
             /\ f \notin Lists => U[f] # {Blank}
    <2>1. base.text \in [Fields -> SUBSET Texts]
        BY <1>3 DEF Analyses
    <2>2. base.text[f] # {} /\ (f \notin Lists => base.text[f] # {Blank})
        BY <1>3, DraftTyped
    <2> QED
        BY <2>1, <2>2, RewrittenText DEF Merged
<1>5. U["why_ranked"] = {Own("why_ranked")}
    BY <1>3, DraftTyped DEF Merged, Fields, Enriched, Lists
<1>6. ASSUME NEW f \in Fields, NEW t \in U[f], t.by = "llm"
      PROVE  f \in Enriched
    <2>1. SUFFICES ASSUME f \notin Enriched PROVE FALSE
        OBVIOUS
    <2>2. t \in base.text[f]
        BY <1>6, <2>1 DEF Merged
    <2> QED
        BY <1>3, <1>6, <2>2, DraftTyped
<1>7. /\ analysis'.provider = "llm" /\ analysis'.text = U
      /\ analysis'.flags = base.flags /\ analysis'.confidence = base.confidence
    BY <1>1
<1>8. analysis' \in Analyses
    <2>1. U \in [Fields -> SUBSET Texts]
        BY <1>4 DEF Merged
    <2> QED
        BY <1>1, <1>3, <2>1 DEF Analyses
<1> HIDE DEF U
<1>9. TypeOK'
    BY <1>2, <1>3, <1>8 DEF TypeOK
<1>10. Sourced'
    BY <1>2, <1>3, <1>4, <1>5, <1>6, <1>7 DEF Sourced
<1>11. Checked'
    BY <1>2 DEF Checked
<1> QED
    BY <1>9, <1>10, <1>11

LEMMA NextIInv == IInv /\ [Next]_vars => IInv'
<1> SUFFICES ASSUME IInv, [Next]_vars PROVE IInv'
    OBVIOUS
<1>1. CASE Draft
    BY <1>1, DraftIInv
<1>2. CASE CompletionFails
    BY <1>2 DEF CompletionFails, IInv, TypeOK, Sourced, Checked
<1>3. CASE CompletionArrives
    BY <1>3 DEF CompletionArrives, IInv, TypeOK, Sourced, Checked
<1>4. CASE DecodingFails
    BY <1>4 DEF DecodingFails, IInv, TypeOK, Sourced, Checked
<1>5. CASE Enrich
    BY <1>5, EnrichIInv
<1>6. CASE Return
    BY <1>6 DEF Return, IInv, TypeOK, Sourced, Checked
<1>7. CASE Reject
    BY <1>7 DEF Reject, IInv, TypeOK, Sourced, Checked
<1>8. CASE UNCHANGED vars
    BY <1>8 DEF vars, IInv, TypeOK, Sourced, Checked
<1> QED
    BY <1>1, <1>2, <1>3, <1>4, <1>5, <1>6, <1>7, <1>8 DEF Next

LEMMA Inductive == Spec => []IInv
BY InitIInv, NextIInv, PTL DEF Spec
-----------------------------------------------------------------------------
\* Type correctness, whatever the figures and the model: the confidence stays
\* between 70 and 85 (analyst.go:100-110).
THEOREM AnalystTyped == Spec => []TypeOK
<1>1. IInv => TypeOK
    BY DEF IInv
<1> QED
    BY <1>1, Inductive, PTL

\* Numbers with the same tenths are less than a tenth apart.
LEMMA SameTenths ==
    ASSUME NEW x \in Int, NEW y \in Int, Tenths(x) = Tenths(y)
    PROVE  x - y \in -9 .. 9
BY DEF Tenths

\* For whatever a model may write, a returned analysis passed every check in
\* every field (guardrails.go:56-83).
THEOREM AnalystReturnsGuarded == Spec => []ReturnedIsGuarded
<1>1. IInv => ReturnedIsGuarded
    <2> SUFFICES ASSUME IInv, pc = "returned", NEW f \in Fields, NEW t \in analysis.text[f]
                 PROVE  /\ t.terms \cap ForbiddenTerms = {}
                        /\ \A q \in t.quotes : q.value - stock.score[q.name] \in -9 .. 9
        BY DEF ReturnedIsGuarded
    <2>1. ValidText(t, stock)
        BY DEF IInv, Checked, Valid
    <2>2. t \in Texts
        BY DEF IInv, TypeOK, Analyses
    <2>3. stock.score \in [Scores -> Int]
        BY AnalystAssumption DEF IInv, TypeOK
    <2>4. ASSUME NEW q \in t.quotes
          PROVE  q.value - stock.score[q.name] \in -9 .. 9
        <3>1. q.value \in Int /\ q.name \in Scores
            BY <2>2, QuotesTyped
        <3>2. Tenths(q.value) = Tenths(stock.score[q.name])
            BY <2>1 DEF ValidText
        <3> QED
            BY <2>3, <3>1, <3>2, SameTenths
    <2> QED
        BY <2>1, <2>4 DEF ValidText
<1> QED
    BY <1>1, Inductive, PTL

\* Text of the model carries its label, and what the engine computed is
\* beyond its reach (analyst.go:202-219).
THEOREM AnalystLabelsItsSource == Spec => []LabelTellsTheSource
<1>1. IInv => LabelTellsTheSource
    BY DEF IInv, Sourced, LabelTellsTheSource
<1> QED
    BY <1>1, Inductive, PTL

\* Only what a model wrote can cost a stock its analysis: the assumption of
\* AIPipeline!AnalyseRejected (analyst.go:130-139).
THEOREM AnalystRejectsTheModelOnly == Spec => []RejectionIsTheModelsFault
<1>1. IInv => RejectionIsTheModelsFault
    <2> SUFFICES ASSUME IInv, pc = "rejected"
                 PROVE  llm /\ \E f \in Enriched : \E t \in analysis.text[f] :
                                  t.by = "llm" /\ ~ValidText(t, stock)
        BY DEF RejectionIsTheModelsFault
    <2>1. PICK f \in Fields : \E t \in analysis.text[f] : ~ValidText(t, stock)
        BY DEF IInv, Checked, Valid
    <2>2. PICK t \in analysis.text[f] : ~ValidText(t, stock)
        BY <2>1
    <2>3. t \in Texts
        BY DEF IInv, TypeOK, Analyses
    <2>4. t.by = "llm"
        BY <2>2, <2>3, OwnTextIsValid
    <2>5. llm /\ f \in Enriched
        BY <2>4 DEF IInv, Sourced
    <2> QED
        BY <2>2, <2>4, <2>5
<1> QED
    BY <1>1, Inductive, PTL

\* Every field of a returned analysis is filled (analyst.go:44, 59, 205-219).
THEOREM AnalystLeavesNothingOut == Spec => []NothingIsMissing
<1>1. IInv => NothingIsMissing
    BY DEF IInv, Sourced, NothingIsMissing
<1> QED
    BY <1>1, Inductive, PTL
===============================================================================
