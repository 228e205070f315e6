-------------------------- MODULE AIPipelineProofs --------------------------
(***************************************************************************)
(* Proofs about AIPipeline, for any capacity of the queue, with or without *)
(* an LLM, and for any universe of runs.                                   *)
(*                                                                         *)
(* NoRunLost is inductive by itself once types are known.  That analyses   *)
(* belong to the run they name rests on it: the worker's run is one of the *)
(* accepted ones (NoRunLost), an id names one accepted run (SameIds), and  *)
(* what has been analysed so far is among the current run's stocks         *)
(* (AnalysesOfJob).                                                        *)
(*                                                                         *)
(* TickerFollowsQueue is inductive together with IInv and the fact that    *)
(* every analysis of the current run is of a stock the worker is past; its *)
(* proof works on the places in accepted that the worker has come to.      *)
(*                                                                         *)
(* ShowsNothingOlder, about the agent's two maps together, rests on what   *)
(* FiledNotOlder says of the runs already filed and FreshAnalyses of the   *)
(* one the worker holds.                                                   *)
(***************************************************************************)
EXTENDS AIPipeline, SequenceTheorems, TLAPS

SameIds ==
    \A i, j \in DOMAIN accepted : accepted[i].id = accepted[j].id => accepted[i] = accepted[j]

AnalysesOfJob == analyses \subseteq Stocks(job)

IInv == TypeOK /\ NoRunLost /\ SameIds /\ AnalysesOfJob /\ AnalysisMatchesRun

-----------------------------------------------------------------------------

LEMMA RunFields ==
    ASSUME NEW r \in RunResult
    PROVE  /\ r.id \in RunIds /\ r.id # NoAnalysis
           /\ r.stocks \in Seq(Tickers)
           /\ Count(r) \in Nat
           /\ Stocks(r) \subseteq Tickers
           /\ r # NoRun
<1>1. r.id \in RunIds /\ r.stocks \in Seq(Tickers)
  BY RunDataAssumption DEF RunResult
<1>2. r.id # 0
  BY <1>1, RunDataAssumption
<1>3. Count(r) \in Nat
  BY <1>1, LenProperties DEF Count
<1>4. Stocks(r) \subseteq Tickers
  BY <1>1 DEF Stocks
<1>5. r # NoRun
  BY <1>2 DEF NoRun
<1> QED
  BY <1>1, <1>2, <1>3, <1>4, <1>5 DEF NoAnalysis

LEMMA NoRunFields ==
    /\ Count(NoRun) = 0 /\ Stocks(NoRun) = {}
    /\ NoRun \notin RunResult
<1>1. NoRun \notin RunResult
  BY RunFields
<1> QED
  BY <1>1 DEF NoRun, Count, Stocks

\* Appending to the last part of a concatenation.
LEMMA ConcatAppend ==
    ASSUME NEW S, NEW s \in Seq(S), NEW t \in Seq(S), NEW e \in S
    PROVE  s \o Append(t, e) = Append(s \o t, e)
<1>1. Append(t, e) = t \o <<e>> /\ <<e>> \in Seq(S)
  BY AppendIsConcat
<1>2. s \o t \in Seq(S)
  BY ConcatProperties
<1>3. Append(s \o t, e) = (s \o t) \o <<e>>
  BY <1>2, AppendIsConcat
<1>4. (s \o t) \o <<e>> = s \o (t \o <<e>>)
  BY <1>1, ConcatAssociative
<1> QED
  BY <1>1, <1>3, <1>4

\* A sequence is its head and its tail.
LEMMA HeadConcatTail ==
    ASSUME NEW S, NEW s \in Seq(S), s # <<>>
    PROVE  s = <<Head(s)>> \o Tail(s)
<1> DEFINE h == <<Head(s)>>
           t == Tail(s)
<1>1. /\ Head(s) \in S /\ t \in Seq(S) /\ Len(t) = Len(s) - 1
      /\ \A i \in 1..Len(t) : t[i] = s[i + 1]
  BY HeadTailProperties
<1>2. h \in Seq(S) /\ Len(h) = 1 /\ h[1] = s[1]
  BY <1>1
<1>3. Len(s) \in Nat /\ Len(s) # 0
  BY EmptySeq, LenProperties
<1> HIDE DEF h, t
<1>4. /\ h \o t \in Seq(S) /\ Len(h \o t) = Len(h) + Len(t)
      /\ \A i \in 1..(Len(h) + Len(t)) :
            (h \o t)[i] = IF i <= Len(h) THEN h[i] ELSE t[i - Len(h)]
  <2>1. h \in Seq(S) /\ t \in Seq(S)
    BY <1>1, <1>2
  <2> QED
    BY <2>1, ConcatProperties, Zenon
<1>5. Len(h \o t) = Len(s)
  BY <1>1, <1>2, <1>3, <1>4
<1>6. ASSUME NEW i \in 1..Len(s) PROVE s[i] = (h \o t)[i]
  <2>1. (h \o t)[i] = IF i <= 1 THEN h[i] ELSE t[i - 1]
    BY <1>1, <1>2, <1>3, <1>4
  <2>2. CASE i = 1
    BY <1>2, <2>1, <2>2
  <2>3. CASE i # 1
    <3>1. i - 1 \in 1..Len(t) /\ (i - 1) + 1 = i
      BY <1>1, <1>3, <2>3
    <3> QED
      BY <1>1, <2>1, <2>3, <3>1
  <2> QED
    BY <2>2, <2>3
<1>7. s = h \o t
  BY <1>4, <1>5, <1>6, SeqEqual
<1> QED
  BY <1>7 DEF h, t

\* Concatenation in the shape NoRunLost has.
LEMMA ConcatThree ==
    ASSUME NEW S, NEW f \in Seq(S), NEW q \in Seq(S)
    PROVE  /\ (f \o <<>>) \o q = f \o q
           /\ \A e \in S : (f \o <<e>>) \o q = f \o (<<e>> \o q)
<1>1. f \o <<>> = f
  BY ConcatEmptySeq
<1>2. ASSUME NEW e \in S PROVE (f \o <<e>>) \o q = f \o (<<e>> \o q)
  BY <1>2, ConcatAssociative
<1> QED
  BY <1>1, <1>2

-----------------------------------------------------------------------------

LEMMA InitialIInv == Init => IInv
<1> SUFFICES ASSUME Init PROVE IInv
  OBVIOUS
<1> USE DEF Init
<1>1. TypeOK
  <2>1. byRun \in [RunIds -> [status : {"done", "absent"}, tickers : SUBSET Tickers]]
    BY DEF NoEntry
  <2>2. queue \in Seq(RunResult) /\ Len(queue) <= QueueCap
    BY PipelineAssumption
  <2>3. candidate \in 1..(Count(job) + 1)
    BY NoRunFields
  <2> QED
    BY <2>1, <2>2, <2>3 DEF TypeOK, RunOrNone
<1>2. NoRunLost
  BY DEF NoRunLost, Current
<1>3. SameIds /\ AnalysesOfJob
  BY DEF SameIds, AnalysesOfJob
<1>4. AnalysisMatchesRun
  BY DEF AnalysisMatchesRun
<1> QED
  BY <1>1, <1>2, <1>3, <1>4 DEF IInv

\* A run enters the queue.
LEMMA AcceptIInv ==
    ASSUME IInv, NEW r \in RunResult, SameRunSameId(r), Accept(r)
    PROVE  IInv'
<1> USE DEF IInv
<1>1. /\ queue \in Seq(RunResult) /\ accepted \in Seq(RunResult)
      /\ finished \in Seq(RunResult) /\ Current \in Seq(RunResult)
  BY DEF TypeOK, Current, RunOrNone
<1>2. /\ queue' = Append(queue, r) /\ accepted' = Append(accepted, r)
      /\ finished' = finished /\ Current' = Current /\ job' = job
      /\ candidate' = candidate /\ analyses' = analyses /\ byRun' = byRun
      /\ byTicker' = byTicker /\ epoch' = epoch
  BY DEF Accept, worker, agent, Current
<1>3. /\ queue' \in Seq(RunResult) /\ Len(queue') = Len(queue) + 1
      /\ accepted' \in Seq(RunResult) /\ Len(accepted') = Len(accepted) + 1
      /\ \A i \in 1..Len(accepted) : accepted'[i] = accepted[i]
      /\ accepted'[Len(accepted) + 1] = r
      /\ Len(accepted) \in Nat /\ Len(queue) \in Nat
      /\ DOMAIN accepted = 1..Len(accepted)
      /\ DOMAIN accepted' = 1..(Len(accepted) + 1)
  BY <1>1, <1>2, AppendProperties, LenProperties
<1>4. TypeOK'
  <2>1. Len(queue') <= QueueCap
    BY <1>3, PipelineAssumption DEF Accept, Full
  <2> QED
    BY <1>2, <1>3, <2>1 DEF TypeOK, Count
<1>5. NoRunLost'
  <2>1. finished \o Current \in Seq(RunResult)
    BY <1>1, ConcatProperties
  <2>2. (finished \o Current) \o Append(queue, r) = Append((finished \o Current) \o queue, r)
    BY <1>1, <2>1, ConcatAppend
  <2> QED
    BY <1>2, <2>2 DEF NoRunLost
<1>6. SameIds'
  <2> SUFFICES ASSUME NEW i \in DOMAIN accepted', NEW j \in DOMAIN accepted',
                      accepted'[i].id = accepted'[j].id
               PROVE  accepted'[i] = accepted'[j]
    BY DEF SameIds
  <2>1. CASE i \in DOMAIN accepted /\ j \in DOMAIN accepted
    BY <1>3, <2>1 DEF SameIds
  <2>2. CASE i \notin DOMAIN accepted /\ j \in DOMAIN accepted
    BY <1>3, <2>2 DEF SameRunSameId
  <2>3. CASE i \in DOMAIN accepted /\ j \notin DOMAIN accepted
    BY <1>3, <2>3 DEF SameRunSameId
  <2>4. CASE i \notin DOMAIN accepted /\ j \notin DOMAIN accepted
    BY <1>3, <2>4
  <2> QED
    BY <2>1, <2>2, <2>3, <2>4
<1>7. AnalysesOfJob'
  BY <1>2 DEF AnalysesOfJob, Stocks
<1>8. AnalysisMatchesRun'
  <2>1. ASSUME NEW t \in Tickers, byTicker'[t] # NoAnalysis
        PROVE  \E i \in DOMAIN accepted' :
                  accepted'[i].id = byTicker'[t] /\ t \in Stocks(accepted'[i])
    <3>1. PICK i \in DOMAIN accepted :
             accepted[i].id = byTicker[t] /\ t \in Stocks(accepted[i])
      BY <1>2, <2>1 DEF AnalysisMatchesRun
    <3>2. i \in DOMAIN accepted' /\ accepted'[i] = accepted[i]
      BY <1>3
    <3> QED
      BY <1>2, <3>1, <3>2
  <2>2. \A i \in DOMAIN finished' : byRun'[finished'[i].id].tickers \subseteq Stocks(finished'[i])
    BY <1>2 DEF AnalysisMatchesRun
  <2> QED
    BY <2>1, <2>2 DEF AnalysisMatchesRun, Stocks
<1> QED
  BY <1>4, <1>5, <1>6, <1>7, <1>8

LEMMA TakeIInv ==
    ASSUME IInv, Take
    PROVE  IInv'
<1> USE DEF IInv
<1>1. /\ queue \in Seq(RunResult) /\ queue # <<>> /\ finished \in Seq(RunResult)
      /\ job = NoRun /\ job' = Head(queue) /\ queue' = Tail(queue)
      /\ candidate' = 1 /\ analyses' = {}
      /\ finished' = finished /\ accepted' = accepted /\ epoch' = epoch
      /\ byRun' = byRun /\ byTicker' = byTicker
  BY DEF Take, TypeOK, agent
<1>2. /\ Head(queue) \in RunResult /\ Tail(queue) \in Seq(RunResult)
      /\ Len(Tail(queue)) = Len(queue) - 1 /\ Len(queue) \in Nat
  BY <1>1, HeadTailProperties, LenProperties
<1>3. job' # NoRun /\ Count(job)' \in Nat
  <2>1. job' \in RunResult
    BY <1>1, <1>2
  <2> QED
    BY <2>1, RunFields
<1>4. TypeOK'
  <2>1. Len(queue') <= QueueCap
    BY <1>1, <1>2, PipelineAssumption DEF TypeOK
  <2>2. candidate' \in 1..(Count(job)' + 1)
    BY <1>1, <1>3
  <2> QED
    BY <1>1, <1>2, <2>1, <2>2 DEF TypeOK, RunOrNone
<1>5. NoRunLost'
  <2>1. (finished \o <<Head(queue)>>) \o Tail(queue)
           = finished \o (<<Head(queue)>> \o Tail(queue))
    BY <1>1, <1>2, ConcatThree
  <2>2. (finished \o <<>>) \o queue = finished \o queue
    BY <1>1, ConcatThree
  <2>3. queue = <<Head(queue)>> \o Tail(queue)
    BY <1>1, HeadConcatTail
  <2> QED
    BY <1>1, <1>3, <2>1, <2>2, <2>3 DEF NoRunLost, Current
<1>6. SameIds'
  BY <1>1 DEF SameIds
<1>7. AnalysesOfJob'
  BY <1>1 DEF AnalysesOfJob
<1>8. AnalysisMatchesRun'
  BY <1>1 DEF AnalysisMatchesRun, Stocks
<1> QED
  BY <1>4, <1>5, <1>6, <1>7, <1>8

\* Where the worker's run and the finished runs are among the accepted ones.
LEMMA WhereAccepted ==
    ASSUME TypeOK, NoRunLost
    PROVE  /\ job # NoRun => Len(finished) + 1 \in DOMAIN accepted /\ accepted[Len(finished) + 1] = job
           /\ \A i \in DOMAIN finished : i \in DOMAIN accepted /\ accepted[i] = finished[i]
<1> DEFINE f == Len(finished)
           fc == finished \o Current
<1>1. /\ queue \in Seq(RunResult) /\ finished \in Seq(RunResult)
      /\ accepted \in Seq(RunResult) /\ Current \in Seq(RunResult)
  BY DEF TypeOK, Current, RunOrNone
<1>2. f \in Nat /\ Len(Current) \in Nat /\ Len(queue) \in Nat
        /\ DOMAIN finished = 1..f /\ DOMAIN accepted = 1..Len(accepted)
  BY <1>1, LenProperties
<1>3. /\ fc \in Seq(RunResult) /\ Len(fc) = f + Len(Current)
      /\ \A i \in 1..(f + Len(Current)) :
            fc[i] = IF i <= f THEN finished[i] ELSE Current[i - f]
  BY <1>1, ConcatProperties
<1> HIDE DEF fc
<1>4. /\ Len(fc \o queue) = Len(fc) + Len(queue)
      /\ \A i \in 1..(Len(fc) + Len(queue)) :
            (fc \o queue)[i] = IF i <= Len(fc) THEN fc[i] ELSE queue[i - Len(fc)]
  <2>1. fc \in Seq(RunResult) /\ queue \in Seq(RunResult)
    BY <1>1, <1>3
  <2> QED
    BY <2>1, ConcatProperties, Zenon
<1>5. accepted = fc \o queue
  BY DEF NoRunLost, fc
<1>6. ASSUME NEW i \in 1..(f + Len(Current))
      PROVE  i \in DOMAIN accepted /\ accepted[i] = fc[i]
  <2>1. i \in 1..(Len(fc) + Len(queue)) /\ i <= Len(fc)
    BY <1>2, <1>3
  <2>2. i \in DOMAIN accepted
    BY <1>2, <1>4, <1>5, <2>1
  <2>3. (fc \o queue)[i] = fc[i]
    BY <1>4, <2>1
  <2> QED
    BY <1>5, <2>2, <2>3
<1>7. ASSUME job # NoRun PROVE f + 1 \in DOMAIN accepted /\ accepted[f + 1] = job
  <2>1. Len(Current) = 1 /\ Current[1] = job
    BY <1>7 DEF Current
  <2>2. f + 1 \in 1..(f + Len(Current)) /\ ~(f + 1 <= f) /\ (f + 1) - f = 1
    BY <1>2, <2>1
  <2>3. fc[f + 1] = Current[1]
    BY <1>3, <2>2
  <2> QED
    BY <1>6, <2>1, <2>2, <2>3
<1>8. ASSUME NEW i \in DOMAIN finished
      PROVE  i \in DOMAIN accepted /\ accepted[i] = finished[i]
  <2>1. i \in 1..(f + Len(Current)) /\ i <= f
    BY <1>2
  <2>2. fc[i] = finished[i]
    BY <1>3, <2>1
  <2> QED
    BY <1>6, <2>1, <2>2
<1> QED
  BY <1>7, <1>8

\* A stock of the current run has its analysis: it names an accepted run that
\* ranked it.
LEMMA AnalyseOKIInv ==
    ASSUME IInv, AnalyseOK
    PROVE  IInv'
<1> USE DEF IInv
<1>1. job \in RunResult /\ candidate \in 1..Count(job) /\ Count(job) \in Nat
  <2>1. job \in RunResult
    BY DEF AnalyseOK, HasCandidate, TypeOK, RunOrNone
  <2>2. Count(job) \in Nat
    BY <2>1, RunFields
  <2> QED
    BY <2>1, <2>2 DEF AnalyseOK, HasCandidate, TypeOK
<1>2. Ticker \in Stocks(job) /\ Stocks(job) \subseteq Tickers /\ job.id \in RunIds
  <2>1. DOMAIN job.stocks = 1..Count(job)
    BY <1>1, RunFields, LenProperties DEF Count
  <2> QED
    BY <1>1, <2>1, RunFields DEF Ticker, Stocks
<1>3. /\ analyses' = analyses \cup {Ticker}
      /\ byTicker' = [byTicker EXCEPT ![Ticker] = job.id]
      /\ candidate' = candidate + 1
      /\ queue' = queue /\ job' = job /\ byRun' = byRun /\ accepted' = accepted
      /\ finished' = finished /\ epoch' = epoch
  BY DEF AnalyseOK
<1>4. TypeOK'
  <2>1. candidate' \in 1..(Count(job)' + 1)
    BY <1>1, <1>3 DEF Count
  <2>2. byTicker' \in [Tickers -> RunIds \cup {NoAnalysis}]
    BY <1>2, <1>3 DEF TypeOK
  <2> QED
    BY <1>2, <1>3, <2>1, <2>2 DEF TypeOK
<1>5. NoRunLost'
  BY <1>3 DEF NoRunLost, Current
<1>6. SameIds'
  BY <1>3 DEF SameIds
<1>7. AnalysesOfJob'
  BY <1>2, <1>3 DEF AnalysesOfJob, Stocks
<1>8. AnalysisMatchesRun'
  <2>1. ASSUME NEW t \in Tickers, byTicker'[t] # NoAnalysis
        PROVE  \E i \in DOMAIN accepted :
                  accepted[i].id = byTicker'[t] /\ t \in Stocks(accepted[i])
    <3>1. CASE t = Ticker
      <4>1. PICK i \in DOMAIN accepted : accepted[i] = job
        BY <1>1, RunFields, WhereAccepted
      <4>2. byTicker'[t] = job.id
        BY <1>3, <3>1 DEF TypeOK
      <4> QED
        BY <1>2, <3>1, <4>1, <4>2
    <3>2. CASE t # Ticker
      <4>1. byTicker'[t] = byTicker[t]
        BY <1>3, <3>2 DEF TypeOK
      <4> QED
        BY <2>1, <4>1 DEF AnalysisMatchesRun
    <3> QED
      BY <3>1, <3>2
  <2> QED
    BY <1>3, <2>1 DEF AnalysisMatchesRun, Stocks
<1> QED
  BY <1>4, <1>5, <1>6, <1>7, <1>8

LEMMA AnalyseRejectedIInv ==
    ASSUME IInv, AnalyseRejected
    PROVE  IInv'
<1> USE DEF IInv
<1>1. Count(job) \in Nat
  BY RunFields DEF AnalyseRejected, HasCandidate, TypeOK, RunOrNone
<1>2. /\ candidate' = candidate + 1 /\ candidate <= Count(job)
      /\ queue' = queue /\ job' = job /\ analyses' = analyses /\ byRun' = byRun
      /\ byTicker' = byTicker /\ accepted' = accepted /\ finished' = finished
      /\ epoch' = epoch
  BY DEF AnalyseRejected, HasCandidate, agent
<1>3. TypeOK'
  <2>1. candidate' \in 1..(Count(job)' + 1)
    BY <1>1, <1>2 DEF TypeOK, Count
  <2> QED
    BY <1>2, <2>1 DEF TypeOK
<1>4. NoRunLost'
  BY <1>2 DEF NoRunLost, Current
<1>5. SameIds' /\ AnalysesOfJob' /\ AnalysisMatchesRun'
  BY <1>2 DEF SameIds, AnalysesOfJob, AnalysisMatchesRun, Stocks
<1> QED
  BY <1>3, <1>4, <1>5

\* The run is filed; an earlier entry under its id was of the same run.
LEMMA FinishIInv ==
    ASSUME IInv, Finish
    PROVE  IInv'
<1> USE DEF IInv
<1>1. job \in RunResult /\ job.id \in RunIds /\ job # NoRun
  BY RunFields DEF Finish, TypeOK, RunOrNone
<1>2. /\ byRun' = [byRun EXCEPT ![job.id] = Entry(analyses)]
      /\ finished' = Append(finished, job)
      /\ job' = NoRun /\ candidate' = 1 /\ analyses' = {}
      /\ queue' = queue /\ byTicker' = byTicker /\ accepted' = accepted /\ epoch' = epoch
  BY DEF Finish
<1>3. /\ finished \in Seq(RunResult) /\ finished' \in Seq(RunResult)
      /\ Len(finished) \in Nat
      /\ DOMAIN finished = 1..Len(finished) /\ DOMAIN finished' = 1..(Len(finished) + 1)
      /\ \A i \in 1..Len(finished) : finished'[i] = finished[i]
      /\ finished'[Len(finished) + 1] = job
  BY <1>1, <1>2, AppendProperties, LenProperties DEF TypeOK
<1>4. TypeOK'
  <2>1. byRun' \in [RunIds -> [status : {"done", "absent"}, tickers : SUBSET Tickers]]
    BY <1>1, <1>2 DEF TypeOK, Entry
  <2>2. candidate' \in 1..(Count(job)' + 1)
    BY <1>2, NoRunFields
  <2> QED
    BY <1>2, <1>3, <2>1, <2>2 DEF TypeOK, RunOrNone
<1>5. NoRunLost'
  <2>1. (Append(finished, job) \o <<>>) \o queue = (finished \o <<job>>) \o queue
    <3>1. Append(finished, job) = finished \o <<job>> /\ Append(finished, job) \in Seq(RunResult)
      BY <1>1, <1>3, AppendIsConcat, AppendProperties
    <3>2. Append(finished, job) \o <<>> = Append(finished, job)
      BY <3>1, ConcatEmptySeq
    <3> QED
      BY <3>1, <3>2
  <2> QED
    BY <1>1, <1>2, <2>1 DEF NoRunLost, Current
<1>6. SameIds'
  BY <1>2 DEF SameIds
<1>7. AnalysesOfJob'
  BY <1>2 DEF AnalysesOfJob
<1>8. AnalysisMatchesRun'
  <2>1. ASSUME NEW i \in DOMAIN finished'
        PROVE  byRun'[finished'[i].id].tickers \subseteq Stocks(finished'[i])
    <3>1. CASE finished'[i].id = job.id
      <4>1. finished'[i] = job
        <5>1. CASE i = Len(finished) + 1
          BY <1>3, <5>1
        <5>2. CASE i # Len(finished) + 1
          <6>1. i \in DOMAIN finished /\ finished'[i] = finished[i]
            BY <1>3, <5>2
          <6>2. i \in DOMAIN accepted /\ accepted[i] = finished[i]
            BY <6>1, WhereAccepted
          <6>3. PICK j \in DOMAIN accepted : accepted[j] = job
            BY <1>1, WhereAccepted
          <6> QED
            BY <3>1, <6>1, <6>2, <6>3 DEF SameIds
        <5> QED
          BY <5>1, <5>2
      <4>2. byRun'[job.id].tickers = analyses
        BY <1>1, <1>2 DEF TypeOK, Entry
      <4> QED
        BY <3>1, <4>1, <4>2 DEF AnalysesOfJob
    <3>2. CASE finished'[i].id # job.id
      <4>1. i \in DOMAIN finished /\ finished'[i] = finished[i]
        BY <1>3, <3>2
      <4>2. byRun'[finished[i].id] = byRun[finished[i].id]
        <5>1. finished[i].id \in RunIds
          BY <1>3, <4>1, RunFields, ElementOfSeq
        <5> QED
          BY <1>2, <3>2, <4>1, <5>1 DEF TypeOK
      <4> QED
        BY <4>1, <4>2 DEF AnalysisMatchesRun
    <3> QED
      BY <3>1, <3>2
  <2> QED
    BY <1>2, <2>1 DEF AnalysisMatchesRun, Stocks
<1> QED
  BY <1>4, <1>5, <1>6, <1>7, <1>8

LEMMA RestartIInv ==
    ASSUME IInv, Restart
    PROVE  IInv'
<1> USE DEF Restart
<1>1. TypeOK'
  <2>1. byRun' \in [RunIds -> [status : {"done", "absent"}, tickers : SUBSET Tickers]]
    BY DEF NoEntry
  <2>2. queue' \in Seq(RunResult) /\ Len(queue') <= QueueCap
    BY PipelineAssumption
  <2>3. candidate' \in 1..(Count(job)' + 1)
    BY NoRunFields
  <2>4. epoch' \in BOOLEAN
    BY DEF IInv, TypeOK
  <2> QED
    BY <2>1, <2>2, <2>3, <2>4 DEF TypeOK, RunOrNone
<1>2. NoRunLost'
  BY DEF NoRunLost, Current
<1>3. SameIds' /\ AnalysesOfJob'
  BY DEF SameIds, AnalysesOfJob
<1>4. AnalysisMatchesRun'
  BY DEF AnalysisMatchesRun
<1> QED
  BY <1>1, <1>2, <1>3, <1>4 DEF IInv

LEMMA UnchangedIInv ==
    ASSUME IInv, UNCHANGED vars
    PROVE  IInv'
<1> USE DEF IInv, vars, worker, agent
<1>1. TypeOK'
  BY DEF TypeOK, Count
<1>2. NoRunLost'
  BY DEF NoRunLost, Current
<1>3. SameIds' /\ AnalysesOfJob' /\ AnalysisMatchesRun'
  BY DEF SameIds, AnalysesOfJob, AnalysisMatchesRun, Stocks
<1> QED
  BY <1>1, <1>2, <1>3

\* IInv is inductive.
LEMMA StepIInv == IInv /\ [Next]_vars => IInv'
<1> SUFFICES ASSUME IInv, [Next]_vars PROVE IInv'
  OBVIOUS
<1>1. CASE Offer
  <2>1. PICK r \in RunResult : SameRunSameId(r) /\ Enqueue(r)
    BY <1>1 DEF Offer
  <2>2. CASE Accept(r)
    BY <2>1, <2>2, AcceptIInv
  <2>3. CASE Drop(r)
    BY <2>3, UnchangedIInv DEF Drop
  <2> QED
    BY <2>1, <2>2, <2>3 DEF Enqueue
<1>2. CASE Take
  BY <1>2, TakeIInv
<1>3. CASE AnalyseOK
  BY <1>3, AnalyseOKIInv
<1>4. CASE AnalyseRejected
  BY <1>4, AnalyseRejectedIInv
<1>5. CASE Finish
  BY <1>5, FinishIInv
<1>6. CASE Restart
  BY <1>6, RestartIInv
<1>7. CASE UNCHANGED vars
  BY <1>7, UnchangedIInv
<1> QED
  BY <1>1, <1>2, <1>3, <1>4, <1>5, <1>6, <1>7 DEF Next, WorkerStep

LEMMA AlwaysIInv == Spec => []IInv
<1>1. Init => IInv
  BY InitialIInv
<1>2. IInv /\ [Next]_vars => IInv'
  BY StepIInv
<1> QED
  BY <1>1, <1>2, PTL DEF Spec

-----------------------------------------------------------------------------

\* Every reachable state of the worker and the agent is well typed; the queue
\* never holds more than its capacity.
THEOREM PipelineTyped == Spec => []TypeOK
<1>1. IInv => TypeOK
  BY DEF IInv
<1> QED
  BY <1>1, AlwaysIInv, PTL

\* An accepted run is finished, in progress or waiting, once, in the order of
\* acceptance, whatever the guardrails reject.
THEOREM PipelineLosesNoRun == Spec => []NoRunLost
<1>1. IInv => NoRunLost
  BY DEF IInv
<1> QED
  BY <1>1, AlwaysIInv, PTL

\* An analysis is about a stock that the run it names ranked, also when runs
\* are enqueued again and analyses of several runs replace each other.
THEOREM PipelineAnalysisMatchesRun == Spec => []AnalysisMatchesRun
<1>1. IInv => AnalysisMatchesRun
  BY DEF IInv
<1> QED
  BY <1>1, AlwaysIInv, PTL
-----------------------------------------------------------------------------

\* The tickers the worker is past in its run, and per ticker the places it has
\* come to and those of them whose analysis stayed.
PassedBy == {t \in Tickers : Passed(t)}
RanksOf == [t \in Tickers |-> Ranks(t)]
KeptOf == [t \in Tickers |-> {n \in Ranks(t) : Kept(t, n)}]

Placed ==
    /\ Len(finished) \in Nat /\ candidate \in Nat /\ candidate >= 1
    /\ PassedBy # {} => job # NoRun
    /\ job # NoRun => job \in RunResult /\ accepted[Len(finished) + 1] = job
    /\ PassedBy \subseteq Stocks(job)
    /\ \A t \in Tickers :
          /\ RanksOf[t] = {i \in 1..Len(finished) : t \in Stocks(accepted[i])}
                            \cup IF t \in PassedBy THEN {Len(finished) + 1} ELSE {}
          /\ RanksOf[t] \subseteq DOMAIN accepted
          /\ KeptOf[t] = {n \in RanksOf[t] :
                            t \in IF t \in PassedBy THEN analyses ELSE byRun[accepted[n].id].tickers}

LEMMA IInvPlaced == IInv => Placed
<1> SUFFICES ASSUME IInv PROVE Placed
  OBVIOUS
<1> USE DEF IInv
<1>1. Len(finished) \in Nat /\ DOMAIN finished = 1..Len(finished)
  BY LenProperties DEF TypeOK
<1>2. job # NoRun => job \in RunResult
  BY DEF TypeOK, RunOrNone
<1>3. candidate \in 1..(Count(job) + 1) /\ Count(job) \in Nat
  BY <1>2, RunFields, NoRunFields DEF TypeOK
<1>4. ASSUME NEW t, Passed(t) PROVE job \in RunResult /\ t \in Stocks(job)
  <2>1. PICK i \in 1..(candidate - 1) : job.stocks[i] = t
    BY <1>4 DEF Passed
  <2>2. i \in 1..Count(job)
    BY <1>3, <2>1
  <2>3. job # NoRun
    BY <2>2, <1>3, NoRunFields
  <2>4. DOMAIN job.stocks = 1..Count(job)
    BY <1>2, <2>3, RunFields, LenProperties DEF Count
  <2> QED
    BY <1>2, <2>1, <2>2, <2>3, <2>4 DEF Stocks
<1>5. job # NoRun => accepted[Len(finished) + 1] = job /\ Len(finished) + 1 \in DOMAIN accepted
  BY WhereAccepted
<1>6. ASSUME NEW t
      PROVE  Ranks(t) = {i \in 1..Len(finished) : t \in Stocks(accepted[i])}
                          \cup IF Passed(t) THEN {Len(finished) + 1} ELSE {}
  <2>1. CASE Passed(t)
    <3>1. t \in Stocks(accepted[Len(finished) + 1])
      BY <2>1, <1>4, <1>5, RunFields
    <3>2. Reached(t) = Len(finished) + 1
      BY <2>1 DEF Reached
    <3>3. 1..(Len(finished) + 1) = 1..Len(finished) \cup {Len(finished) + 1}
      BY <1>1
    <3> QED
      BY <2>1, <3>1, <3>2, <3>3 DEF Ranks
  <2>2. CASE ~Passed(t)
    <3>1. Reached(t) = Len(finished)
      BY <2>2, <1>1 DEF Reached
    <3> QED
      BY <2>2, <3>1 DEF Ranks
  <2> QED
    BY <2>1, <2>2
<1>7. ASSUME NEW t PROVE Ranks(t) \subseteq DOMAIN accepted
  <2>1. 1..Len(finished) \subseteq DOMAIN accepted
    BY <1>1, WhereAccepted
  <2>2. Passed(t) => Len(finished) + 1 \in DOMAIN accepted
    BY <1>4, <1>5, RunFields
  <2> QED
    BY <1>6, <2>1, <2>2
<1>8. PassedBy \subseteq Stocks(job) /\ (PassedBy # {} => job # NoRun)
  BY <1>4, RunFields DEF PassedBy
<1>9. ASSUME NEW t \in Tickers
      PROVE  KeptOf[t] = {n \in RanksOf[t] :
                t \in IF t \in PassedBy THEN analyses ELSE byRun[accepted[n].id].tickers}
  BY DEF KeptOf, RanksOf, Kept, PassedBy
<1>10. ASSUME NEW t \in Tickers
       PROVE  RanksOf[t] = Ranks(t) /\ (t \in PassedBy <=> Passed(t))
  BY DEF RanksOf, PassedBy
<1> QED
  BY <1>1, <1>2, <1>3, <1>5, <1>6, <1>7, <1>8, <1>9, <1>10 DEF Placed

LEMMA NextPlaced == IInv' => Placed'
BY IInvPlaced, PTL

\* A run ranks a stock once: the worker is not past the one it is at.
LEMMA NotPassedYet ==
    ASSUME IInv, HasCandidate
    PROVE  /\ ~Passed(Ticker) /\ Ticker \in Tickers /\ Ticker \in Stocks(job)
           /\ \A t : (\E i \in 1..candidate : job.stocks[i] = t) <=> Passed(t) \/ t = Ticker
<1>1. job \in RunResult /\ candidate \in 1..Count(job) /\ Count(job) \in Nat
  <2>1. job \in RunResult
    BY DEF IInv, HasCandidate, TypeOK, RunOrNone
  <2> QED
    BY <2>1, RunFields DEF IInv, HasCandidate, TypeOK
<1>2. job.stocks \in Rankings /\ DOMAIN job.stocks = 1..Count(job)
  BY <1>1, RunFields, LenProperties DEF RunResult, Count
<1>3. \A i, j \in 1..Count(job) : job.stocks[i] = job.stocks[j] => i = j
  BY <1>2, RunDataAssumption
<1>4. ~Passed(Ticker)
  <2> SUFFICES ASSUME NEW i \in 1..(candidate - 1), job.stocks[i] = job.stocks[candidate]
               PROVE  FALSE
    BY DEF Passed, Ticker
  <2>1. i \in 1..Count(job) /\ i # candidate
    BY <1>1
  <2> QED
    BY <1>1, <1>3, <2>1
<1>5. Ticker \in Stocks(job) /\ Ticker \in Tickers
  BY <1>1, <1>2, RunFields DEF Ticker, Stocks
<1>6. 1..candidate = 1..(candidate - 1) \cup {candidate}
  BY <1>1
<1>7. ASSUME NEW t
      PROVE  (\E i \in 1..candidate : job.stocks[i] = t) <=> Passed(t) \/ t = Ticker
  BY <1>6 DEF Passed, Ticker
<1> QED
  BY <1>4, <1>5, <1>7

\* The tickers that follow the queue.
Following ==
    {t \in Tickers :
        /\ byTicker[t] \in {accepted[i].id : i \in RanksOf[t]} \cup {NoAnalysis}
        /\ \A n \in RanksOf[t] : (\A i \in RanksOf[t] : i <= n) =>
              IF n \in KeptOf[t] THEN byTicker[t] = accepted[n].id
              ELSE byTicker[t] \in {accepted[i].id : i \in RanksOf[t] \ {n}} \cup {NoAnalysis}}

LEMMA FollowsEach == TickerFollowsQueue <=> Tickers \subseteq Following
<1>1. \A t \in Tickers : RanksOf[t] = Ranks(t) /\ KeptOf[t] = {n \in Ranks(t) : Kept(t, n)}
  BY DEF RanksOf, KeptOf
<1> QED
  BY <1>1 DEF TickerFollowsQueue, Following

\* A ticker that the step does not concern.
LEMMA GoesOnFollowing ==
    ASSUME NEW t \in Following,
           byTicker'[t] = byTicker[t], RanksOf'[t] = RanksOf[t],
           \A i \in RanksOf[t] : accepted'[i] = accepted[i],
           \A n \in RanksOf[t] : (\A i \in RanksOf[t] : i <= n) =>
              (n \in KeptOf'[t] <=> n \in KeptOf[t])
    PROVE  t \in Following'
BY DEF Following

\* Besides, every analysis of the current run is of a ticker the worker is past.
Follow == IInv /\ analyses \subseteq PassedBy /\ Tickers \subseteq Following

\* A step that leaves the worker alone: a run joins the queue behind those the
\* worker has come to, or the worker takes one and is past none of its stocks.
LEMMA QueueFollows ==
    ASSUME Follow, IInv', PassedBy' = PassedBy, analyses' \subseteq PassedBy',
           UNCHANGED <<finished, byTicker, byRun>>,
           PassedBy # {} => analyses' = analyses,
           \A i \in DOMAIN accepted : accepted'[i] = accepted[i]
    PROVE  Follow'
<1>1. Placed /\ Placed'
  BY IInvPlaced, NextPlaced DEF Follow
<1>2. ASSUME NEW t \in Tickers PROVE t \in Following'
  <2>1. \A i \in 1..Len(finished) : i \in DOMAIN accepted /\ accepted'[i] = accepted[i]
    <3>1. DOMAIN finished = 1..Len(finished)
      BY DEF Follow, IInv, TypeOK
    <3> QED
      BY <3>1, WhereAccepted DEF Follow, IInv
  <2>2. RanksOf'[t] = RanksOf[t]
    <3>1. \A i \in 1..Len(finished) : Stocks(accepted'[i]) = Stocks(accepted[i])
      BY <2>1
    <3>2. {i \in 1..Len(finished) : t \in Stocks(accepted'[i])}
            = {i \in 1..Len(finished) : t \in Stocks(accepted[i])}
      BY <3>1
    <3>3. finished' = finished /\ PassedBy' = PassedBy
      OBVIOUS
    <3>4. {i \in 1..Len(finished') : t \in Stocks(accepted'[i])}
            = {i \in 1..Len(finished) : t \in Stocks(accepted[i])}
      BY <3>2, <3>3
    <3>5. (IF t \in PassedBy' THEN {Len(finished') + 1} ELSE {})
            = IF t \in PassedBy THEN {Len(finished) + 1} ELSE {}
      BY <3>3
    <3>6. RanksOf[t] = {i \in 1..Len(finished) : t \in Stocks(accepted[i])}
                         \cup IF t \in PassedBy THEN {Len(finished) + 1} ELSE {}
      BY <1>1 DEF Placed
    <3>7. RanksOf'[t] = {i \in 1..Len(finished') : t \in Stocks(accepted'[i])}
                          \cup IF t \in PassedBy' THEN {Len(finished') + 1} ELSE {}
      BY <1>1 DEF Placed
    <3> QED
      BY ONLY <3>4, <3>5, <3>6, <3>7
  <2>3. \A i \in RanksOf[t] : accepted'[i] = accepted[i]
    BY <1>1 DEF Placed
  <2>4. \A n \in RanksOf[t] : n \in KeptOf'[t] <=> n \in KeptOf[t]
    BY <1>1, <2>2, <2>3 DEF Placed
  <2> QED
    BY <2>2, <2>3, <2>4, GoesOnFollowing DEF Follow
<1> QED
  BY <1>2 DEF Follow

\* What a step does that moves the worker past its candidate.
LEMMA StepPast ==
    ASSUME IInv, HasCandidate, UNCHANGED <<job, finished, accepted>>, candidate' = candidate + 1
    PROVE  /\ Ticker \in Tickers \ PassedBy
           /\ PassedBy' = PassedBy \cup {Ticker}
           /\ Ticker \in Stocks(accepted[Len(finished) + 1]) /\ accepted[Len(finished) + 1] = job
           /\ job # NoRun
<1>1. candidate' - 1 = candidate
  BY IInvPlaced DEF Placed
<1>2. PassedBy' = PassedBy \cup {Ticker}
  BY <1>1, NotPassedYet DEF PassedBy, Passed
<1> QED
  BY <1>2, NotPassedYet, IInvPlaced DEF PassedBy, Placed, HasCandidate

\* The places of a ticker other than the candidate stay what they were.
LEMMA OthersFollow ==
    ASSUME Follow, IInv', HasCandidate,
           UNCHANGED <<job, finished, accepted, byRun>>, candidate' = candidate + 1,
           analyses \subseteq analyses', analyses' \subseteq analyses \cup {Ticker},
           NEW t \in Tickers \ {Ticker}, byTicker'[t] = byTicker[t]
    PROVE  t \in Following'
<1>1. Placed /\ Placed'
  BY IInvPlaced, NextPlaced DEF Follow
<1>2. t \in PassedBy' <=> t \in PassedBy
  BY StepPast DEF Follow
<1>3. RanksOf'[t] = RanksOf[t]
  <2>1. finished' = finished /\ accepted' = accepted
    OBVIOUS
  <2>2. {i \in 1..Len(finished') : t \in Stocks(accepted'[i])}
          = {i \in 1..Len(finished) : t \in Stocks(accepted[i])}
    BY <2>1
  <2>3. (IF t \in PassedBy' THEN {Len(finished') + 1} ELSE {})
          = IF t \in PassedBy THEN {Len(finished) + 1} ELSE {}
    BY <1>2, <2>1
  <2> QED
    BY <1>1, <2>2, <2>3 DEF Placed
<1>4. \A n \in RanksOf[t] : n \in KeptOf'[t] <=> n \in KeptOf[t]
  BY <1>1, <1>2, <1>3 DEF Placed
<1> QED
  BY <1>3, <1>4, GoesOnFollowing DEF Follow

LEMMA AnalyseOKFollows ==
    ASSUME Follow, IInv', AnalyseOK
    PROVE  Follow'
<1>1. Placed /\ Placed' /\ IInv
  BY IInvPlaced, NextPlaced DEF Follow
<1>2. /\ HasCandidate /\ UNCHANGED <<job, finished, accepted, byRun>> /\ candidate' = candidate + 1
      /\ analyses' = analyses \cup {Ticker} /\ byTicker' = [byTicker EXCEPT ![Ticker] = job.id]
  BY DEF AnalyseOK
<1>3. /\ Ticker \in Tickers \ PassedBy /\ PassedBy' = PassedBy \cup {Ticker}
      /\ Ticker \in Stocks(accepted[Len(finished) + 1]) /\ accepted[Len(finished) + 1] = job
  BY <1>1, <1>2, StepPast
<1>4. Ticker \in Following'
  <2> DEFINE N == Len(finished) + 1
             x == Ticker
  <2>1. RanksOf'[x] = RanksOf[x] \cup {N} /\ N \in RanksOf'[x]
    BY <1>1, <1>2, <1>3 DEF Placed
  <2>2. \A i \in RanksOf[x] : i \in 1..Len(finished)
    BY <1>1, <1>3 DEF Placed
  <2>3. KeptOf'[x] = RanksOf'[x]
    BY <1>1, <1>2, <1>3 DEF Placed
  <2>4. byTicker'[x] = job.id
    BY <1>2, <1>3, <1>1 DEF IInv, TypeOK
  <2>5. ASSUME NEW n \in RanksOf'[x], \A i \in RanksOf'[x] : i <= n PROVE n = N
    <3>1. N <= n
      BY <2>1, <2>5
    <3> QED
      BY <3>1, <2>1, <2>2, <1>1 DEF Placed
  <2>6. x \in Tickers /\ byTicker'[x] = accepted'[N].id
    BY <1>2, <1>3, <2>4
  <2> HIDE DEF N, x
  <2>7. x \in Following'
    BY <2>1, <2>3, <2>5, <2>6 DEF Following
  <2> QED
    BY <2>7 DEF x
<1>5. ASSUME NEW t \in Tickers, t # Ticker PROVE t \in Following'
  <2>1. byTicker'[t] = byTicker[t]
    BY <1>1, <1>2, <1>5 DEF IInv, TypeOK
  <2> QED
    BY <1>2, <1>5, <2>1, OthersFollow
<1> QED
  BY <1>2, <1>3, <1>4, <1>5 DEF Follow

\* After a rejection an earlier run's analysis stays, or there is none.
LEMMA AnalyseRejectedFollows ==
    ASSUME Follow, IInv', AnalyseRejected
    PROVE  Follow'
<1>1. Placed /\ Placed' /\ IInv
  BY IInvPlaced, NextPlaced DEF Follow
<1>2. /\ HasCandidate /\ UNCHANGED <<job, finished, accepted, byRun, analyses, byTicker>>
      /\ candidate' = candidate + 1
  BY DEF AnalyseRejected, agent
<1>3. /\ Ticker \in Tickers \ PassedBy /\ PassedBy' = PassedBy \cup {Ticker}
      /\ Ticker \in Stocks(accepted[Len(finished) + 1]) /\ accepted[Len(finished) + 1] = job
  BY <1>1, <1>2, StepPast
<1>4. Ticker \in Following'
  <2> DEFINE N == Len(finished) + 1
             x == Ticker
  <2>1. RanksOf'[x] = RanksOf[x] \cup {N} /\ N \in RanksOf'[x]
    BY <1>1, <1>2, <1>3 DEF Placed
  <2>2. N \notin RanksOf[x] /\ \A i \in RanksOf[x] : i \in 1..Len(finished)
    BY <1>1, <1>3 DEF Placed
  <2>3. KeptOf'[x] = {}
    BY <1>1, <1>2, <1>3 DEF Placed, Follow
  <2>4. byTicker[x] \in {accepted[i].id : i \in RanksOf[x]} \cup {NoAnalysis}
    BY <1>3 DEF Follow, Following
  <2>5. ASSUME NEW n \in RanksOf'[x], \A i \in RanksOf'[x] : i <= n PROVE n = N
    <3>1. N <= n
      BY <2>1, <2>5
    <3> QED
      BY <3>1, <2>1, <2>2, <1>1 DEF Placed
  <2>6. RanksOf'[x] \ {N} = RanksOf[x]
    BY <2>1, <2>2
  <2>7. x \in Tickers /\ byTicker' = byTicker /\ accepted' = accepted
    BY <1>2, <1>3
  <2> HIDE DEF N, x
  <2>8. x \in Following'
    BY <2>1, <2>3, <2>4, <2>5, <2>6, <2>7 DEF Following
  <2> QED
    BY <2>8 DEF x
<1>5. ASSUME NEW t \in Tickers, t # Ticker PROVE t \in Following'
  BY <1>2, <1>5, OthersFollow
<1> QED
  BY <1>2, <1>3, <1>4, <1>5 DEF Follow

\* The run is filed with what was analysed of it; every stock of it was passed.
LEMMA FinishFollows ==
    ASSUME Follow, IInv', Finish
    PROVE  Follow'
<1>1. Placed /\ Placed' /\ IInv
  BY IInvPlaced, NextPlaced DEF Follow
<1>2. /\ job # NoRun /\ candidate > Count(job) /\ job' = NoRun /\ analyses' = {}
      /\ byRun' = [byRun EXCEPT ![job.id] = Entry(analyses)]
      /\ finished' = Append(finished, job) /\ accepted' = accepted /\ byTicker' = byTicker
  BY DEF Finish
<1>3. /\ job \in RunResult /\ accepted[Len(finished) + 1] = job
      /\ finished \in Seq(RunResult) /\ Len(finished) \in Nat
      /\ Len(finished') = Len(finished) + 1
  <2>1. job \in RunResult /\ finished \in Seq(RunResult)
    BY <1>1, <1>2 DEF IInv, TypeOK, Placed
  <2> QED
    BY <1>1, <1>2, <2>1, AppendProperties, LenProperties DEF Placed
<1>4. PassedBy' = {}
  BY <1>1, <1>2 DEF Placed
<1>5. PassedBy = Stocks(job)
  <2> SUFFICES ASSUME NEW t \in Stocks(job) PROVE t \in PassedBy
    BY <1>1 DEF Placed
  <2>1. PICK i \in 1..Count(job) : job.stocks[i] = t
    BY <1>3, RunFields, LenProperties DEF Stocks, Count
  <2>2. Count(job) \in Nat /\ candidate \in Nat
    BY <1>1, <1>3, RunFields DEF Placed
  <2>3. i \in 1..(candidate - 1)
    BY <1>2, <2>1, <2>2
  <2>4. t \in Tickers
    BY <1>3, RunFields
  <2> QED
    BY <2>1, <2>3, <2>4 DEF PassedBy, Passed
<1>6. ASSUME NEW t \in Tickers PROVE t \in Following'
  <2>1. RanksOf'[t] = {i \in 1..(Len(finished) + 1) : t \in Stocks(accepted[i])}
    BY <1>1, <1>2, <1>3, <1>4 DEF Placed
  <2>2. RanksOf[t] = {i \in 1..(Len(finished) + 1) : t \in Stocks(accepted[i])}
    <3>1. 1..(Len(finished) + 1) = 1..Len(finished) \cup {Len(finished) + 1}
      BY <1>3
    <3>2. t \in Stocks(accepted[Len(finished) + 1]) <=> t \in PassedBy
      BY <1>3, <1>5
    <3> QED
      BY <1>1, <3>1, <3>2 DEF Placed
  <2>3. RanksOf'[t] = RanksOf[t] /\ RanksOf[t] \subseteq DOMAIN accepted
    BY <1>1, <2>1, <2>2 DEF Placed
  <2>4. ASSUME NEW n \in RanksOf[t], \A i \in RanksOf[t] : i <= n
        PROVE  n \in KeptOf'[t] <=> n \in KeptOf[t]
    <3>1. n \in KeptOf'[t] <=> t \in byRun'[accepted[n].id].tickers
      BY <1>1, <1>2, <1>4, <2>3, <2>4 DEF Placed
    <3>2. accepted[n].id \in RunIds /\ t \in Stocks(accepted[n])
      BY <1>1, <2>1, <2>3, <2>4, RunFields, ElementOfSeq DEF IInv, TypeOK
    <3>3. CASE accepted[n].id = job.id
      <4>1. accepted[n] = job
        <5>1. PICK j \in DOMAIN accepted : accepted[j] = job
          BY <1>1, <1>2, WhereAccepted DEF IInv
        <5> QED
          BY <1>1, <3>3, <5>1, <2>3, <2>4 DEF IInv, SameIds
      <4>2. t \in PassedBy
        BY <3>2, <4>1, <1>5
      <4>3. n \in KeptOf[t] <=> t \in analyses
        BY <1>1, <2>4, <4>2 DEF Placed
      <4>4. byRun'[job.id].tickers = analyses
        BY <1>1, <1>2, <3>2, <3>3 DEF IInv, TypeOK, Entry
      <4> QED
        BY <3>1, <3>3, <4>3, <4>4
    <3>4. CASE accepted[n].id # job.id
      <4>1. byRun'[accepted[n].id] = byRun[accepted[n].id]
        BY <1>1, <1>2, <3>2, <3>4 DEF IInv, TypeOK
      <4>2. t \notin PassedBy
        <5>1. n # Len(finished) + 1 /\ n \in 1..(Len(finished) + 1)
          BY <1>3, <2>2, <2>4, <3>4
        <5>2. Len(finished) + 1 \in RanksOf[t] => Len(finished) + 1 <= n
          BY <2>4
        <5>3. Len(finished) + 1 \notin RanksOf[t]
          BY <1>3, <5>1, <5>2
        <5> QED
          BY <1>1, <5>3 DEF Placed
      <4> QED
        BY <1>1, <2>4, <3>1, <4>1, <4>2 DEF Placed
    <3> QED
      BY <3>3, <3>4
  <2> QED
    BY <1>2, <2>3, <2>4, GoesOnFollowing DEF Follow
<1> QED
  BY <1>2, <1>4, <1>6 DEF Follow

LEMMA InitFollows == Init => Follow
<1> SUFFICES ASSUME Init PROVE Follow
  OBVIOUS
<1>1. IInv
  BY InitialIInv
<1>2. Placed
  BY <1>1, IInvPlaced
<1>3. PassedBy = {} /\ Len(finished) = 0 /\ analyses = {}
  BY <1>2 DEF Init, Placed
<1>4. ASSUME NEW t \in Tickers PROVE t \in Following
  <2>1. RanksOf[t] = {}
    BY <1>2, <1>3 DEF Placed
  <2> QED
    BY <2>1 DEF Following, Init
<1> QED
  BY <1>1, <1>3, <1>4 DEF Follow

LEMMA RestartFollows ==
    ASSUME Follow, IInv', Restart
    PROVE  Follow'
<1>1. Placed'
  BY NextPlaced
<1>2. PassedBy' = {} /\ Len(finished') = 0 /\ analyses' = {}
  BY <1>1 DEF Restart, Placed
<1>3. ASSUME NEW t \in Tickers PROVE t \in Following'
  <2>1. RanksOf'[t] = {}
    BY <1>1, <1>2 DEF Placed
  <2> QED
    BY <2>1 DEF Following, Restart
<1> QED
  BY <1>2, <1>3 DEF Follow

LEMMA StepFollows == Follow /\ [Next]_vars => Follow'
<1> SUFFICES ASSUME Follow, [Next]_vars PROVE Follow'
  OBVIOUS
<1>1. IInv /\ IInv' /\ Placed /\ Placed'
  BY StepIInv, IInvPlaced, NextPlaced DEF Follow
<1>2. ASSUME NEW r \in RunResult, Accept(r) PROVE Follow'
  <2>1. /\ UNCHANGED <<finished, byTicker, byRun, analyses, job, candidate>>
        /\ accepted' = Append(accepted, r) /\ accepted \in Seq(RunResult)
    BY <1>1, <1>2 DEF Accept, worker, agent, IInv, TypeOK
  <2>2. PassedBy' = PassedBy
    BY <2>1 DEF PassedBy, Passed
  <2>3. \A i \in DOMAIN accepted : accepted'[i] = accepted[i]
    BY <2>1, AppendProperties, LenProperties
  <2> QED
    BY <1>1, <2>1, <2>2, <2>3, QueueFollows DEF Follow
<1>3. CASE UNCHANGED vars
  <2>1. UNCHANGED <<finished, byTicker, byRun, analyses, job, candidate, accepted>>
    BY <1>3 DEF vars, worker, agent
  <2>2. PassedBy' = PassedBy
    BY <2>1 DEF PassedBy, Passed
  <2> QED
    BY <1>1, <2>1, <2>2, QueueFollows DEF Follow
<1>4. CASE Take
  <2>1. /\ UNCHANGED <<finished, byTicker, byRun, accepted>> /\ job = NoRun
        /\ candidate' = 1 /\ analyses' = {}
    BY <1>4 DEF Take, agent
  <2>2. PassedBy = {}
    BY <1>1, <2>1 DEF Placed
  <2>3. PassedBy' = {}
    BY <2>1 DEF PassedBy, Passed
  <2> QED
    BY <1>1, <2>1, <2>2, <2>3, QueueFollows
<1>5. CASE Offer
  <2>1. PICK r \in RunResult : SameRunSameId(r) /\ Enqueue(r)
    BY <1>5 DEF Offer
  <2> QED
    BY <1>2, <1>3, <2>1 DEF Enqueue, Drop
<1> QED
  BY <1>1, <1>3, <1>4, <1>5, AnalyseOKFollows, AnalyseRejectedFollows, FinishFollows,
     RestartFollows DEF Next, WorkerStep

\* A ticker shows the analysis of the last run, in the order of acceptance,
\* that the worker has come to and whose analysis of it was not rejected.
THEOREM PipelineTickerFollowsQueue == Spec => []TickerFollowsQueue
<1>1. Init => Follow
  BY InitFollows
<1>2. Follow /\ [Next]_vars => Follow'
  BY StepFollows
<1>3. Follow => TickerFollowsQueue
  BY FollowsEach DEF Follow
<1> QED
  BY <1>1, <1>2, <1>3, PTL DEF Spec
-----------------------------------------------------------------------------

\* What the worker has analysed of its run so far is what readers are shown.
FreshAnalyses == \A t \in analyses : byTicker[t] = job.id

\* Once a run is filed with an analysis of t, readers are shown an analysis of
\* t by that run or by one behind it in the queue.
FiledNotOlder ==
    \A id \in RunIds : \A t \in byRun[id].tickers :
        \E i \in DOMAIN finished, j \in DOMAIN accepted :
            i <= j /\ finished[i].id = id /\ accepted[j].id = byTicker[t]

Newer == IInv /\ FreshAnalyses /\ FiledNotOlder

LEMMA AnalyseOKNewer ==
    ASSUME Newer, AnalyseOK
    PROVE  FreshAnalyses' /\ FiledNotOlder'
<1> USE DEF Newer
<1>1. /\ analyses' = analyses \cup {Ticker}
      /\ byTicker' = [byTicker EXCEPT ![Ticker] = job.id]
      /\ job' = job /\ byRun' = byRun /\ accepted' = accepted /\ finished' = finished
  BY DEF AnalyseOK
<1>2. Ticker \in Tickers /\ job # NoRun
  BY NotPassedYet DEF AnalyseOK, HasCandidate
<1>3. byTicker'[Ticker] = job.id /\ \A t \in Tickers \ {Ticker} : byTicker'[t] = byTicker[t]
  BY <1>1, <1>2 DEF IInv, TypeOK
<1>4. FreshAnalyses'
  BY <1>1, <1>3 DEF FreshAnalyses, IInv, TypeOK
<1>5. ASSUME NEW id \in RunIds, NEW t \in byRun[id].tickers
      PROVE  \E i \in DOMAIN finished, j \in DOMAIN accepted :
                i <= j /\ finished[i].id = id /\ accepted[j].id = byTicker'[t]
  <2>1. PICK i \in DOMAIN finished, j \in DOMAIN accepted :
           i <= j /\ finished[i].id = id /\ accepted[j].id = byTicker[t]
    BY DEF FiledNotOlder
  <2>2. t \in Tickers
    BY DEF IInv, TypeOK
  <2>3. CASE t = Ticker
    <3>1. Len(finished) + 1 \in DOMAIN accepted /\ accepted[Len(finished) + 1] = job
      BY <1>2, WhereAccepted DEF IInv
    <3>2. i <= Len(finished) + 1
      BY LenProperties DEF IInv, TypeOK
    <3> QED
      BY <1>3, <2>1, <2>3, <3>1, <3>2
  <2>4. CASE t # Ticker
    BY <1>3, <2>1, <2>2, <2>4
  <2> QED
    BY <2>3, <2>4
<1> QED
  BY <1>1, <1>4, <1>5 DEF FiledNotOlder

\* The run that is filed is the newest for all it has an analysis of.
LEMMA FinishNewer ==
    ASSUME Newer, Finish
    PROVE  FreshAnalyses' /\ FiledNotOlder'
<1> USE DEF Newer
<1>1. job \in RunResult /\ job.id \in RunIds /\ job # NoRun
  BY RunFields DEF Finish, IInv, TypeOK, RunOrNone
<1>2. /\ byRun' = [byRun EXCEPT ![job.id] = Entry(analyses)]
      /\ finished' = Append(finished, job) /\ analyses' = {}
      /\ byTicker' = byTicker /\ accepted' = accepted
  BY DEF Finish
<1>3. /\ Len(finished) \in Nat /\ DOMAIN finished = 1..Len(finished)
      /\ DOMAIN finished' = 1..(Len(finished) + 1)
      /\ \A i \in 1..Len(finished) : finished'[i] = finished[i]
      /\ finished'[Len(finished) + 1] = job
  BY <1>1, <1>2, AppendProperties, LenProperties DEF IInv, TypeOK
<1>4. ASSUME NEW id \in RunIds, NEW t \in byRun'[id].tickers
      PROVE  \E i \in DOMAIN finished', j \in DOMAIN accepted :
                i <= j /\ finished'[i].id = id /\ accepted[j].id = byTicker[t]
  <2>1. CASE id = job.id
    <3>1. t \in analyses
      BY <1>1, <1>2, <2>1 DEF IInv, TypeOK, Entry
    <3>2. Len(finished) + 1 \in DOMAIN accepted /\ accepted[Len(finished) + 1] = job
      BY <1>1, WhereAccepted DEF IInv
    <3>3. Len(finished) + 1 \in DOMAIN finished' /\ Len(finished) + 1 <= Len(finished) + 1
      BY <1>3
    <3> QED
      BY <1>3, <2>1, <3>1, <3>2, <3>3 DEF FreshAnalyses
  <2>2. CASE id # job.id
    <3>1. t \in byRun[id].tickers
      BY <1>2, <2>2 DEF IInv, TypeOK
    <3>2. PICK i \in DOMAIN finished, j \in DOMAIN accepted :
             i <= j /\ finished[i].id = id /\ accepted[j].id = byTicker[t]
      BY <3>1 DEF FiledNotOlder
    <3>3. i \in DOMAIN finished' /\ finished'[i] = finished[i]
      BY <1>3
    <3> QED
      BY <3>2, <3>3
  <2> QED
    BY <2>1, <2>2
<1> QED
  BY <1>2, <1>4 DEF FiledNotOlder, FreshAnalyses

\* A run that joins the queue stands behind all others.
LEMMA AcceptNewer ==
    ASSUME Newer, NEW r \in RunResult, Accept(r)
    PROVE  FreshAnalyses' /\ FiledNotOlder'
<1> USE DEF Newer
<1>1. /\ accepted' = Append(accepted, r) /\ accepted \in Seq(RunResult)
      /\ UNCHANGED <<job, analyses, byRun, byTicker, finished>>
  BY DEF Accept, worker, agent, IInv, TypeOK
<1>2. \A j \in DOMAIN accepted : j \in DOMAIN accepted' /\ accepted'[j] = accepted[j]
  BY <1>1, AppendProperties, LenProperties
<1> QED
  BY <1>1, <1>2 DEF FreshAnalyses, FiledNotOlder

LEMMA StepNewer == Newer /\ [Next]_vars => Newer'
<1> SUFFICES ASSUME Newer, [Next]_vars PROVE Newer'
  OBVIOUS
<1>1. IInv'
  BY StepIInv DEF Newer
<1>2. CASE UNCHANGED vars
  BY <1>1, <1>2 DEF Newer, FreshAnalyses, FiledNotOlder, vars, worker, agent
<1>3. CASE Offer
  <2>1. PICK r \in RunResult : SameRunSameId(r) /\ Enqueue(r)
    BY <1>3 DEF Offer
  <2> QED
    BY <1>1, <1>2, <2>1, AcceptNewer DEF Enqueue, Drop, Newer
<1>4. CASE Take \/ AnalyseRejected
  <2>1. UNCHANGED <<byRun, byTicker, accepted, finished>>
    BY <1>4 DEF Take, AnalyseRejected, agent
  <2>2. analyses' = {} \/ (analyses' = analyses /\ job' = job)
    BY <1>4 DEF Take, AnalyseRejected
  <2> QED
    BY <1>1, <2>1, <2>2 DEF Newer, FreshAnalyses, FiledNotOlder
<1>5. CASE Restart
  <2>1. \A id \in RunIds : byRun'[id].tickers = {}
    BY <1>5 DEF Restart, NoEntry
  <2> QED
    BY <1>1, <1>5, <2>1 DEF Restart, Newer, FreshAnalyses, FiledNotOlder
<1> QED
  BY <1>1, <1>2, <1>3, <1>4, <1>5, AnalyseOKNewer, FinishNewer DEF Next, WorkerStep, Newer

\* Once a run is filed with an analysis of t, readers of t are shown that
\* analysis or one by a run accepted after it.
ShowsNothingOlder ==
    \A id \in RunIds : \A t \in byRun[id].tickers :
        \E i, j \in DOMAIN accepted :
            i <= j /\ accepted[i].id = id /\ accepted[j].id = byTicker[t]

\* Whoever finds a stock's analysis filed under a run is never shown a text on
\* that stock by a run that was accepted before it.
THEOREM PipelineShowsNothingOlder == Spec => []ShowsNothingOlder
<1>1. Init => Newer
  <2> SUFFICES ASSUME Init PROVE FreshAnalyses /\ FiledNotOlder
    BY InitialIInv DEF Newer
  <2>1. \A id \in RunIds : byRun[id].tickers = {}
    BY DEF Init, NoEntry
  <2> QED
    BY <2>1 DEF Init, FreshAnalyses, FiledNotOlder
<1>2. Newer /\ [Next]_vars => Newer'
  BY StepNewer
<1>3. Newer => ShowsNothingOlder
  BY WhereAccepted DEF Newer, IInv, FiledNotOlder, ShowsNothingOlder
<1> QED
  BY <1>1, <1>2, <1>3, PTL DEF Spec
=============================================================================
