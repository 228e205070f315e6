---------------------------- MODULE AIPipeline ----------------------------
(***************************************************************************)
(* ai.Worker and ai.Agent: a bounded channel of runs, one goroutine that   *)
(* takes them one at a time and has each ranked stock analysed, and the    *)
(* two maps that the HTTP handlers read the analyses from.                 *)
(*                                                                         *)
(* The worker loop also selects on a stop channel and on a context; main   *)
(* passes context.Background() and leaves through log.Fatal, so neither    *)
(* is ever ready and the goroutine ends with the process.                  *)
(***************************************************************************)
EXTENDS RunData

CONSTANTS QueueCap,     \* capacity of Worker.queue: 10 in the code
          LLMEnabled,   \* an LLM client was configured (SetLLMClient)
          MaxEnqueues   \* bound: runs accepted between two restarts

ASSUME PipelineAssumption ==
    /\ QueueCap \in Nat \ {0}
    /\ LLMEnabled \in BOOLEAN
    /\ MaxEnqueues \in Nat

VARIABLES
    queue,      \* Worker.queue, head first
    job,        \* the run ProcessRun is working on, NoRun between runs
    candidate,  \* the next of its inputs to analyse
    analyses,   \* runAnalyses.Analyses so far: the tickers with an analysis
    byRun,      \* Agent.cache: run id -> its RunAnalyses, or NoEntry
    byTicker,   \* Agent.latestByTicker: the run of a ticker's analysis, or 0
    accepted,   \* history: the runs Enqueue put into the queue
    finished,   \* history: the runs ProcessRun has returned from
    epoch       \* history: a bit that every restart of the process flips

worker == <<job, candidate, analyses>>
agent  == <<byRun, byTicker>>
vars   == <<queue, worker, agent, accepted, finished, epoch>>

-----------------------------------------------------------------------------

NoAnalysis == 0

\* A RunAnalyses as a reader of the cache finds it: by then its status is
\* "done"; "pending" is overwritten before the entry is made.
Entry(tickers) == [status |-> "done", tickers |-> tickers]
NoEntry == [status |-> "absent", tickers |-> {}]

Init ==
    /\ queue = <<>>
    /\ job = NoRun /\ candidate = 1 /\ analyses = {}
    /\ byRun = [id \in RunIds |-> NoEntry]
    /\ byTicker = [t \in Tickers |-> NoAnalysis]
    /\ accepted = <<>> /\ finished = <<>>
    /\ epoch = FALSE

\* Mutant of Full.
FullOffByOne == Len(queue) > QueueCap

Full == Len(queue) >= QueueCap

\* Mutant of Accept: a full queue makes room by forgetting its oldest run.
AcceptOverOldest(r) ==
    /\ queue' = Append(IF Full THEN Tail(queue) ELSE queue, r)
    /\ accepted' = Append(accepted, r)
    /\ UNCHANGED <<worker, agent, finished, epoch>>

\* Enqueue: a send that never blocks.
Accept(r) ==
    /\ ~Full
    /\ queue' = Append(queue, r)
    /\ accepted' = Append(accepted, r)
    /\ UNCHANGED <<worker, agent, finished, epoch>>

\* The default branch: the run is logged as dropped and nothing else happens.
Drop(r) ==
    /\ Full
    /\ UNCHANGED vars

\* Mutant of Enqueue: the send without the default branch.
EnqueueBlocking(r) == Accept(r)

Enqueue(r) == Accept(r) \/ Drop(r)

\* The worker receives a run and ProcessRun starts on it.  The screener's
\* result is discarded and it never fails, so every stock is a candidate.
Take ==
    /\ job = NoRun
    /\ queue # <<>>
    /\ job' = Head(queue)
    /\ queue' = Tail(queue)
    /\ candidate' = 1
    /\ analyses' = {}
    /\ UNCHANGED <<agent, accepted, finished, epoch>>

HasCandidate == job # NoRun /\ candidate <= Count(job)

Ticker == job.stocks[candidate]

\* Mutant of AnalyseOK: a ticker that has an analysis keeps it.
AnalyseOnce ==
    /\ HasCandidate
    /\ analyses' = analyses \cup {Ticker}
    /\ byTicker' = [byTicker EXCEPT ![Ticker] = IF @ = NoAnalysis THEN job.id ELSE @]
    /\ candidate' = candidate + 1
    /\ UNCHANGED <<queue, job, byRun, accepted, finished, epoch>>

\* Analyze returned an analysis, the deterministic one or the one the LLM
\* rewrote; readers of latestByTicker see it at once.
AnalyseOK ==
    /\ HasCandidate
    /\ analyses' = analyses \cup {Ticker}
    /\ byTicker' = [byTicker EXCEPT ![Ticker] = job.id]
    /\ candidate' = candidate + 1
    /\ UNCHANGED <<queue, job, byRun, accepted, finished, epoch>>

\* Mutant of AnalyseRejected: the error ends ProcessRun.
RejectionEndsRun ==
    /\ LLMEnabled
    /\ HasCandidate
    /\ job' = NoRun /\ candidate' = 1 /\ analyses' = {}
    /\ finished' = Append(finished, job)
    /\ UNCHANGED <<queue, agent, accepted, epoch>>

\* ValidateAnalysis rejected the LLM's text.  Analyze returns the error, not
\* the deterministic analysis it started from, and the loop continues.  The
\* deterministic texts hold nothing the guardrails look for.
AnalyseRejected ==
    /\ LLMEnabled
    /\ HasCandidate
    /\ candidate' = candidate + 1
    /\ UNCHANGED <<queue, job, analyses, agent, accepted, finished, epoch>>

\* Mutant of Finish: every ticker with a latest analysis is filed under the run.
FinishWithAllTickers ==
    /\ job # NoRun
    /\ candidate > Count(job)
    /\ byRun' = [byRun EXCEPT ![job.id] =
                    Entry({t \in Tickers : byTicker[t] # NoAnalysis})]
    /\ finished' = Append(finished, job)
    /\ job' = NoRun /\ candidate' = 1 /\ analyses' = {}
    /\ UNCHANGED <<queue, byTicker, accepted, epoch>>

\* After the loop: Status becomes "done" and the run enters the cache.
Finish ==
    /\ job # NoRun
    /\ candidate > Count(job)
    /\ byRun' = [byRun EXCEPT ![job.id] = Entry(analyses)]
    /\ finished' = Append(finished, job)
    /\ job' = NoRun /\ candidate' = 1 /\ analyses' = {}
    /\ UNCHANGED <<queue, byTicker, accepted, epoch>>

\* All of it lives in memory.
Restart ==
    /\ epoch' = ~epoch
    /\ queue' = <<>>
    /\ job' = NoRun /\ candidate' = 1 /\ analyses' = {}
    /\ byRun' = [id \in RunIds |-> NoEntry]
    /\ byTicker' = [t \in Tickers |-> NoAnalysis]
    /\ accepted' = <<>> /\ finished' = <<>>

-----------------------------------------------------------------------------

\* An id names one run: the same run may be enqueued again (POST
\* /admin/ai/run), another one never has its id.
SameRunSameId(r) == \A i \in DOMAIN accepted : accepted[i].id = r.id => accepted[i] = r

Offer ==
    /\ Len(accepted) < MaxEnqueues
    /\ \E r \in RunResult : SameRunSameId(r) /\ Enqueue(r)

WorkerStep == Take \/ AnalyseOK \/ AnalyseRejected \/ Finish

Next == Offer \/ WorkerStep \/ Restart

Spec == Init /\ [][Next]_vars

\* The worker goroutine runs, and an LLM call ends: its HTTP client gives up
\* after 60 seconds.
FairSpec == Spec /\ WF_vars(WorkerStep)

-----------------------------------------------------------------------------

TypeOK ==
    /\ queue \in Seq(RunResult) /\ Len(queue) <= QueueCap
    /\ job \in RunOrNone
    /\ candidate \in 1..(Count(job) + 1)
    /\ analyses \subseteq Tickers
    /\ byRun \in [RunIds -> [status : {"done", "absent"}, tickers : SUBSET Tickers]]
    /\ byTicker \in [Tickers -> RunIds \cup {NoAnalysis}]
    /\ accepted \in Seq(RunResult)
    /\ finished \in Seq(RunResult)
    /\ epoch \in BOOLEAN

Current == IF job = NoRun THEN <<>> ELSE <<job>>

\* A run that was accepted is finished, in progress or waiting, in the order
\* of acceptance and never twice: rejected analyses do not lose the run, and a
\* full queue sheds the newcomer only.
NoRunLost == accepted = finished \o Current \o queue

Stocks(r) == {r.stocks[i] : i \in DOMAIN r.stocks}

\* The current run is past t.
Passed(t) == \E i \in 1..(candidate - 1) : job.stocks[i] = t

\* How far in accepted the worker is with t: past the runs it is done with and,
\* once it is past this ticker, the current one.
Reached(t) == Len(finished) + IF Passed(t) THEN 1 ELSE 0

\* The places of the runs that rank t and that the worker has come to.
Ranks(t) == {i \in 1..Reached(t) : t \in Stocks(accepted[i])}

\* t has an analysis from the run in place n, which was not rejected.
Kept(t, n) == t \in IF Passed(t) THEN analyses ELSE byRun[accepted[n].id].tickers

\* A ticker's analysis follows the queue: once the worker has come to a run that
\* ranks it and its analysis was not rejected, that run's is the one shown, and
\* no run accepted earlier replaces it.  After a rejection some earlier run's,
\* or none, stays.
TickerFollowsQueue ==
    \A t \in Tickers :
        LET shown(places) == {accepted[i].id : i \in places} \cup {NoAnalysis}
        IN  /\ byTicker[t] \in shown(Ranks(t))
            /\ \A n \in Ranks(t) : (\A i \in Ranks(t) : i <= n) =>
                  IF Kept(t, n) THEN byTicker[t] = accepted[n].id
                                ELSE byTicker[t] \in shown(Ranks(t) \ {n})

\* With or without an LLM, an analysis a reader can fetch, by ticker or by
\* run, is about a stock that the run it names did rank.
AnalysisMatchesRun ==
    /\ \A t \in Tickers : byTicker[t] # NoAnalysis =>
          \E i \in DOMAIN accepted :
              accepted[i].id = byTicker[t] /\ t \in Stocks(accepted[i])
    /\ \A i \in DOMAIN finished : byRun[finished[i].id].tickers \subseteq Stocks(finished[i])

Waiting(id) == \E i \in DOMAIN queue : queue[i].id = id

\* Every accepted run gets its analyses, unless the process ends first.
AcceptedIsAnalysed ==
    \A id \in RunIds, e \in BOOLEAN :
        (Waiting(id) /\ epoch = e) ~> (byRun[id].status = "done" \/ epoch # e)
=============================================================================
