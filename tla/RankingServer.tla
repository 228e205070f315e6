--------------------------- MODULE RankingServer ---------------------------
(***************************************************************************)
(* cmd/server/main.go: the ranking cycle (the closure run) and everybody   *)
(* who starts one, over the store (RankingStore) and the AI worker         *)
(* (AIPipeline).                                                           *)
(*                                                                         *)
(*   - main runs one cycle before it listens, then the scheduler goroutine *)
(*     runs one at every slot, after a refresh of the live universe.  The  *)
(*     two never overlap: they are the one actor Scheduler.                *)
(*   - Every HTTP request is a goroutine.  A GET returns the latest run,   *)
(*     or runs a cycle when there is none (mustLatest);                    *)
(*     POST /admin/ranking/run always runs one; POST /admin/ai/run gives   *)
(*     the latest run to the AI worker once more.                          *)
(*                                                                         *)
(* Nothing serialises cycles: they meet in the store's mutex only.  The    *)
(* process may be killed and started again at any step.                    *)
(***************************************************************************)
EXTENDS RunData, FiniteSets

CONSTANTS Scheduler,   \* main and, after it, its scheduler goroutine
          Handlers,    \* the goroutines of HTTP requests
          NoCaller, HistCap,      \* see RankingStore
          QueueCap, LLMEnabled,   \* see AIPipeline
          LiveEnabled, \* LIVE_SECTORS_ENABLED with a key: refreshLive fetches
          MaxCycles    \* bound: starts of the scheduler's cycle and requests

Actors == {Scheduler} \cup Handlers

ASSUME ServerAssumption ==
    /\ Scheduler \notin Handlers
    /\ IsFiniteSet(Handlers)
    /\ NoCaller \notin Actors
    /\ HistCap \in Nat \ {0}
    /\ QueueCap \in Nat \ {0}
    /\ LLMEnabled \in BOOLEAN
    /\ LiveEnabled \in BOOLEAN
    /\ MaxCycles \in Nat \ {0}
    /\ RunIds = 1..MaxCycles
    /\ 0 \in Gens
    /\ 0 \in Minutes

VARIABLES
    \* of RankingStore
    runRows, resultRows, holder, saving, written, latest, hist, published,
    \* of AIPipeline
    queue, job, candidate, analyses, byRun, byTicker, accepted, finished, epoch,
    \* of main.go
    pc,        \* where each actor is
    request,   \* what a handler was asked for
    nowAt,     \* nowWIB of each actor's cycle
    mine,      \* r of each actor's cycle
    universe,  \* liveSnaps: which universe, 0 when it is empty
    clock,     \* the wall clock, in minutes
    serving,   \* app.Listen was reached
    \* history
    drawn,     \* uuids drawn so far
    fetched,   \* universes handed out by the provider so far
    cycles,    \* counted against MaxCycles
    failed,    \* runs whose Save returned an error
    digests    \* digests dispatched: [run, gen, by]

storeVars == <<runRows, resultRows, holder, saving, written, latest, hist, published>>
aiVars    == <<queue, job, candidate, analyses, byRun, byTicker, accepted, finished, epoch>>
actorVars == <<pc, request, nowAt, mine>>
envVars   == <<universe, clock, fetched>>
history   == <<drawn, failed, digests>>
vars == <<storeVars, aiVars, actorVars, envVars, serving, history, cycles>>

Store == INSTANCE RankingStore WITH Callers <- Actors
AI == INSTANCE AIPipeline WITH MaxEnqueues <- 2 * MaxCycles

Requests == {"get", "rank", "ai"}

Init ==
    /\ Store!Init
    /\ AI!Init
    /\ pc = [a \in Actors |-> IF a = Scheduler THEN "refresh" ELSE "idle"]
    /\ request = [h \in Handlers |-> "none"]
    /\ nowAt = [a \in Actors |-> 0]
    /\ mine = [a \in Actors |-> NoRun]
    /\ universe = 0 /\ clock = 0 /\ fetched = 0
    /\ serving = FALSE
    /\ drawn = 0 /\ failed = {} /\ digests = {}
    /\ cycles = 1

Goto(a, label) == pc' = [pc EXCEPT ![a] = label]

-----------------------------------------------------------------------------

(***************************************************************************)
(* refreshLive                                                             *)
(***************************************************************************)

\* FetchLiveUniverse answers a new universe, or an empty one when the provider
\* failed: its error is never set, so liveSnaps is replaced either way.
Refresh ==
    /\ pc[Scheduler] = "refresh"
    /\ Goto(Scheduler, "now")
    /\ \/ /\ LiveEnabled
          /\ fetched + 1 \in Gens
          /\ fetched' = fetched + 1
          /\ universe' = fetched + 1
       \/ /\ LiveEnabled
          /\ universe' = 0
          /\ UNCHANGED fetched
       \/ /\ ~LiveEnabled
          /\ UNCHANGED <<universe, fetched>>
    /\ UNCHANGED <<storeVars, aiVars, request, nowAt, mine, clock, serving, history, cycles>>

(***************************************************************************)
(* run                                                                     *)
(***************************************************************************)

\* nowWIB := time.Now()
ReadClock(a) ==
    /\ pc[a] = "now"
    /\ Goto(a, "rank")
    /\ nowAt' = [nowAt EXCEPT ![a] = clock]
    /\ UNCHANGED <<storeVars, aiVars, request, mine, envVars, serving, history, cycles>>

\* Mutant of RankUniverse: the id is made from the minute, not drawn.
RankWithMinuteId(a) ==
    /\ pc[a] = "rank"
    /\ Goto(a, "save")
    /\ drawn' = drawn + 1
    /\ \E s \in Rankings :
          mine' = [mine EXCEPT ![a] =
                     [id |-> nowAt[a] + 1, at |-> nowAt[a], gen |-> universe, stocks |-> s]]
    /\ UNCHANGED <<storeVars, aiVars, request, nowAt, envVars, serving, failed, digests, cycles>>

\* currentSnaps, Rank and the fields set on its result.
RankUniverse(a) ==
    /\ pc[a] = "rank"
    /\ Goto(a, "save")
    /\ drawn' = drawn + 1
    /\ \E s \in Rankings :
          mine' = [mine EXCEPT ![a] =
                     [id |-> drawn + 1, at |-> nowAt[a], gen |-> universe, stocks |-> s]]
    /\ UNCHANGED <<storeVars, aiVars, request, nowAt, envVars, serving, failed, digests, cycles>>

\* store.Save up to its first statement; see RankingStore.
BeginSave(a) ==
    /\ pc[a] = "save"
    /\ Store!InsertRun(a, mine[a])
    /\ Goto(a, "saving")
    /\ UNCHANGED <<aiVars, request, nowAt, mine, envVars, serving, history, cycles>>

SaveResult(a) ==
    /\ Store!InsertResult(a)
    /\ UNCHANGED <<aiVars, actorVars, envVars, serving, history, cycles>>

SaveOK(a) ==
    /\ Store!Publish(a)
    /\ Goto(a, "enqueue")
    /\ UNCHANGED <<aiVars, request, nowAt, mine, envVars, serving, history, cycles>>

\* Save's error is logged; run goes on as if it had been saved.
SaveFails(a) ==
    /\ \/ pc[a] = "save" /\ Store!RefuseRun(a)
       \/ Store!AbandonSave(a)
    /\ failed' = failed \cup {mine[a].id}
    /\ Goto(a, "enqueue")
    /\ UNCHANGED <<aiVars, request, nowAt, mine, envVars, serving, drawn, digests, cycles>>

\* Mutant of OfferToAI: the run is enqueued first, and not saved any more.
OfferBeforeSave(a) ==
    /\ pc[a] \in {"save", "enqueue"}
    /\ AI!Enqueue(mine[a])
    /\ Goto(a, "dispatch")
    /\ UNCHANGED <<storeVars, request, nowAt, mine, envVars, serving, history, cycles>>

\* aiWorker.Enqueue(r)
OfferToAI(a) ==
    /\ pc[a] = "enqueue"
    /\ AI!Enqueue(mine[a])
    /\ Goto(a, "dispatch")
    /\ UNCHANGED <<storeVars, request, nowAt, mine, envVars, serving, history, cycles>>

Trigger(a) ==
    IF a = Scheduler THEN IF serving THEN "slot" ELSE "boot" ELSE request[a]

\* The arguments of the go statement, which read currentSnaps a second time,
\* and the return from run: the scheduler sleeps (the first time, after it has
\* let main listen), POST /admin/ai/run goes on, other handlers answer.
Dispatch(a) ==
    /\ pc[a] = "dispatch"
    /\ digests' = digests \cup {[run |-> mine[a].id, gen |-> universe, by |-> Trigger(a)]}
    /\ IF a = Scheduler
       THEN /\ Goto(a, "sleep")
            /\ serving' = TRUE
            /\ mine' = [mine EXCEPT ![a] = NoRun]
            /\ UNCHANGED request
       ELSE IF request[a] = "ai"
       THEN /\ Goto(a, "again")
            /\ UNCHANGED <<serving, mine, request>>
       ELSE /\ Goto(a, "idle")
            /\ mine' = [mine EXCEPT ![a] = NoRun]
            /\ request' = [request EXCEPT ![a] = "none"]
            /\ UNCHANGED serving
    /\ UNCHANGED <<storeVars, aiVars, nowAt, envVars, drawn, failed, cycles>>

(***************************************************************************)
(* HTTP handlers                                                           *)
(***************************************************************************)

\* Mutant of Receive: main listens before its first cycle.
ReceiveAnytime(h) ==
    /\ pc[h] = "idle"
    /\ cycles < MaxCycles
    /\ cycles' = cycles + 1
    /\ \E kind \in Requests :
          /\ request' = [request EXCEPT ![h] = kind]
          /\ Goto(h, IF kind = "rank" THEN "now" ELSE "check")
    /\ UNCHANGED <<storeVars, aiVars, nowAt, mine, envVars, serving, history>>

\* A request arrives.
Receive(h) ==
    /\ serving
    /\ pc[h] = "idle"
    /\ cycles < MaxCycles
    /\ cycles' = cycles + 1
    /\ \E kind \in Requests :
          /\ request' = [request EXCEPT ![h] = kind]
          /\ Goto(h, IF kind = "rank" THEN "now" ELSE "check")
    /\ UNCHANGED <<storeVars, aiVars, nowAt, mine, envVars, serving, history>>

\* mustLatest: Latest() waits for a Save that is going on.
CheckLatest(h) ==
    /\ pc[h] = "check"
    /\ holder = NoCaller
    /\ IF Store!HasLatest
       THEN IF request[h] = "ai"
            THEN /\ Goto(h, "again")
                 /\ mine' = [mine EXCEPT ![h] = latest]
                 /\ UNCHANGED request
            ELSE /\ Goto(h, "idle")
                 /\ request' = [request EXCEPT ![h] = "none"]
                 /\ UNCHANGED mine
       ELSE /\ Goto(h, "now")
            /\ UNCHANGED <<mine, request>>
    /\ UNCHANGED <<storeVars, aiVars, nowAt, envVars, serving, history, cycles>>

\* The Enqueue of POST /admin/ai/run.
OfferAgain(h) ==
    /\ pc[h] = "again"
    /\ AI!Enqueue(mine[h])
    /\ Goto(h, "idle")
    /\ mine' = [mine EXCEPT ![h] = NoRun]
    /\ request' = [request EXCEPT ![h] = "none"]
    /\ UNCHANGED <<storeVars, nowAt, envVars, serving, history, cycles>>

(***************************************************************************)
(* The scheduler's clock, the AI worker, and the process itself            *)
(***************************************************************************)

\* time.Sleep until the next slot ends; nextScheduleSlot says when.
Wake ==
    /\ pc[Scheduler] = "sleep"
    /\ cycles < MaxCycles
    /\ cycles' = cycles + 1
    /\ Goto(Scheduler, "refresh")
    /\ UNCHANGED <<storeVars, aiVars, request, nowAt, mine, envVars, serving, history>>

Tick ==
    /\ clock + 1 \in Minutes
    /\ clock' = clock + 1
    /\ UNCHANGED <<storeVars, aiVars, actorVars, universe, fetched, serving, history, cycles>>

Analyse ==
    /\ AI!WorkerStep
    /\ UNCHANGED <<storeVars, actorVars, envVars, serving, history, cycles>>

Restart ==
    /\ cycles < MaxCycles
    /\ cycles' = cycles + 1
    /\ Store!Restart
    /\ AI!Restart
    /\ pc' = [a \in Actors |-> IF a = Scheduler THEN "refresh" ELSE "idle"]
    /\ request' = [h \in Handlers |-> "none"]
    /\ nowAt' = [a \in Actors |-> 0]
    /\ mine' = [a \in Actors |-> NoRun]
    /\ universe' = 0
    /\ serving' = FALSE
    /\ failed' = {} /\ digests' = {}
    /\ UNCHANGED <<clock, fetched, drawn>>

\* The bound is used up and everybody is done: a server that waits.
Rest ==
    /\ cycles = MaxCycles
    /\ pc[Scheduler] = "sleep"
    /\ \A h \in Handlers : pc[h] = "idle"
    /\ queue = <<>> /\ job = NoRun
    /\ UNCHANGED vars

-----------------------------------------------------------------------------

CycleStep(a) ==
    \/ ReadClock(a) \/ RankUniverse(a)
    \/ BeginSave(a) \/ SaveResult(a) \/ SaveOK(a) \/ SaveFails(a)
    \/ OfferToAI(a) \/ Dispatch(a)

HandlerStep(h) == CheckLatest(h) \/ OfferAgain(h)

Next ==
    \/ Refresh
    \/ \E a \in Actors : CycleStep(a)
    \/ \E h \in Handlers : Receive(h) \/ HandlerStep(h)
    \/ Wake \/ Tick \/ Analyse \/ Restart \/ Rest

Spec == Init /\ [][Next]_vars

\* Goroutines run, SQLite and the provider's HTTP client answer or give up,
\* and sync.RWMutex hands the lock to whoever waits for it.  Nothing is assumed
\* of the AI worker, of the clock, or of requests and slots arriving.
FairSpec ==
    /\ Spec
    /\ WF_vars(Refresh)
    /\ \A a \in Actors : WF_vars(CycleStep(a)) /\ SF_vars(BeginSave(a))
    /\ \A h \in Handlers : WF_vars(HandlerStep(h)) /\ SF_vars(CheckLatest(h))

-----------------------------------------------------------------------------

InCycle == {"now", "rank", "save", "saving", "enqueue", "dispatch"}

TypeOK ==
    /\ Store!TypeOK
    /\ AI!TypeOK
    /\ pc \in [Actors -> InCycle \cup {"refresh", "sleep", "idle", "check", "again"}]
    /\ request \in [Handlers -> Requests \cup {"none"}]
    /\ nowAt \in [Actors -> Minutes]
    /\ mine \in [Actors -> RunOrNone]
    /\ universe \in Gens /\ fetched \in Gens /\ clock \in Minutes
    /\ serving \in BOOLEAN
    /\ drawn \in 0..MaxCycles /\ cycles \in 1..MaxCycles
    /\ failed \subseteq RunIds
    /\ digests \subseteq [run : RunIds, gen : Gens, by : Requests \cup {"boot", "slot"}]

\* However cycles overlap, fail and are cut short by a crash, they use the
\* store as RankingStore allows: every theorem about that module holds here.
ImplementsStore == Store!Spec

\* Cycles and POST /admin/ai/run together use the AI worker as AIPipeline
\* allows; in particular an id is never enqueued for two different runs.
ImplementsPipeline == AI!Spec

Listed(id) == \E i \in DOMAIN published : published[i].id = id

\* A run that the AI worker was given or a digest was sent for can be found in
\* the history of runs (or was, before the cap cut it off), unless its Save
\* returned an error: run saves first and hands on afterwards.
EffectsFollowSave ==
    /\ \A i \in DOMAIN accepted : Listed(accepted[i].id) \/ accepted[i].id \in failed
    /\ \A d \in digests : Listed(d.run) \/ d.run \in failed

\* A request that only reads (mustLatest) runs a ranking cycle in one case:
\* the cycle that precedes listening could not be saved.  Otherwise no GET
\* ranks, saves, enqueues or mails, however it overlaps with other requests.
ReadsRankOnlyAfterFailedBoot ==
    \A h \in Handlers :
        request[h] \in {"get", "ai"} /\ pc[h] \in InCycle =>
            \E d \in digests : d.by = "boot" /\ d.run \in failed

\* rankedRows: the run whose text a dashboard shows beside the row of t,
\* whichever run the dashboard is of.
ExplainedBy(t) == byTicker[t]

\* A dashboard pairs the stocks of the run it shows with the newest analyses,
\* read later and one by one.  Once the run's own analysis of a stock is in, no
\* dashboard of it explains the stock by a run that went to the AI worker
\* before it, although cycles save and enqueue in different orders.
RowsAreNotExplainedByOlderRuns ==
    \A k \in DOMAIN published :
        \A t \in byRun[published[k].id].tickers :
            \E i, j \in DOMAIN accepted :
                /\ i <= j
                /\ accepted[i] = published[k] /\ accepted[j].id = ExplainedBy(t)

\* Every request is answered and every cycle of the scheduler returns, even if
\* the AI worker never takes another step: Enqueue does not block.
CyclesReturn ==
    /\ \A h \in Handlers : pc[h] # "idle" ~> pc[h] = "idle"
    /\ pc[Scheduler] # "sleep" ~> pc[Scheduler] = "sleep"

\* The latest run is never replaced by one calculated earlier.
LatestNeverGoesBack == [][latest' = NoRun \/ latest'.at >= latest.at]_vars
=============================================================================
