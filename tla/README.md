# Gem Hunter: TLA+ models, checks and proofs

Gem Hunter is one Go process that ranks Indonesian stocks four times a day,
keeps the rankings in SQLite, has a background worker comment on every ranked
stock, mails digests to subscribers and serves all of it over HTTP.  This
directory holds TLA+ models of the parts whose correctness depends on order,
failure or arithmetic boundaries, the TLC runs that check them on small
instances, and TLAPS proofs of the central properties for every instance.

Contents: [the system](#the-system), [the models](#the-models),
[the runs](#the-runs), [bounds](#bounds), [fairness](#fairness),
[the proofs](#the-proofs), [disagreements](#disagreements-with-the-documents),
[what is left out](#what-is-not-modelled), [the plan](#the-plan).

How to run: `tlc -config RankingStore.cfg MCRankingStore.tla` for a run,
`tlapm RankingStoreProofs.tla` for the proofs of a module.  Line numbers below
are those of the repository.

## The system

    schedule 00/06/12/18 WIB            HTTP requests
            |                                |
       refreshLive ---> liveSnaps        GET: mustLatest   POST /admin/ranking/run
            |               |                |                     |
       Sectors API      run(): clock, Rank, Save, Enqueue, go DispatchScheduledDigest
       sectors_cache            |       |        |              |
                        service.Rank  Store   ai.Worker     notifier.Mailer
                                        |        |              |
                                     SQLite   ai.Agent      SMTP, email_logs

| component | state it keeps | operations | what makes it correct |
|---|---|---|---|
| Ranking store (`internal/repository/store.go`) | tables `ranking_runs`, `ranking_results`; `latest`, `hist` in memory; one RWMutex | `Save`, `Latest`, `ListRuns`, `New` | readers see whole runs only, and only after their rows are on disk; the history is the newest runs in order; the mutex is always given back |
| Subscriptions and email log (same file) | tables `email_subscriptions`, `email_logs` | `SaveSubscription`, `ListSubscriptions`, `LogEmail` | one row per address; the log claims no more than was delivered |
| Mailer (`internal/notifier`) | none of its own | `DispatchScheduledDigest`, `SendTestEmail`, `SendRaw` | at most one digest per subscriber and cycle; one failing send stops nobody; whoever is due a digest gets one |
| AI worker (`internal/ai/worker.go`) | a channel of 10 runs | `Enqueue`, the loop | what was accepted is analysed, in order, once; ranking never waits for it |
| AI agent (`internal/ai/agent.go`) | `cache` (by run), `latestByTicker` | `ProcessRun`, `GetRunAnalyses`, `GetAnalysis` | an analysis is about a stock its run ranked; the newest is the one shown |
| Analyst, LLM client, guardrails (`analyst.go`, `llm.go`, `guardrails.go`) | none | `Analyze`, `Complete`, `ValidateAnalysis` | nothing unvalidated is returned; the LLM cannot change a score |
| Server (`cmd/server/main.go`) | `liveSnaps` | `refreshLive`, `run`, `mustLatest`, scheduler, handlers | effects follow the save; reads do not rank; every cycle returns; newer replaces older |
| Sectors client (`provider/sectors/sectors.go`) | none | `get` with retries, `FetchUniverse`, `FetchSnapshot` | every request ends; the universe respects its limit |
| Report mapping (same file) | none | `MapReport` | figures shown together are of one statement, one valuation, one earlier year, none from the future |
| Schedule and dashboard (`cmd/server/views.go`, the goroutine in `main.go`) | the slot slept to | `nextScheduleSlot`, the loop, `dashboardData`, `rankedRows` | each slot once, none slept through, every slot served; the page announces what comes |
| Sectors cache (`cache.go`) | table `sectors_cache` | `Get`, `IsFresh`, `Put`, `FetchSnapshotWithCache`, `FetchLiveUniverse` | a failing API loses no stock the cache knows |
| Ranking (`service/ranking.go`, `internal/scoring`) | none | `Rank`, percentile and weight formulas | the same data give the same ranking; better is never below worse; ties and gaps favour nobody |
| Gem Sentinel (`internal/gemsentinel`) | none | Springate score, watchlist | boundaries of zones; nobody in distress is hidden |
| Gem Guard (`internal/gemguard`, sample list in `main.go`) | none | `ComputeRiskScore`, who is at high risk | worse is never safer; page and digest agree |
| Configuration, domain types, web pages | none that changes | read once, rendered | - |

**How they interact.**  `run` is a closure called directly by `main` before it
listens, by the scheduler goroutine after each refresh, and by any handler
goroutine through `mustLatest` or `POST /admin/ranking/run`.  Nothing serialises
those calls; they meet in the store's mutex, in the AI worker's channel, and in
the RWMutex around `liveSnaps`.  The AI worker is one goroutine; digests are one
goroutine per cycle.

**What is hard here.**  Overlapping cycles (the clock is read long before the
save); a save that is not a transaction; state in memory that a restart loses
while the tables stay; a bounded queue that sheds; a guardrail rejection in the
middle of a run; an API that fails anywhere in a paged listing or between two
cache queries; an SMTP server that fails at any subscriber; a ranking computed
from Go maps and an unstable sort; a sleep computed from two readings of a
clock that goes on; years of three lists that do not match.  `PROJECT.json` lists these hazards at their
lines, each with the properties that watch it or the reason none does.

## The models

### RunData, RankingStore, RunFeed: the ranking store
`RunData` is the value everybody passes around, `service.RunResult`: its id, its
minute, the universe it was ranked from and its ranked tickers.  `Stale` is not
a field because no code assigns it.

`RankingStore` models `Save` one SQL statement at a time: `InsertRun`,
`InsertResult` (one per stock), `Publish` (memory, after the last statement),
with `RefuseRun` and `AbandonSave` for a failing statement and `Restart` for the
death of the process after any of them.  `holder` is the mutex: readers take it
too, so they are state functions (`HasLatest`, `ListRuns`) evaluated when it is
free.  Since the cache changes only in `Publish`, evaluating them while a Save
is under way shows what the next reader will get.

`RunFeed` is what a user of the store may rely on, with no mutex, no statements
and no cap: a run is shown once, whole, and after its archive is complete; the
archive only grows; a restart empties the feed and nothing else.
`ImplementsFeed` is the refinement.

### AIPipeline: worker and agent
`Accept`/`Drop` are the two branches of the `select` in `Enqueue`; `Take`,
`AnalyseOK`, `AnalyseRejected` and `Finish` are `ProcessRun`.  `AnalyseRejected`
needs an LLM: the deterministic texts hold nothing the guardrails look for, and
`Analyze` returns the guardrail's error rather than the analysis it had before
the LLM rewrote it.  `byTicker` is written per analysis, `byRun` at the end,
as in the code.

### RankingServer: the cycle and who starts it
Composes `RankingStore` and `AIPipeline` by INSTANCE over the actors (scheduler
and handlers).  Each actor runs the closure `run` step by step: read the clock,
rank, save, enqueue, dispatch.  `main` before `Listen` and the scheduler
goroutine after it are one actor, because the second starts where the first is
done.  `Refresh` gives a new universe, an empty one (the error of
`FetchLiveUniverse` is never set) or does nothing without live data.  Digests are
recorded as who caused them and with which universe: the arguments of the `go`
statement read `liveSnaps` a second time.  The wall clock is a variable that
steps forward; a restart may happen between any two steps.
`ImplementsStore` and `ImplementsPipeline` show that the two components are used
as their own specifications allow, so their theorems apply here.  `ExplainedBy`
is what `rankedRows` reads beside each row of a dashboard: the newest analysis of
the stock, of whichever run.

### Scheduler: slots, sleep, next update
`NextSlot` is `nextScheduleSlot` in units of a clock that ticks between any two
steps, so a slot may pass between the `time.Now()` that plans (`Plan`) and the
one inside `time.Until` (`Sleep`). A sleep counts down on its own, because
`time.Sleep` follows the monotonic clock: setting the wall clock back
(`SetClockBack`) does not lengthen it, and a jump ahead, by a correction or
because the machine was suspended (`SetClockAhead`), does not shorten it. A
cycle is reduced to its reading of the clock and its Save, of the scheduler
(`ReadClock`, `EndCycle`) or of a request (`BeginManual`, `EndManual`), in any
overlap. The page knows only the minute of the run it shows (`CalculatedAt`);
`NextUpdate` is computed from that.

### LiveUniverse: client, cache, refresh
`get` is one action per answer (`Again`, or the end of the request through
`Verdict`), so retries interleave with everything else.  `FetchUniverse` is
`PageArrives` and `ListingFails`; `FetchSnapshotWithCache` is `CheckFresh`,
`ReadHit`, `AskFails`, `AskSucceeds` and `FallBack`, for the refresher and for
`GET /stocks/:ticker` handlers over one cache.  A page is a number of rows, of
which those without a symbol are dropped; the offset counts rows.  A 4xx with a JSON body counts as
returned, because `get` hands it on and `FetchSnapshot` decodes it.  A snapshot is
its ticker, empty for the blank one that decoding an error body gives; a cache
row is a snapshot and its hour; queries and writes may fail.

### MapReport: years
One action per row of the three lists, in the code's order, the EPS in any order
(Go's map); then the choices in one step (`Choose`).  A figure is a number that
tells which row it comes from, so the properties can say that two figures are of
one row.  They are stated over the report (`LastRows`), not over the merged map.

### DigestMailer, GemGuard: subscriptions, digests, log, warnings
A digest is the set of its non-empty sections; the Gem Guard section is computed
by `GemGuard`: `ComputeRiskScore` in hundredths, the sample list, and the two
conditions for high risk, of the page and of the digest.  `ListSubscriptions` may return
any part of the table (the code does not ask for `rows.Err`), then each
subscriber is skipped or written to; `SendRaw` is the set of outcomes of an SMTP
conversation, among them the message accepted whose confirmation is lost;
`LogEmail` may fail.  `Crash` stops all senders.  The template cannot render the
Sentinel section (it names `.Springate.Zone`, which does not exist), so a
subscriber due that section is skipped.

### Ranking: Rank and package scoring
`Rank` loop by loop: `Dedup` by ticker and publication time (`Seen` is one round
of the loop), `Filter` in any order of the map, `ScoreAndSort` into any order the
comparison leaves open (`Sortings`), cut to `TopN`.  Formulas are exact fractions;
the percentile score is an integer on a scale where 100 is `Unit`.  The
specification side (`Kept`, `Dominates`) is written without the loops.

### GemSentinel: the watchlist
Operators over the same snapshots as `Ranking`, which it extends: the first loop
again (`Newest`), the Springate score in ten-thousandths, zone, primary
vulnerability, the filter loop and the cut (`ScoredBelow`, `TopOfList`), and
`Watchlists`, the set of all results that the map's order and the unstable sort
leave open.  The properties quantify over that set: it has one element, and
that list is the worst first, has healthy stocks only when nobody is in distress
(`Zone` other than HEALTHY, the score of 0.862 among the healthy), and leaves out
only whom worse ones displace.

### Analyst: one stock's analysis
`Draft` is the deterministic part of `Analyze`; `CompletionFails`,
`CompletionArrives`, `DecodingFails` and `Enrich` are the model's part, `Return`
and `Reject` the guardrails.  A text is its author, the terms in it and the scores
it quotes in the form the guardrails look for; a field is a set of texts.
`AIPipeline` uses the two ends: `AnalyseOK` is `Return`, `AnalyseRejected` is
`Reject`, and `RejectionIsTheModelsFault` is why the latter needs an LLM there.

### Proof and MC modules
Every module `XProofs` extends its module `X` with the inductive invariant and
the proofs; the theorems about `GemGuard` are at the end of `DigestMailerProofs`.
`CycleProofs` extends two specifications, `GemSentinel` (which extends `Ranking`)
and `Scheduler`: what a cycle computes and when cycles run.  That is why the
scheduler's specification is called `SchedulerSpec`, its type invariant
`SchedulerTypeOK` and its program counter `stage`.
Every `MC*` module only gives constants their values.  Operators marked *Mutant*
in a comment are plausible mistakes in the definition below them; no
specification uses them.  Each property of a run has one that it detects, named
in `PROJECT.json`.

Each module with state has a type invariant `TypeOK`, proved for every instance.
Runs repeat it only where it says more than types: in `ai` the capacity of the
queue, in `ranking` that the loops keep one snapshot of each ticker.

## The runs

| run | what is asked | result |
|---|---|---|
| `store` | Can a reader ever be shown a run whose rows are not all on disk, or a history that is not the newest runs in order?  Does the store implement `RunFeed`?  Is the mutex always given back? | no; yes; yes |
| `ai` | With an LLM that may trip a guardrail: is any accepted run lost, reordered or analysed about stocks it did not rank?  Can a run accepted earlier take a ticker back from a later one?  Is each accepted run analysed in the end? | no; no; yes |
| `server_safety` | Overlapping cycles, requests and restarts: do the AI worker and the digests only get runs that were saved or whose save failed?  Does a read rank only after a failed first save?  Is a dashboard's row never explained by a run older, for the AI worker, than the one shown, once that one's analysis is in?  Are store and pipeline used as specified? | yes |
| `server_liveness` | Does every request and every cycle return, whatever the AI worker does? | yes |
| `server_latest` | Can an older calculation replace a newer one as the latest? | yes: (1) |
| `universe` | Can a refresh lose a listed stock the cache knew, or exceed the limit?  Does it end? | no, save the two excuses the property names; yes |
| `mail` | Duplicate digests, false SUCCESS rows, a failing send that stops others, a warning that is not sent? | none |
| `mail_sentinel` | Does everybody who is due a digest get written to? | no: (2) |
| `analyst` | With a model that fails or writes anything: is every text that is returned checked, every field filled, the label true?  Is a stock without an analysis always the model's doing? | yes |
| `ranking` | Are ranking and watchlist functions of the data; does better rank higher; do raw scores average 50 whatever is tied or missing; does the watchlist show the worst, and healthy stocks only when nobody is in distress? | yes |
| `scheduler` | Is a slot run twice, or slept through although the clock does not jump over it?  Does the page announce an update that is not coming?  Does every slot get a cycle in the end? | no; no; yes |
| `report` | Can the mapping mix two statements, two valuations or two earlier years, or use a year that is not over? | no, for stocks that can be ranked |

Symmetry is used where no liveness is checked: over handlers in `server_safety`,
over addresses in the `mail` runs.  `server_liveness` has one handler and no live
data.  `ranking`, `report` and `analyst` switch deadlock checking off
because `Rank`, `MapReport` and `Analyze` return.

## Bounds

* *Store*: two callers, four runs, a cap of two.  Two callers are enough for one
  to wait; three published runs pass the cap, the fourth is there to crash on.
  Rankings of two, one and no stocks cover the loop's body, its last round and
  its absence.
* *Pipeline*: two run ids over rankings that share a ticker, a queue of two,
  four acceptances between restarts, so the queue fills, sheds, and the same run
  comes back.  `MaxEnqueues` bounds `accepted`; it is a guard of `Offer` only.
* *Server*: the scheduler and two handlers, three starts (`MaxCycles`: the first
  cycle, slots, requests and restarts share it), two minutes, one live universe
  beside the mock one, one ticker, a queue of one.  Three is the least at which
  two cycles overlap after the first; the disagreement (1) needs no more.
  `Rest` stands for the server waiting when the bound is used up.
* *LiveUniverse*: two symbols, a limit of two, up to three screener rows in
  pages of up to two, so that pages repeat symbols, hold blank ones and pass the
  limit; two attempts per request (the code has three), so both the retry and the
  last failure happen; a TTL of one hour and one tick, so that rows expire during
  a refresh; one reader, any number of restarts.  `MaxRows` also makes the
  screener's result finite, which `RefreshEnds` needs: the paging loop of
  `FetchUniverse` has no bound of its own against rows without a symbol.
* *Scheduler*: a quarter of two minutes of two units, so that a minute begins
  before, at and after a slot; a clock of a little more than a day, so that
  midnight is passed; one correction of the clock back, by one unit, and any
  number of jumps ahead, by any number of units that let the sleep under way end
  before the clock does; one request at a time.  `SlotsAreServed` excuses what the
  end of the clock cuts off.  `NoSlotIsSleptThrough` promises nothing after the
  clock was set back since the plan, and after a jump ahead only that the sleep
  does not end early.
* *MapReport*: three years, so that one can lie between two others; up to two
  statements and two valuations, so that they can be of one year, of two, and in
  either order; seven histories of EPS, some with gaps; revenue, equity (with
  total assets), PE and PB given or missing, shares given or zero.
* *DigestMailer*: two addresses, two sections (Gem Guard's, which every digest
  has, and one that may be there), one digest and one test email
  beside any number of changes of preferences.  A second digest shares no row
  with the first that either reads.
* *Ranking*: every list of three snapshots over six profiles, three tickers and
  two publication dates, and the blank snapshot of an error body; top two, also
  of the watchlist.  The profiles' Springate scores include both cutoffs exactly,
  a negative one, and a stock without statement figures.
* *Analyst*: sixteen stocks on either side of the thresholds; every reply whose
  three single texts and two lists are made of no text, a true quotation (with a
  term that only the prompt forbids), a forbidden term and a wrong quotation.

## Fairness

* *Store*: `WF` on the steps of a Save that has begun: SQLite answers each
  statement, with success or an error.  Nothing obliges anyone to begin.
* *Pipeline*: `WF` on the worker's steps: it is a goroutine of its own and an
  LLM call is ended by its client's timeout of 60 s (`llm.go:55`).  A restart
  excuses the worker, so `AcceptedIsAnalysed` speaks of one epoch at a time.
* *Server*: `WF` on refreshes, cycles and handlers; `SF` on taking the mutex,
  because `sync.RWMutex` does not let a waiter starve.  Deliberately none on the
  AI worker, on the clock and on arrivals: cycles must return without them.
* *LiveUniverse*: `WF` on a refresh under way: the HTTP client gives up after
  15 s (`sectors.go:83`).  None on beginning one, and none on readers.
* *Scheduler*: `WF` on the clock and on the loop as a whole: cycles return
  (`CyclesReturn`).  None on requests.
* *DigestMailer*: none, and no liveness property: only the dial has a deadline
  (`notifier.go:123`), so an SMTP server that stops talking holds the goroutine.

## The proofs

Proved with TLAPS for any values of the constants that satisfy the modules'
named assumptions:

* `RunDataAssumption`: ids are positive numbers, rankings are sequences of
  distinct tickers.
* `StoreAssumption`: the mutex's null value is no caller, the cap is positive.
* `PipelineAssumption`: the queue's capacity is positive.
* `ServerAssumption`: finitely many handlers, none of them the scheduler; one id
  per start that the bound allows; the two above for its store and worker.
* `SchedulerAssumption`: a quarter is a whole number of minutes.
* `LiveUniverseAssumption`: limit, attempts and page size are positive; the
  null values are none of the values.
* `MapReportAssumption`: reports are lists of rows of years and figures.
* `DigestMailerAssumption`: Gem Guard and Sentinel are two sections; digests are
  no test emails.
* `RankingAssumption`: finitely many tickers, ordered as numbers; a missing figure
  is no number; every universe is a list of snapshots, of any length and with any
  figures in them; a `Unit` that an average of ranks divides, so that percentile
  scores are exact.
* `SentinelAssumption`: the list has at least one place.
* `AnalystAssumption`: model texts are marked as such, scores and quoted numbers
  are integers.

| theorem | says |
|---|---|
| `StoreTyped`, `PipelineTyped`, `ServerTyped`, `SchedulerTyped`, `UniverseTyped`, `MapReportTyped`, `MailerTyped`, `AnalystTyped` | `Spec => []TypeOK` of each module: the queue's capacity, sleeps that are not negative, a confidence between 70 and 85 are part of it |
| `StoreVisibleIsDurable` | whatever a reader can be shown has all its rows in SQLite |
| `StoreHistoryIsNewestRuns` | `ListRuns` is the newest published runs, newest first, whatever the cap |
| `StoreImplementsFeed` | `Spec => Feed!Spec`, the refinement of `RunFeed` |
| `PipelineLosesNoRun` | accepted = finished, then current, then waiting, in order |
| `PipelineAnalysisMatchesRun` | an analysis is about a stock that the run it names ranked |
| `PipelineShowsNothingOlder` | where a filed run analysed a stock, readers are shown that analysis or one by a run accepted after it |
| `PipelineTickerFollowsQueue` | the analysis shown for a stock is of the last accepted run that got that far and kept one |
| `ServerImplementsStore`, `ServerImplementsPipeline` | any number of overlapping cycles use store and worker as their specifications allow |
| `ServerVisibleIsDurable` | so the store's durability holds of the server |
| `ServerImplementsFeed`, `ServerShowsNewestRuns` | readers of the whole server have a `RunFeed` before them, and its history is the newest runs |
| `ServerWorkerKeepsOrder` | the worker's three invariants hold of the server |
| `ServerExplainsKnownRuns` | the analysis a stock is shown with names a run that was shown and ranked it, or whose save failed |
| `ServerEffectsFollowSave` | what was enqueued or mailed was shown first, or its save failed |
| `ServerRowsAreNotExplainedByOlderRuns` | no row of a dashboard is explained by a run that went to the AI worker before the one shown |
| `ServerReadsRankOnlyAfterFailedBoot` | a read ranks only if the cycle before listening could not be saved |
| `RankingTypeCorrect` | `Rank`'s loops keep one snapshot of each ticker; the result is within the cut and of the stocks the filter left |
| `RankingIsTheSame` | for any number of stocks `Rank` has one result: each stock kept is where the number of better ones puts it |
| `BetterIsRankedHigher` | a stock no worse in any factor and better in one is above the other |
| `ScoresAlwaysAverage` | the raw scores (what `GLScore` returns) of any number of stocks average 50, whatever is tied or missing |
| `WatchlistIsTheSame` | the Gem Sentinel list is one list, for any order of the map and of the sort |
| `TheDistressedAreShown` | the list is the worst first, has a healthy stock only when nobody is in distress, and leaves out only whom worse ones displace, or the healthy |
| `SchedulerSleepsThroughNoSlot` | asleep, the scheduler passes no slot the clock does not jump over, for any length of a slot |
| `SchedulerRunsSlotsOnce` | each plan is for a later slot, unless the clock was set back |
| `SchedulerAnnouncesItsSlot` | the page's next update is the slot slept to, or past |
| `UniverseStaysWithinLimit` | no refresh serves or asks about more stocks than the limit |
| `UniverseKeepsCachedStocks` | a refresh loses no listed stock the cache knew, the named excuses aside |
| `MapReportUsesOneStatement`, `MapReportUsesOneValuation`, `MapReportGrowsAgainstOneYear`, `MapReportUsesNoForwardYears` | the four properties of the run `report`, for lists of any length |
| `MailerSendsOneDigest`, `MailerLogsDeliveries`, `MailerGoesOn`, `MailerWarns` | the four properties of the run `mail`, for any addresses and any number of digests at once |
| `WorseIsNeverSafer` | `ComputeRiskScore` is monotone in every indicator |
| `PageAndDigestAgree` | page and digest pick the same stocks |
| `HighRiskNeedsThreeAlarms` | no two indicators alone make a stock high-risk |
| `AnalystReturnsGuarded` | whatever a model writes, every text of a returned analysis passed the checks |
| `AnalystLabelsItsSource` | model text is labelled; flags, confidence and reason are the engine's |
| `AnalystRejectsTheModelOnly` | only model text can cost a stock its analysis |
| `AnalystLeavesNothingOut` | every field of a returned analysis is filled |

*The store.*  Visibility alone is not inductive: `Publish`
shows `saving`, about whose rows it says nothing.  `SavingWritten` adds that the
holder has inserted the run's row and the first `written` results, and that
nobody has been shown the run yet; `PublishedPersisted` extends durability from
what the cap still holds to everything published; `CacheIsPublished` says that
`hist` is `LastN(published, HistCap)` and `latest` its last element.  The lemma
`LastNAppend` (capping after each append equals capping once) carries the third
part over `Publish`.  The tables shrink nowhere: an id is inserted once
(`Fresh`), so `INSERT OR REPLACE` replaces nothing; that is also what makes the
step simulate `RunFeed!Archive`.

*The pipeline.*  `NoRunLost` is nearly inductive; it needs
associativity of concatenation (`HeadConcatTail`, `ConcatThree`).
`AnalysisMatchesRun` needs that the analyses collected so far are of the current
run's stocks (`AnalysesOfJob`) and that one id names one accepted run
(`SameIds`), for the same run may be accepted again; `WhereAccepted` places the
current run inside `accepted`.  For `TickerFollowsQueue` the invariant follows
each ticker by itself (`Following`): only the step that passes a ticker moves the
end of its places in `accepted` (`StepPast`), and every other step leaves them
(`OthersFollow`).

*The server.*  The hard part is that ids drawn by overlapping cycles stay
different wherever their runs are.  `Shapes` ties each actor's place to what it
holds and to the mutex; `Bounded` counts that every start pays for one id and
two offers, which is what bounds the pipeline's `MaxEnqueues`; `OneRunPerId` says
that runs held, shown or accepted are told apart by their ids and `Unsaved` that
whoever is about to save holds a run nobody else holds: these two give the
guards of `Store!BeginSave` and `AI!Offer`.  `Handed` and `Booted` follow what
was handed on and how the server came to listen.  With the refinements proved,
nothing of the two components is proved again: `RankingStoreProofs` and
`AIPipelineProofs` are instantiated (`SP`, `AP`) and their theorems carried over
(`StoreHere`, `PipelineHere`), the feed's refinement among them, so that the
refinements compose: server, store, `RunFeed`.

*What a dashboard pairs.*  The rows of a run and the analyses beside them are
read at different times from two maps, so the invariant relates the maps.
`FiledNotOlder`: a run filed with a stock's analysis is not behind, in the order
of acceptance, the run whose text the stock now shows; `FreshAnalyses`: what the
worker has written for the run it holds is still what is shown.  Both together
are inductive, because the worker overtakes nobody (`WhereAccepted`).  The
server's theorem is the worker's, carried over by `ServerImplementsPipeline`, and
`OneRunPerId`, by which the run shown and the run accepted under its id are one.

*The ranking.*  `RankingInv` says what the loops hold: the first loop, after n
snapshots, the winners among those n (`Wins`, the first of the newest of each
ticker); the second, the winners still to visit, with the eligible ones of them
and of those visited making up `Kept` in whatever order it goes; the end, a
beginning of some order `sort.Slice` may leave.  The rest is about operators.
`SortingsAreOne`: a strict total order leaves one sorting, in which the element
at place n has n - 1 before it (`SortedPlaces`).  `BeforeIsOrder`: the comparison
is one, because a lexicographic comparison of fractions is transitive and the
ticker, unique after the first loop, decides last.  The percentile of a stock is
a fraction of its points, twice those below it plus those equal to it:
`PointsGrow` and `PercentileFollows` make it monotone in the factor, hence
`DominatorScoresHigher`; and the points of n stocks sum to n * n, since of two
stocks one is below the other or they are equal, hence `PercentilesAverage`,
whatever the ties, and so the sum of the scores.

*Sums and induction.*  The property speaks of `MapThenSumSet`, a fold that no
prover here can be told about by induction.  `Additive` says which functions on
subsets of a finite set are a sum, `OneSum` that there is one, and
`SumOfScores` that the fold is it.  Induction is stated as a fact about a
set, of numbers (`Induction`, from `Least`) or of subsets (`SetInduction`): a
predicate is the set of what satisfies it, so no operator is a parameter.

*The watchlist.*  The same two lemmas make `Sorted` one list; the loop of the
distress filter takes a beginning of it (`FilterTakesPrefix`), because the list
is in the order of the scores it filters by, and so does the cut
(`CutTakesPrefix`): everyone left out comes after everyone shown.  The distressed
are a beginning of it too, and the cut keeps within them when there are any, which
is why nobody healthy is beside them.

*The schedule.*  `NextSlotIsNext`: the loop finds the least slot after now, also
across midnight.  `PlanIsLeast` remembers that while the clock goes on,
`SleepMeetsSlot` that what is left of the sleep and the clock move together, or
that a jump ahead has taken the clock past where the sleep would end, and
`CycleIsDue` that a cycle is for a slot that has begun; from the last, the next
plan is later.

*The universe.*  `Room` counts what is listed, collected and being looked up
against the limit.  `ExpectedAreKept` says where each stock the cache knew is
at every stage: among the symbols, under way, or collected; `ExpectedAreCached`
that nobody's write meanwhile replaced its row by a blank one.

*The mapping.*  `Merged` is the invariant of a merging loop: after n rows each
year of the map has the figures of the last of those rows, or of none
(`MergeNext`); merging one list leaves the others' figures (`MergeOther`).  The
properties, which speak of the report, then follow from the choices.

*The mailer.*  `Once` says that a message to an address excludes it from what is
still to do, which needs that no listing has two rows of one address (`Lone`,
preserved by the upsert); `Covered` that the log lags behind the inboxes;
`Reached` that whoever is due mail is still to do or was written to.

*The analyst.*  `Sourced` ties the analysis to the draft until
`Enrich` and says afterwards which of its texts can be the model's; `Checked`
remembers the verdict in the final states.  The draft's fields are never empty
(`DraftedLists`), merging keeps that (`RewrittenText`), and text that is not the
model's is valid for every stock (`OwnTextIsValid`), which leaves the model as
the only cause of a rejection.  The confidence needs the cardinality of at most
three flags (`FewFlags`).

*Only model-checked*: all liveness (`LockReleased`, `AcceptedIsAnalysed`,
`CyclesReturn`, `RefreshEnds`, `SlotsAreServed`), which is out of TLAPS's reach.
Every invariant and every action property of the passing runs is a theorem.

## Disagreements with the documents

Each is a run that TLC ends with a counterexample.

1. `server_latest`: overlapping cycles read the clock before they meet in the
   mutex, so the older can be saved last and become the latest
   (README.md:266-267).
2. `mail_sentinel`: the template names a field that does not exist; whoever is
   due a Sentinel section gets no mail and the log has no row (README.md:41).

Observed while reading, without a run of their own:

* README.md:165 says stale data is explicitly marked; after a failed request an
  expired row is served unmarked (`cache.go:211`): the flag that
  `FetchSnapshotWithCache` returns is dropped and `RunResult.Stale` never assigned.
* `methodology.html:117-122` gives the final score as
  `min(100, GLScore_raw * |V| / mean V)` with V = [83.35, 86.55, 84.79], about 1.73
  times the raw score, and reads the labels off that.  No code computes it:
  `scoring.GLScore` is the page's `GLScore_raw`, and ranking, labels and pages use
  it as it is, as README.md:86 and the table after it say.  Scaled scores would not
  average 50; `RawScoresAverageToTheMiddle` speaks of the raw ones, which do.
* `methodology.html:98` defines the percentile as (rank - 0.5) / N; `scoring.go:78`
  computes (rank - 1) / (N - 1), so the best has 100 and the worst 0, and a single
  stock 50.  Both average 50.
* The comment at `ranking.go:134` says weights are renormalised when PB or ROE is
  missing; a missing one counts as 50 with its full weight, as README.md:89 says.
* `docs/implementation-plan.md:24` takes the previous EPS from year N-1 and line 28
  revenue "Y vs Y-1"; the code takes the newest earlier year with an EPS, and of
  the plan's sources `pe_ttm`, `roe_ttm` and `der_mrq` are not used by the mapping.
* A newest statement without equity or shares gives no BVPS, which makes the stock
  ineligible, although older years have both.  Without any stated year the newest
  year of all, a forward one too, gives the EPS; such a stock is not ranked.
* `RANKING_INTERVAL_HOURS` (README.md:306) changes nothing: slots are fixed, and
  the page does not show `DashboardData.Interval`.
* The page shows the next update without its date, so one that is past
  (`NoOtherUpdateIsAnnounced` allows it) reads as if it were to come.
* The Gem Guard list is a constant sample, so every digest warns of the same
  stock, PUMP; its `ARAThreshold` of 35 is not what `ARABoundary` gives at its
  price of 450 (25).  `UMASuspected` may be true at risk level LOW.
* `Save` writes the row with status SUCCESS first and in no transaction, so a
  failing INSERT or a crash leaves a SUCCESS row without its results; no reader
  sees it (`VisibleIsDurable`).
* A run whose analyses were rejected reads "done" with stocks missing;
  `ai/types.go:96` has "partial" for that.
* `POST /admin/ai/run` can enqueue an older run after a newer one, whose analyses
  it then overwrites: `TickerFollowsQueue` follows the queue, not the clock.
* `FetchUniverse` never returns an error, so the fallback to `GetAllFresh`
  (`cache.go:231-238`) is unreachable: a failed first page replaces the universe
  by an empty one, and the mock stocks are ranked.
* A 400 or 410 with a JSON body decodes to a blank snapshot that replaces the
  cached one for a whole TTL.
* The cycle at start-up, `POST /admin/ranking/run` and a read that finds no run
  all send digests (`Trigger` in `RankingServer`); `notifier.go:195` promises the
  slots.
* The guardrails look for scores written `gl_score = 95` or with a colon, but the
  prompt gives them as `GLScore: 95`, and they do not look for "buy
  recommendation", which `prompts.go:9` forbids; README.md:164 says altered
  scores and direct buy language are rejected.
* `DetectAnomalies` flags EPS growth above 150 % and PE above 30; its comment
  (`tools.go:94-97`) says 100 % and 35.
* `EmailAlertsEnabled` (README.md:314) is never read: digests go out anyway.
* The digest shows five stocks where README.md:41 says Top 10; the confidence
  comment at `analyst.go:100` says 70 to 95 where the code gives 70 to 85;
  `GetTop5SpringateDistress` falls back to healthy stocks where its comment
  (`ranking.go:183-185`) says stocks in distress; an LLM summary replaces the
  stale-data prefix.

## What is not modelled

* *AI tools, screener, risk engine*: the screener's result is discarded; of the
  others only `DetectAnomalies` has a caller (`RiskFlags` in `Analyst`).
* *Wording*: texts of analyses, mails and the Sentinel summary; the stale branch
  of `Analyze`, because nothing sets `Stale`.
* *Gem Guard's metrics* (velocity, RSI, volatility, `ARABoundary`): no caller
  outside the package's tests, for the indicators are constants.
* *Copied fields of MapReport*, and a key of HistEPS that is no number (it
  counts as year 0): the API's keys are years.
* *`RankingServer` beside `Scheduler`*: the first wakes the scheduler at arbitrary
  times, which covers every schedule.
* *Read-only handlers, request parsing, web pages, configuration, mock universe*:
  they keep no state.  `GetSubscription` and `PutBatch` have no caller, the
  `GetAllFresh` branch is unreachable, `Worker.Stop` never runs.
* *Redis, Litestream, Docker, docs, graphify-out, teaser_build.py*: deployment,
  documents and generated data; no code of the server uses Redis or Litestream.
* Floating-point rounding in `Ranking` and `GemSentinel`, and the 1e-9 tolerance of equality.

## The plan

Done, in this order: store and feed; pipeline; server; store and pipeline
proofs; live universe; mailer; ranking; watchlist; analyst and its proofs;
schedule, report mapping, Gem Guard, each with its proofs; the proofs of server,
universe and mailer; `TickerFollowsQueue`; what dashboards pair; ranking and
watchlist for any number of stocks.

Next, to prove:

1. That an `Analyst` step implements `AnalyseOK` or `AnalyseRejected`.
2. That `MapReport` gives `Rank` what `RankingAssumption` asks of a snapshot.
3. That the worker offers the agent's readers an abstract service, as the store
   does with `RunFeed`.

Next, to model: `LiveUniverse` and `RankingServer` in one specification, so that
a digest's Sentinel list and its ranking can be traced to one refresh; now
`RankingServer` takes a refresh as one step.
