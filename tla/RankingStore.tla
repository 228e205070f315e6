--------------------------- MODULE RankingStore ---------------------------
(***************************************************************************)
(* The ranking half of repository.Store: two SQLite tables and the cache   *)
(* in memory that every reader is served from.                             *)
(*                                                                         *)
(* Save holds mu from its first statement to its return, and its           *)
(* statements are autocommitted one by one: there is no transaction around *)
(* them.  Every statement is therefore a step of its own, after which the  *)
(* process may die, and any of them may fail.  Readers take mu too, so     *)
(* they never run between the steps of a Save.                             *)
(***************************************************************************)
EXTENDS RunData, FiniteSets

CONSTANTS Callers,    \* the goroutines that call Save
          NoCaller,   \* mu is free
          HistCap     \* how many runs hist keeps: 100 in the code

ASSUME StoreAssumption ==
    /\ NoCaller \notin Callers
    /\ HistCap \in Nat \ {0}

VARIABLES
    runRows,     \* ranking_runs: [id, count] of each row, status "SUCCESS"
    resultRows,  \* ranking_results: [run, ticker] of each row
    holder,      \* who holds mu for writing
    saving,      \* the run the holder is saving
    written,     \* how many of its result rows the holder has inserted
    latest,      \* Store.latest
    hist,        \* Store.hist
    published    \* history: every run shown to readers since the start

tables  == <<runRows, resultRows>>
cache   == <<latest, hist, published>>
session == <<holder, saving, written>>
vars    == <<tables, cache, session>>

-----------------------------------------------------------------------------

RunRow(r) == [id |-> r.id, count |-> Count(r)]

\* Mutant of LastN.
LastNOffByOne(s, n) == IF Len(s) > n THEN SubSeq(s, Len(s) - n, Len(s)) ELSE s

\* The last n elements of a sequence, or all of it when it is shorter.
LastN(s, n) == IF Len(s) > n THEN SubSeq(s, Len(s) - n + 1, Len(s)) ELSE s

Init ==
    /\ runRows = {} /\ resultRows = {}
    /\ holder = NoCaller /\ saving = NoRun /\ written = 0
    /\ latest = NoRun /\ hist = <<>> /\ published = <<>>

(***************************************************************************)
(* Save                                                                    *)
(***************************************************************************)

\* The deferred Unlock.
Release ==
    /\ holder' = NoCaller
    /\ saving' = NoRun
    /\ written' = 0

\* mu.Lock and the INSERT OR REPLACE into ranking_runs.  The id is a uuid
\* drawn for this run, so there is no row to replace.
InsertRun(c, r) ==
    /\ holder = NoCaller
    /\ holder' = c
    /\ saving' = r
    /\ written' = 0
    /\ runRows' = {row \in runRows : row.id # r.id} \cup {RunRow(r)}
    /\ UNCHANGED <<resultRows, cache>>

\* That INSERT failing: Save locks, returns the error and unlocks, having
\* changed nothing.  Only its caller notices.
RefuseRun(c) ==
    /\ holder = NoCaller
    /\ UNCHANGED vars

\* Mutant of InsertResult: the INSERT failed and the loop goes on.
InsertResultIgnoringErrors(c) ==
    /\ holder = c
    /\ written < Count(saving)
    /\ written' = written + 1
    /\ UNCHANGED <<tables, holder, saving, cache>>

\* One round of the loop over r.Stocks.
InsertResult(c) ==
    /\ holder = c
    /\ written < Count(saving)
    /\ written' = written + 1
    /\ resultRows' = resultRows \cup
                       {[run |-> saving.id, ticker |-> saving.stocks[written + 1]]}
    /\ UNCHANGED <<runRows, holder, saving, cache>>

\* Mutant of AbandonSave: an early return that skips the unlock.
AbandonSaveWithoutUnlock(c) ==
    /\ holder = c
    /\ written < Count(saving)
    /\ saving' = NoRun /\ written' = 1
    /\ UNCHANGED <<holder, tables, cache>>

\* An INSERT of that loop failing: Save returns, the rows so far stay.
AbandonSave(c) ==
    /\ holder = c
    /\ written < Count(saving)
    /\ Release
    /\ UNCHANGED <<tables, cache>>

\* After the loop: the run becomes the latest, joins the capped history, and
\* mu is unlocked.
Publish(c) ==
    /\ holder = c
    /\ written = Count(saving)
    /\ latest' = saving
    /\ hist' = LastN(Append(hist, saving), HistCap)
    /\ published' = Append(published, saving)
    /\ Release
    /\ UNCHANGED tables

\* The process ends and a new one calls New: tables survive, memory does not,
\* and nothing in New reads the tables back.
Restart ==
    /\ latest' = NoRun /\ hist' = <<>> /\ published' = <<>>
    /\ Release
    /\ UNCHANGED tables

-----------------------------------------------------------------------------

(***************************************************************************)
(* Readers                                                                 *)
(***************************************************************************)

\* The boolean of Latest().
HasLatest == ~(latest.id = 0 /\ latest.stocks = <<>>)

Lesser(m, n) == IF m < n THEN m ELSE n

\* ListRuns(limit): newest first.
ListRuns(limit) ==
    IF hist = <<>>
    THEN IF latest.id # 0 THEN <<latest>> ELSE <<>>
    ELSE [i \in 1..Lesser(limit, Len(hist)) |-> hist[Len(hist) - i + 1]]

-----------------------------------------------------------------------------

\* A run's uuid is drawn once: Save meets each run at most one time.
Fresh(r) == \A row \in runRows : row.id # r.id

SaveStep(c) ==
    \/ InsertResult(c)
    \/ AbandonSave(c)
    \/ Publish(c)

\* Mutant of BeginSave: a run that was saved is saved once more.
BeginSaveAgain(c) == \E r \in RunResult : InsertRun(c, r)

\* run, in main.go, saves each run once.
BeginSave(c) == \E r \in RunResult : Fresh(r) /\ InsertRun(c, r)

Next ==
    \/ \E c \in Callers : BeginSave(c) \/ RefuseRun(c) \/ SaveStep(c)
    \/ Restart

Spec == Init /\ [][Next]_vars

\* SQLite answers every statement, with success or an error: a Save that has
\* begun goes on to its return.  Nothing obliges a caller to begin one.
FairSpec == Spec /\ \A c \in Callers : WF_vars(SaveStep(c))

-----------------------------------------------------------------------------

(***************************************************************************)
(* Properties                                                              *)
(***************************************************************************)

TypeOK ==
    /\ runRows \subseteq [id : RunIds, count : Nat]
    /\ resultRows \subseteq [run : RunIds, ticker : Tickers]
    /\ holder \in Callers \cup {NoCaller}
    /\ saving \in RunOrNone
    /\ (holder = NoCaller) <=> (saving = NoRun)
    /\ written \in 0..Count(saving)
    /\ latest \in RunOrNone
    /\ hist \in Seq(RunResult)
    /\ published \in Seq(RunResult)

\* The first n results of r are rows of ranking_results.
ResultsWritten(r, n) ==
    \A i \in 1..n : [run |-> r.id, ticker |-> r.stocks[i]] \in resultRows

Persisted(r) == RunRow(r) \in runRows /\ ResultsWritten(r, Count(r))

\* Whatever a reader can be shown (Latest, ListRuns) has every one of its rows
\* in SQLite: Save publishes only after its last INSERT has succeeded, and a
\* Save that fails half way leaves the cache as it was.
VisibleIsDurable ==
    /\ HasLatest => Persisted(latest)
    /\ \A i \in DOMAIN hist : Persisted(hist[i])

\* ListRuns is exactly the newest runs published since the start, newest
\* first, as many as were asked for and the cap allows; its first is the run
\* that Latest returns.
HistoryIsNewestRuns ==
    /\ \A n \in 1..(HistCap + 1) :
         LET k == Lesser(Lesser(n, HistCap), Len(published)) IN
           ListRuns(n) = [i \in 1..k |-> published[Len(published) - i + 1]]
    /\ HasLatest => ListRuns(1) = <<latest>>

\* No caller keeps mu for ever, so every reader gets its turn.
LockReleased == \A c \in Callers : holder = c ~> holder = NoCaller

-----------------------------------------------------------------------------

Feed == INSTANCE RunFeed WITH rows <- runRows, results <- resultRows,
                              feed <- published

\* The store keeps the promises of RunFeed, whatever statements fail and
\* wherever the process stops: a run is shown once, whole, after its rows are
\* on disk, and rows are never lost.
ImplementsFeed == Feed!Spec
=============================================================================
