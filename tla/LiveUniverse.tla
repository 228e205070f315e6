------------------------------ MODULE LiveUniverse ------------------------------
(***************************************************************************)
(* The market data the server ranks: sectors.Client (HTTP with bounded     *)
(* retries), sectors.Cache (one SQLite row per ticker) and the liveSnaps   *)
(* of cmd/server/main.go.  The refresher runs FetchLiveUniverse at startup *)
(* and before every scheduled run: it pages through the screener, then     *)
(* looks every listed symbol up in the cache or upstream, one after        *)
(* another, and replaces liveSnaps.  Readers are GET /stocks/:ticker       *)
(* requests, which use the same client and cache at the same time.         *)
(*                                                                         *)
(* Kept: every request attempt, error path, break, truncation and the      *)
(* order of cache query, request and cache write.  Abstracted: a snapshot  *)
(* is its ticker, which is "" for the blank one that decoding the JSON body *)
(* of an error gives; a cache row is a snapshot and the hour it was        *)
(* written; hours run up to MaxHour; the waits between attempts are steps  *)
(* in which others run.  External: what the Sectors API answers, any of    *)
(* Answers.                                                                *)
(***************************************************************************)
EXTENDS Naturals, Sequences, SequencesExt

CONSTANTS
    Symbols,     \* the tickers the screener can list
    NoSymbol,    \* the symbol "", of a screener row or of a blank snapshot
    NoRow,       \* the absence of a cache row
    Refresher,   \* main's refreshLive
    Readers,     \* the handlers of GET /stocks/:ticker
    Limit,       \* UniverseMaxStocks
    MaxTry,      \* attempts of one request
    TTL,         \* CacheTTLHours
    PageSize,    \* rows of a screener page; bounds the model only
    MaxRows,     \* rows of the whole screener result; bounds the model only
    MaxHour      \* bounds the clock of the model

Fetchers == {Refresher} \cup Readers
Snapshots == Symbols \cup {NoSymbol}
Rows == [at : 0 .. MaxHour, snap : Snapshots]

ASSUME LiveUniverseAssumption ==
    /\ {Limit, MaxTry, PageSize} \subseteq Nat \ {0}
    /\ {TTL, MaxRows, MaxHour} \subseteq Nat
    /\ Refresher \notin Readers
    /\ NoSymbol \notin Symbols
    /\ NoRow \notin Rows

VARIABLES
    hour,       \* the wall clock
    cache,      \* table sectors_cache, kept across restarts
    live,       \* main's liveSnaps
    pc,         \* where each fetcher is
    sym,        \* the symbol each fetcher is looking up, NoSymbol between lookups
    attempt,    \* failed attempts of the current request
    symbols,    \* FetchUniverse's allSymbols; once listed, those still to look up
    offset,     \* FetchUniverse's offset
    snaps,      \* FetchLiveUniverse's snaps
    listening,  \* startup refresh done, handlers may run
    expected    \* history: listed symbols whose stock was cached when the refresh
                \* began, save those excused (see RefreshKeepsCachedStocks)

vars == <<hour, cache, live, pc, sym, attempt, symbols, offset, snaps,
          listening, expected>>

(***************************************************************************)
(* One HTTP request: client.get.                                           *)
(***************************************************************************)
Retryable == {"unreachable", "429", "5xx"}
Undecodable == {"404", "garbled"}
Answers == Retryable \cup Undecodable \cup {"401", "4xx with a body", "200"}

\* What get makes of an answer: try again, give up with an error, or return it.
Verdict(f, answer) ==
    IF answer \in Retryable
    THEN IF attempt[f] + 1 < MaxTry THEN "again" ELSE "error"
    ELSE IF answer = "401" THEN "error" ELSE "returned"

Asking(f) == pc[f] \in {"list", "ask"}
Step(f, from, to) == pc[f] = from /\ pc' = [pc EXCEPT ![f] = to]
Answered(f) == attempt' = [attempt EXCEPT ![f] = 0]

Again(f) ==
    /\ Asking(f)
    /\ \E answer \in Answers : Verdict(f, answer) = "again"
    /\ attempt' = [attempt EXCEPT ![f] = @ + 1]
    /\ UNCHANGED <<hour, cache, live, pc, sym, symbols, offset, snaps,
                   listening, expected>>

(***************************************************************************)
(* FetchUniverse.                                                          *)
(***************************************************************************)
FirstN(s, n) == SubSeq(s, 1, IF Len(s) < n THEN Len(s) ELSE n)
HasRow(s) == cache[s] # NoRow

\* Mutant: the slice to limit is forgotten.
EndListingUnsliced(found) ==
    /\ symbols' = found
    /\ Step(Refresher, "list", "next")
    /\ offset' = 0
    /\ expected' = {s \in ToSet(found) : s \in expected}

EndListing(found) ==
    /\ symbols' = FirstN(found, Limit)
    /\ Step(Refresher, "list", "next")
    /\ offset' = 0
    /\ expected' = {s \in ToSet(FirstN(found, Limit)) : s \in expected}

\* refreshLive begins; readers may be in the middle of a lookup.
BeginRefresh ==
    /\ Step(Refresher, "idle", "list")
    /\ symbols' = <<>>
    /\ offset' = 0
    /\ snaps' = <<>>
    /\ expected' = {s \in Symbols : HasRow(s) /\ cache[s].snap = s}
    /\ UNCHANGED <<hour, cache, live, sym, attempt, listening>>

\* Any error, 4xx or undecodable body ends the listing with what it has so
\* far; FetchUniverse returns a nil error.
ListingFails ==
    /\ \E answer \in Answers \ {"200"} : Verdict(Refresher, answer) # "again"
    /\ EndListing(symbols)
    /\ Answered(Refresher)
    /\ UNCHANGED <<hour, cache, live, sym, snaps, listening>>

\* A page of n rows, of which the named ones have a symbol; the others are dropped.
PageArrives ==
    \E n \in 0 .. PageSize : \E k \in 0 .. n : \E named \in [1 .. k -> Symbols] :
    \E hasNext \in BOOLEAN :
        LET found == symbols \o named IN
        /\ pc[Refresher] = "list"
        /\ offset + n <= MaxRows
        /\ hasNext => offset + n < MaxRows
        /\ Answered(Refresher)
        /\ IF n = 0 \/ Len(found) >= Limit \/ ~hasNext
           THEN EndListing(found)
           ELSE /\ symbols' = found
                /\ offset' = offset + n
                /\ UNCHANGED <<pc, expected>>
        /\ UNCHANGED <<hour, cache, live, sym, snaps, listening>>

(***************************************************************************)
(* FetchSnapshotWithCache, for the refresher and for readers.              *)
(***************************************************************************)
Fresh(row) == row # NoRow /\ hour - row.at < TTL

\* The lookup ends with the given snapshots: the refresher collects them.
Return(f, from, found) ==
    /\ Step(f, from, IF f = Refresher THEN "next" ELSE "idle")
    /\ snaps' = IF f = Refresher THEN snaps \o found ELSE snaps
    /\ sym' = [sym EXCEPT ![f] = NoSymbol]

\* cache.IsFresh, one query; a failing query counts as not fresh.
CheckFresh(f) ==
    /\ \/ Step(f, "check", "hit") /\ Fresh(cache[sym[f]])
       \/ Step(f, "check", "ask")
    /\ UNCHANGED <<hour, cache, live, sym, attempt, symbols, offset, snaps,
                   listening, expected>>

\* cache.Get, a second query, after IsFresh said yes; it may fail, too.
ReadHit(f) ==
    /\ \/ Return(f, "hit", <<cache[sym[f]].snap>>)
       \/ Step(f, "hit", "ask") /\ UNCHANGED <<snaps, sym>>
    /\ UNCHANGED <<hour, cache, live, attempt, symbols, offset,
                   listening, expected>>

\* FetchSnapshot fails: no answer, an auth error, 404 or no JSON.
AskFails(f) ==
    /\ \E answer \in Answers : \/ Verdict(f, answer) = "error"
                               \/ answer \in Undecodable
    /\ Step(f, "ask", "fallback")
    /\ Answered(f)
    /\ UNCHANGED <<hour, cache, live, sym, symbols, offset, snaps,
                   listening, expected>>

\* Mutant: the cache is only consulted for fresh rows.
FallBackWhenFresh(f) ==
    /\ pc[f] = "fallback"
    /\ \/ Fresh(cache[sym[f]]) /\ Return(f, "fallback", <<cache[sym[f]].snap>>)
       \/ ~Fresh(cache[sym[f]]) /\ Return(f, "fallback", <<>>)
    /\ UNCHANGED <<hour, cache, live, attempt, symbols, offset,
                   listening, expected>>

\* Mutant: a lookup that found nothing starts over.
FallBackAsksAgain(f) ==
    /\ pc[f] = "fallback"
    /\ \/ HasRow(sym[f]) /\ Return(f, "fallback", <<cache[sym[f]].snap>>)
       \/ ~HasRow(sym[f]) /\ Step(f, "fallback", "ask") /\ UNCHANGED <<snaps, sym>>
    /\ UNCHANGED <<hour, cache, live, attempt, symbols, offset,
                   listening, expected>>

\* Any row will do then, however old; without one the lookup fails, and so it
\* does when this query fails.
FallBack(f) ==
    /\ pc[f] = "fallback"
    /\ \/ /\ HasRow(sym[f])
          /\ Return(f, "fallback", <<cache[sym[f]].snap>>)
          /\ UNCHANGED expected
       \/ /\ ~HasRow(sym[f])
          /\ Return(f, "fallback", <<>>)
          /\ UNCHANGED expected
       \/ /\ Return(f, "fallback", <<>>)
          /\ expected' = IF f = Refresher THEN expected \ {sym[f]} ELSE expected
    /\ UNCHANGED <<hour, cache, live, attempt, symbols, offset, listening>>

\* FetchSnapshot decodes whatever JSON came, the body of an error to a blank
\* snapshot, and the cache stores it, stamped with the time of the write; a
\* failing write is logged.
AskSucceeds(f) ==
    /\ \E answer \in Answers \ Undecodable :
        LET snap == IF answer = "200" THEN sym[f] ELSE NoSymbol IN
        /\ Verdict(f, answer) = "returned"
        /\ Return(f, "ask", <<snap>>)
        /\ \/ cache' = [cache EXCEPT ![sym[f]] = [at |-> hour, snap |-> snap]]
           \/ UNCHANGED cache
        /\ expected' = IF snap = NoSymbol THEN expected \ {sym[f]} ELSE expected
    /\ Answered(f)
    /\ UNCHANGED <<hour, live, symbols, offset, listening>>

(***************************************************************************)
(* The loops around it: FetchLiveUniverse, refreshLive, the handler.       *)
(***************************************************************************)
NextSymbol ==
    /\ symbols # <<>>
    /\ Step(Refresher, "next", "check")
    /\ sym' = [sym EXCEPT ![Refresher] = Head(symbols)]
    /\ symbols' = Tail(symbols)
    /\ UNCHANGED <<hour, cache, live, attempt, offset, snaps, listening, expected>>

Publish ==
    /\ symbols = <<>>
    /\ Step(Refresher, "next", "idle")
    /\ live' = snaps
    /\ snaps' = <<>>
    /\ expected' = {}
    /\ listening' = TRUE
    /\ UNCHANGED <<hour, cache, sym, attempt, symbols, offset>>

AskForStock(r) ==
    /\ listening
    /\ Step(r, "idle", "check")
    /\ \E s \in Symbols : sym' = [sym EXCEPT ![r] = s]
    /\ UNCHANGED <<hour, cache, live, attempt, symbols, offset, snaps, listening, expected>>

Tick ==
    /\ hour < MaxHour
    /\ hour' = hour + 1
    /\ UNCHANGED <<cache, live, pc, sym, attempt, symbols, offset, snaps,
                   listening, expected>>

\* A new process: the table is all that is left; main refreshes before it listens.
Restart ==
    /\ live' = <<>>
    /\ pc' = [f \in Fetchers |-> "idle"]
    /\ attempt' = [f \in Fetchers |-> 0]
    /\ symbols' = <<>> /\ snaps' = <<>> /\ offset' = 0
    /\ sym' = [f \in Fetchers |-> NoSymbol]
    /\ listening' = FALSE
    /\ expected' = {}
    /\ UNCHANGED <<hour, cache>>

\* The table may hold rows of an earlier process.
Init ==
    /\ hour = 0
    /\ \E cached \in SUBSET Symbols :
          cache = [s \in Symbols |-> IF s \in cached THEN [at |-> 0, snap |-> s] ELSE NoRow]
    /\ sym = [f \in Fetchers |-> NoSymbol]
    /\ live = <<>>
    /\ pc = [f \in Fetchers |-> "idle"]
    /\ attempt = [f \in Fetchers |-> 0]
    /\ symbols = <<>> /\ snaps = <<>> /\ offset = 0
    /\ listening = FALSE
    /\ expected = {}

Lookup(f) ==
    \/ Again(f) \/ CheckFresh(f) \/ ReadHit(f)
    \/ AskFails(f) \/ FallBack(f) \/ AskSucceeds(f)

RefreshStep == ListingFails \/ PageArrives \/ NextSymbol \/ Publish

Next ==
    \/ BeginRefresh \/ RefreshStep \/ Tick \/ Restart
    \/ \E f \in Fetchers : Lookup(f)
    \/ \E r \in Readers : AskForStock(r)

Spec == Init /\ [][Next]_vars

\* Every attempt of the refresh ends (the client's timeout is 15 seconds) and
\* its goroutine is scheduled; nothing is assumed of readers, and nothing
\* obliges a refresh to begin.
FairSpec == Spec /\ WF_vars(RefreshStep \/ Lookup(Refresher))
-----------------------------------------------------------------------------
TypeOK ==
    /\ hour \in 0 .. MaxHour
    /\ cache \in [Symbols -> Rows \cup {NoRow}]
    /\ live \in Seq(Snapshots)
    /\ pc \in [Fetchers -> {"idle", "list", "next", "check", "hit", "ask", "fallback"}]
    /\ \A r \in Readers : pc[r] \notin {"list", "next"}
    /\ sym \in [Fetchers -> Snapshots]
    /\ \A f \in Fetchers : sym[f] = NoSymbol <=> pc[f] \in {"idle", "list", "next"}
    /\ attempt \in [Fetchers -> 0 .. MaxTry - 1]
    /\ symbols \in Seq(Symbols)
    /\ offset \in 0 .. MaxRows
    /\ snaps \in Seq(Snapshots)
    /\ listening \in BOOLEAN
    /\ expected \subseteq Symbols

\* A refresh loses no listed stock the cache knew when it began: whatever
\* fails upstream for it, and whoever else looks it up at the same time, it is
\* in the liveSnaps the refresh ends with (FetchSnapshotWithCache,
\* FetchLiveUniverse).  Two things excuse a stock: the cache query after a
\* failed request failed as well, or an error with a JSON body was decoded for
\* it, by the refresh or by another request.
RefreshKeepsCachedStocks ==
    [][pc[Refresher] = "next" /\ pc'[Refresher] = "idle" /\ listening'
         => \A s \in expected : s \in ToSet(live')]_vars

\* However the screener pages, repeats or drops symbols, no refresh serves, or
\* asks the API about, more stocks than UNIVERSE_MAX_TICKERS
\* (FetchUniverse).
UniverseWithinLimit ==
    /\ Len(live) <= Limit
    /\ pc[Refresher] # "list" => Len(snaps) + Len(symbols) <= Limit

\* Every refresh comes to an end, whatever the API answers and whatever requests
\* do meanwhile (the bounded attempts of get, the loops of FetchUniverse and
\* FetchLiveUniverse).  The screener's result is finite: FetchUniverse itself
\* asks for pages as long as the API announces another one.
RefreshEnds == pc[Refresher] # "idle" ~> pc[Refresher] = "idle"
=============================================================================
