------------------------ MODULE RankingServerProofs ------------------------
(***************************************************************************)
(* Proofs about RankingServer, for any finite number of request handlers   *)
(* and any bound on the cycles.                                            *)
(*                                                                         *)
(* The invariant has six parts.   Shapes ties the actors' places to what   *)
(* they hold and to the store's mutex.  Bounded counts: every start pays   *)
(* for at most one uuid and two offers to the AI worker.  OneRunPerId says *)
(* that all runs held anywhere are told apart by their ids, Unsaved that   *)
(* whoever is about to save holds a run no one else holds.  Handed says    *)
(* that cycles past their save hold a listed or a failed run; Booted that  *)
(* a server that listens has a run to show or failed to save its first.    *)
(*                                                                         *)
(* From them the server uses the store and the AI worker as their own      *)
(* specifications allow, so that the theorems of RankingStoreProofs and    *)
(* AIPipelineProofs carry over: durability, types, and that dashboards     *)
(* explain no row by an older run.  The last section says what users of    *)
(* the whole server may rely on.                                           *)
(***************************************************************************)
EXTENDS RankingServer, FiniteSetTheorems, TLAPS

Own == {"save", "saving", "enqueue", "dispatch", "again"}

Past == {"enqueue", "dispatch", "again"}

Shapes ==
    /\ pc \in [Actors -> InCycle \cup {"refresh", "sleep", "idle", "check", "again"}]
    /\ pc[Scheduler] \notin {"idle", "check", "again"}
    /\ \A h \in Handlers : pc[h] \notin {"refresh", "sleep"}
    /\ request \in [Handlers -> Requests \cup {"none"}]
    /\ \A h \in Handlers : /\ request[h] = "none" <=> pc[h] = "idle"
                           /\ pc[h] = "again" => request[h] = "ai"
                           /\ pc[h] = "check" => request[h] # "rank"
                           /\ ~serving => pc[h] = "idle"
    /\ nowAt \in [Actors -> Minutes]
    /\ mine \in [Actors -> RunOrNone]
    /\ \A a \in Actors : pc[a] \in Own <=> mine[a] # NoRun
    /\ universe \in Gens /\ fetched \in Gens /\ clock \in Minutes /\ serving \in BOOLEAN
    /\ drawn \in Nat /\ cycles \in 1 .. MaxCycles
    /\ holder \in Actors \cup {NoCaller}
    /\ \A a \in Actors : /\ holder = a <=> pc[a] = "saving"
                         /\ holder = a => saving = mine[a]
    /\ published \in Seq(RunResult) /\ accepted \in Seq(RunResult)
    /\ latest = IF published = <<>> THEN NoRun ELSE published[Len(published)]

ToRank == {a \in Actors : pc[a] \in {"refresh", "now", "rank", "check"}}
ToOffer ==
    {a \in Actors : pc[a] \in {"refresh", "now", "rank", "check", "save", "saving", "enqueue"}}
ToOfferAgain == {h \in Handlers : request[h] = "ai"}

Bounded ==
    /\ drawn + Cardinality(ToRank) <= cycles
    /\ Len(accepted) + Cardinality(ToOffer) + Cardinality(ToOfferAgain) <= 2 * cycles

\* The runs somebody holds, has been shown or has handed to the AI worker.
Held ==
    {mine[a] : a \in {b \in Actors : pc[b] \in Own}}
      \cup {published[i] : i \in DOMAIN published} \cup {accepted[i] : i \in DOMAIN accepted}

OneRunPerId ==
    /\ \A r \in Held : r.id <= drawn
    /\ \A r, q \in Held : r.id = q.id => r = q
    /\ \A row \in runRows : row.id \in Nat /\ row.id <= drawn

Unsaved ==
    \A a \in Actors : pc[a] = "save" =>
        /\ \A row \in runRows : row.id # mine[a].id
        /\ \A i \in DOMAIN published : published[i].id # mine[a].id
        /\ \A b \in Actors : b # a /\ pc[b] \in Own => mine[b].id # mine[a].id

\* The ids of the runs that were shown and of those whose save failed.
Known == {published[i].id : i \in DOMAIN published} \cup failed

Handed ==
    /\ failed \subseteq RunIds
    /\ digests \subseteq [run : RunIds, gen : Gens, by : Requests \cup {"boot", "slot"}]
    /\ \A a \in Actors : pc[a] \in Past => mine[a].id \in Known
    /\ EffectsFollowSave

BootFailed == \E d \in digests : d.by = "boot" /\ d.run \in failed

Booted ==
    /\ serving => published # <<>> \/ BootFailed
    /\ ReadsRankOnlyAfterFailedBoot
-----------------------------------------------------------------------------
LEMMA Constants ==
    /\ Scheduler \in Actors /\ Scheduler \notin Handlers
    /\ \A h \in Handlers : h \in Actors /\ h # Scheduler
    /\ \A a \in Actors : a = Scheduler \/ a \in Handlers
    /\ \A a \in Actors : a # NoCaller
    /\ RunIds = 1 .. MaxCycles /\ MaxCycles \in Nat \ {0}
    /\ 0 \in Gens /\ 0 \in Minutes
BY ServerAssumption DEF Actors

\* The store and the pipeline see the same runs as the server.
LEMMA SameRuns ==
    /\ Store!RunResult = RunResult /\ Store!NoRun = NoRun /\ Store!RunOrNone = RunOrNone
    /\ AI!RunResult = RunResult /\ AI!NoRun = NoRun /\ AI!RunOrNone = RunOrNone
BY DEF Store!RunResult, RunResult, Store!NoRun, NoRun, AI!RunResult, AI!NoRun,
       Store!RunOrNone, AI!RunOrNone, RunOrNone

LEMMA RunFields ==
    ASSUME NEW r \in RunResult
    PROVE  r.id \in RunIds /\ r.id \in Nat /\ r.id # 0 /\ r # NoRun
BY Constants DEF RunResult, NoRun

LEMMA Appended ==
    ASSUME NEW S, NEW s \in Seq(S), NEW e \in S
    PROVE  /\ Append(s, e) \in Seq(S) /\ Append(s, e) # <<>>
           /\ Len(Append(s, e)) = Len(s) + 1 /\ Len(s) \in Nat
           /\ Append(s, e)[Len(Append(s, e))] = e
           /\ DOMAIN Append(s, e) = DOMAIN s \cup {Len(s) + 1}
           /\ DOMAIN s = 1 .. Len(s)
           /\ \A i \in DOMAIN s : Append(s, e)[i] = s[i]
BY SMT

\* An Enqueue adds its run to what was accepted, or nothing when it drops it.
LEMMA Enqueued ==
    ASSUME accepted \in Seq(RunResult), NEW r \in RunResult, AI!Enqueue(r)
    PROVE  /\ accepted' \in Seq(RunResult) /\ Len(accepted) \in Nat /\ Len(accepted') \in Nat
           /\ Len(accepted') <= Len(accepted) + 1
           /\ \A i \in DOMAIN accepted' :
                 accepted'[i] = r \/ \E j \in DOMAIN accepted : accepted'[i] = accepted[j]
<1>1. CASE AI!Accept(r)
  <2>1. accepted' = Append(accepted, r)
    BY <1>1 DEF AI!Accept
  <2> QED BY <2>1, Appended, SMT
<1>2. CASE AI!Drop(r)
  <2>1. accepted' = accepted
    BY <1>2 DEF AI!Drop, AI!vars
  <2> QED BY <2>1, SMT
<1> QED BY <1>1, <1>2 DEF AI!Enqueue

LEMMA FiniteCounts ==
    /\ IsFiniteSet(ToRank) /\ Cardinality(ToRank) \in Nat
    /\ IsFiniteSet(ToOffer) /\ Cardinality(ToOffer) \in Nat
    /\ IsFiniteSet(ToOfferAgain) /\ Cardinality(ToOfferAgain) \in Nat
<1>1. IsFiniteSet(Handlers) /\ IsFiniteSet(Actors)
  BY ServerAssumption, FS_AddElement DEF Actors
<1>2. ToRank \subseteq Actors /\ ToOffer \subseteq Actors /\ ToOfferAgain \subseteq Handlers
  BY DEF ToRank, ToOffer, ToOfferAgain
<1> QED BY <1>1, <1>2, FS_Subset, FS_CardinalityType

\* There is a uuid for whoever is on the way to drawing one.
LEMMA RoomForRank ==
    ASSUME Bounded, drawn \in Nat, cycles \in 1 .. MaxCycles, NEW a \in ToRank
    PROVE  drawn + 1 \in RunIds
<1>1. Cardinality(ToRank) >= 1
  <2>1. Cardinality(ToRank) # 0
    BY FiniteCounts, FS_EmptySet
  <2> QED BY <2>1, FiniteCounts
<1> QED BY <1>1, FiniteCounts, Constants DEF Bounded

-----------------------------------------------------------------------------
LEMMA ShapesInit == Init => Shapes
<1> SUFFICES ASSUME Init PROVE Shapes
  OBVIOUS
<1> USE Constants, SameRuns
<1>1. Store!Init /\ AI!Init
  BY DEF Init
<1>2. published = <<>> /\ accepted = <<>> /\ latest = NoRun /\ holder = NoCaller
  BY <1>1 DEF Store!Init, AI!Init
<1>3. <<>> \in Seq(RunResult)
  BY SMT
<1>4. NoRun \in RunOrNone
  BY DEF RunOrNone
<1>5. 1 \in 1 .. MaxCycles
  BY Constants
<1>6. /\ pc = [a \in Actors |-> IF a = Scheduler THEN "refresh" ELSE "idle"]
      /\ mine = [a \in Actors |-> NoRun]
  BY DEF Init
<1>7. \A a \in Actors : pc[a] \notin Own /\ mine[a] = NoRun /\ pc[a] # "saving"
  BY <1>6 DEF Own
<1> QED BY <1>2, <1>3, <1>4, <1>5, <1>6, <1>7 DEF Init, Shapes, InCycle, Requests

\* What the steps of the cycle do to Shapes.
LEMMA ShapesCycle ==
    ASSUME Shapes, Bounded, NEW a \in Actors, CycleStep(a)
    PROVE  Shapes'
<1> USE Constants, SameRuns DEF Goto
<1> USE DEF InCycle, Own, Requests
<1>1. CASE ReadClock(a)
  BY <1>1 DEF ReadClock, Shapes, storeVars, aiVars, envVars, history
<1>2. CASE RankUniverse(a)
  <2>1. a \in ToRank
    BY <1>2 DEF RankUniverse, ToRank
  <2>2. drawn + 1 \in RunIds
    BY <2>1, RoomForRank DEF Shapes
  <2>3. PICK s \in Rankings :
            mine' = [mine EXCEPT ![a] = [id |-> drawn + 1, at |-> nowAt[a], gen |-> universe, stocks |-> s]]
    BY <1>2 DEF RankUniverse
  <2>4. [id |-> drawn + 1, at |-> nowAt[a], gen |-> universe, stocks |-> s] \in RunResult
    BY <2>2 DEF Shapes, RunResult
  <2>5. mine' \in [Actors -> RunOrNone] /\ mine'[a] # NoRun /\ \A b \in Actors : b # a => mine'[b] = mine[b]
    BY <2>3, <2>4, RunFields DEF Shapes, RunOrNone
  <2>6. drawn' \in Nat
    BY <1>2 DEF RankUniverse, Shapes
  <2> QED BY <1>2, <2>5, <2>6 DEF RankUniverse, Shapes, storeVars, aiVars, envVars
<1>3. CASE BeginSave(a)
  BY <1>3 DEF BeginSave, Store!InsertRun, Store!cache, Shapes, aiVars, envVars, history
<1>4. CASE SaveResult(a)
  BY <1>4 DEF SaveResult, Store!InsertResult, Store!cache, Shapes, actorVars, aiVars, envVars, history
<1>5. CASE SaveOK(a)
  <2>1. /\ holder = a /\ published' = Append(published, saving) /\ latest' = saving
        /\ holder' = NoCaller /\ pc[a] = "saving" /\ saving = mine[a]
    BY <1>5 DEF SaveOK, Store!Publish, Store!Release, Shapes
  <2>2. saving \in RunResult
    BY <2>1 DEF Shapes, RunOrNone
  <2>3. /\ published' \in Seq(RunResult) /\ published' # <<>>
        /\ latest' = published'[Len(published')]
    BY <2>1, <2>2, Appended DEF Shapes
  <2> QED BY <1>5, <2>1, <2>3 DEF SaveOK, Shapes, aiVars, envVars, history
<1>6. CASE SaveFails(a)
  <2>1. /\ UNCHANGED <<latest, published>>
        /\ pc[a] \in {"save", "saving"}
        /\ pc[a] = "save" => holder' = holder /\ saving' = saving
        /\ pc[a] = "saving" => holder' = NoCaller
    BY <1>6 DEF SaveFails, Store!RefuseRun, Store!AbandonSave, Store!Release, Store!vars,
                Store!tables, Store!cache, Store!session, Shapes
  <2> QED BY <1>6, <2>1 DEF SaveFails, Shapes, aiVars, envVars, history
<1>7. CASE OfferToAI(a)
  <2>1. accepted' \in Seq(RunResult)
    BY <1>7, Enqueued DEF OfferToAI, Shapes, RunOrNone
  <2> QED BY <1>7, <2>1 DEF OfferToAI, Shapes, storeVars, envVars, history
<1>8. CASE Dispatch(a)
  <2>1. CASE a = Scheduler
    BY <1>8, <2>1 DEF Dispatch, Shapes, storeVars, aiVars, envVars, RunOrNone
  <2>2. CASE a # Scheduler /\ request[a] = "ai"
    BY <1>8, <2>2 DEF Dispatch, Shapes, storeVars, aiVars, envVars
  <2>3. CASE a # Scheduler /\ request[a] # "ai"
    BY <1>8, <2>3 DEF Dispatch, Shapes, storeVars, aiVars, envVars, RunOrNone
  <2> QED BY <2>1, <2>2, <2>3
<1> QED BY <1>1, <1>2, <1>3, <1>4, <1>5, <1>6, <1>7, <1>8 DEF CycleStep

LEMMA ShapesStep == Shapes /\ Bounded /\ [Next]_vars => Shapes'
<1> SUFFICES ASSUME Shapes, Bounded, [Next]_vars PROVE Shapes'
  OBVIOUS
<1> USE Constants, SameRuns DEF Goto
<1> USE DEF InCycle, Own, Requests
<1>1. CASE Refresh
  BY <1>1 DEF Refresh, Shapes, storeVars, aiVars, history
<1>2. ASSUME NEW a \in Actors, CycleStep(a) PROVE Shapes'
  BY <1>2, ShapesCycle
<1>3. ASSUME NEW h \in Handlers, Receive(h) PROVE Shapes'
  BY <1>3, SMT DEF Receive, Shapes, storeVars, aiVars, envVars, history
<1>4. ASSUME NEW h \in Handlers, CheckLatest(h) PROVE Shapes'
  <2>1. Store!HasLatest => latest \in RunResult
    <3>1. published # <<>> => published[Len(published)] \in RunResult
      BY SMT DEF Shapes
    <3>2. Store!HasLatest => latest # NoRun
      BY DEF Store!HasLatest, NoRun
    <3> QED BY <3>1, <3>2 DEF Shapes
  <2>2. CASE Store!HasLatest /\ request[h] = "ai"
    <3>1. latest # NoRun /\ latest \in RunOrNone
      BY <2>1, <2>2, RunFields DEF RunOrNone
    <3>2. /\ pc' = [pc EXCEPT ![h] = "again"] /\ mine' = [mine EXCEPT ![h] = latest]
          /\ UNCHANGED <<request, nowAt, universe, fetched, clock, serving, drawn, cycles>>
          /\ UNCHANGED <<holder, saving, published, accepted, latest>>
          /\ pc[h] = "check" /\ holder = NoCaller
      BY <1>4, <2>2 DEF CheckLatest, storeVars, aiVars, envVars, history
    <3>3. mine' \in [Actors -> RunOrNone] /\ mine'[h] # NoRun /\ \A a \in Actors : a # h => mine'[a] = mine[a]
      BY <3>1, <3>2 DEF Shapes
    <3>4. pc'[h] = "again" /\ \A a \in Actors : a # h => pc'[a] = pc[a]
      BY <3>2 DEF Shapes
    <3>5. pc' \in [Actors -> InCycle \cup {"refresh", "sleep", "idle", "check", "again"}]
      BY <3>2 DEF Shapes
    <3> QED BY <2>2, <3>2, <3>3, <3>4, <3>5 DEF Shapes
  <2>3. CASE Store!HasLatest /\ request[h] # "ai"
    <3>1. /\ pc' = [pc EXCEPT ![h] = "idle"] /\ request' = [request EXCEPT ![h] = "none"]
          /\ UNCHANGED <<mine, nowAt, universe, fetched, clock, serving, drawn, cycles>>
          /\ UNCHANGED <<holder, saving, published, accepted, latest>>
          /\ pc[h] = "check"
      BY <1>4, <2>3 DEF CheckLatest, storeVars, aiVars, envVars, history
    <3>2. /\ pc' \in [Actors -> InCycle \cup {"refresh", "sleep", "idle", "check", "again"}]
          /\ request' \in [Handlers -> Requests \cup {"none"}]
      BY <3>1 DEF Shapes
    <3>3. /\ pc'[h] = "idle" /\ \A a \in Actors : a # h => pc'[a] = pc[a]
          /\ request'[h] = "none" /\ \A g \in Handlers : g # h => request'[g] = request[g]
      BY <3>1 DEF Shapes
    <3> QED BY <3>1, <3>2, <3>3 DEF Shapes
  <2>4. CASE ~Store!HasLatest
    BY <1>4, <2>4 DEF CheckLatest, Shapes, storeVars, aiVars, envVars, history
  <2> QED BY <2>2, <2>3, <2>4
<1>5. ASSUME NEW h \in Handlers, OfferAgain(h) PROVE Shapes'
  <2>1. accepted' \in Seq(RunResult)
    BY <1>5, Enqueued DEF OfferAgain, Shapes, RunOrNone
  <2> QED BY <1>5, <2>1 DEF OfferAgain, Shapes, storeVars, envVars, history, RunOrNone
<1>6. CASE Wake
  BY <1>6, SMT DEF Wake, Shapes, storeVars, aiVars, envVars, history
<1>7. CASE Tick
  BY <1>7 DEF Tick, Shapes, storeVars, aiVars, actorVars, history
<1>8. CASE Analyse
  <2>1. accepted' = accepted
    BY <1>8 DEF Analyse, AI!WorkerStep, AI!Take, AI!AnalyseOK, AI!AnalyseRejected, AI!Finish
  <2> QED BY <1>8, <2>1 DEF Analyse, Shapes, storeVars, actorVars, envVars, history
<1>9. CASE Restart
  <2>1. published' = <<>> /\ accepted' = <<>> /\ latest' = NoRun /\ holder' = NoCaller
    BY <1>9 DEF Restart, Store!Restart, Store!Release, AI!Restart
  <2>2. <<>> \in Seq(RunResult) /\ cycles' \in 1 .. MaxCycles
    BY <1>9, SMT DEF Restart, Shapes
  <2> QED BY <1>9, <2>1, <2>2 DEF Restart, Shapes, RunOrNone
<1>10. CASE UNCHANGED vars
  BY <1>10 DEF vars, Shapes, storeVars, aiVars, actorVars, envVars, history
<1>11. Rest => UNCHANGED vars
  BY DEF Rest
<1> QED BY <1>1, <1>2, <1>3, <1>4, <1>5, <1>6, <1>7, <1>8, <1>9, <1>10, <1>11
        DEF Next, HandlerStep
-----------------------------------------------------------------------------
LEMMA Counting ==
    ASSUME NEW S, IsFiniteSet(S), NEW T
    PROVE  /\ T \subseteq S => Cardinality(T) \in Nat /\ Cardinality(T) <= Cardinality(S)
           /\ \A x \in S : T \subseteq S \ {x} =>
                 Cardinality(T) \in Nat /\ Cardinality(T) <= Cardinality(S) - 1
           /\ \A x : T \subseteq S \cup {x} =>
                 Cardinality(T) \in Nat /\ Cardinality(T) <= Cardinality(S) + 1
           /\ Cardinality(S) \in Nat
<1>1. Cardinality(S) \in Nat
  BY FS_CardinalityType
<1>2. T \subseteq S => Cardinality(T) \in Nat /\ Cardinality(T) <= Cardinality(S)
  BY FS_Subset, FS_CardinalityType
<1>3. ASSUME NEW x \in S, T \subseteq S \ {x}
      PROVE  Cardinality(T) \in Nat /\ Cardinality(T) <= Cardinality(S) - 1
  <2>1. IsFiniteSet(S \ {x}) /\ Cardinality(S \ {x}) = Cardinality(S) - 1
    BY FS_RemoveElement
  <2> QED BY <1>3, <2>1, FS_Subset, FS_CardinalityType
<1>4. ASSUME NEW x, T \subseteq S \cup {x}
      PROVE  Cardinality(T) \in Nat /\ Cardinality(T) <= Cardinality(S) + 1
  <2>1. IsFiniteSet(S \cup {x}) /\ Cardinality(S \cup {x}) <= Cardinality(S) + 1
    BY <1>1, FS_AddElement
  <2>2. Cardinality(S \cup {x}) \in Nat
    BY <2>1, FS_CardinalityType
  <2> QED BY <1>1, <1>4, <2>1, <2>2, FS_Subset, FS_CardinalityType
<1> QED BY <1>1, <1>2, <1>3, <1>4

\* A step that starts nothing and neither draws nor offers.
LEMMA BoundedKept ==
    ASSUME Shapes, Bounded, UNCHANGED <<drawn, cycles, accepted>>,
           ToRank' \subseteq ToRank, ToOffer' \subseteq ToOffer, ToOfferAgain' \subseteq ToOfferAgain
    PROVE  Bounded'
<1>1. Len(accepted) \in Nat
  BY SMT DEF Shapes
<1>2. /\ Cardinality(ToRank') \in Nat /\ Cardinality(ToRank') <= Cardinality(ToRank)
      /\ Cardinality(ToOffer') \in Nat /\ Cardinality(ToOffer') <= Cardinality(ToOffer)
      /\ Cardinality(ToOfferAgain') \in Nat /\ Cardinality(ToOfferAgain') <= Cardinality(ToOfferAgain)
  BY FiniteCounts, Counting
<1>3. drawn \in Nat /\ cycles \in Nat
  BY Constants DEF Shapes
<1> QED BY <1>1, <1>2, <1>3, FiniteCounts DEF Bounded

LEMMA BoundedInit == Init => Bounded
<1> SUFFICES ASSUME Init PROVE Bounded
  OBVIOUS
<1>1. ToRank \subseteq {Scheduler} /\ ToOffer \subseteq {Scheduler} /\ ToOfferAgain = {}
  BY Constants DEF Init, ToRank, ToOffer, ToOfferAgain
<1>4. IsFiniteSet({Scheduler}) /\ Cardinality({Scheduler}) = 1
  BY FS_Singleton
<1>2. /\ Cardinality(ToRank) \in Nat /\ Cardinality(ToRank) <= 1
      /\ Cardinality(ToOffer) \in Nat /\ Cardinality(ToOffer) <= 1
      /\ Cardinality(ToOfferAgain) = 0
  BY <1>1, <1>4, Counting, FS_EmptySet
<1>3. drawn = 0 /\ cycles = 1 /\ Len(accepted) = 0
  BY SMT DEF Init, AI!Init
<1> QED BY <1>2, <1>3 DEF Bounded

LEMMA BoundedStep == Shapes /\ Bounded /\ [Next]_vars => Bounded'
<1> SUFFICES ASSUME Shapes, Bounded, [Next]_vars PROVE Bounded'
  OBVIOUS
<1> USE Constants, SameRuns DEF Goto
<1>0. Len(accepted) \in Nat /\ drawn \in Nat /\ cycles \in Nat
  BY SMT DEF Shapes
<1>1. CASE Refresh
  <2>1. ToRank' = ToRank /\ ToOffer' = ToOffer /\ ToOfferAgain' = ToOfferAgain
    BY <1>1 DEF Refresh, Shapes, ToRank, ToOffer, ToOfferAgain
  <2> QED BY <1>1, <2>1, BoundedKept DEF Refresh, aiVars, history
<1>2. ASSUME NEW a \in Actors, CycleStep(a) PROVE Bounded'
  <2>1. CASE ReadClock(a)
    <3>1. ToRank' = ToRank /\ ToOffer' = ToOffer /\ ToOfferAgain' = ToOfferAgain
      BY <2>1 DEF ReadClock, Shapes, ToRank, ToOffer, ToOfferAgain
    <3> QED BY <2>1, <3>1, BoundedKept DEF ReadClock, aiVars, history
  <2>2. CASE RankUniverse(a)
    <3>1. /\ a \in ToRank /\ ToRank' \subseteq ToRank \ {a}
          /\ ToOffer' \subseteq ToOffer /\ ToOfferAgain' \subseteq ToOfferAgain
      BY <2>2 DEF RankUniverse, Shapes, ToRank, ToOffer, ToOfferAgain
    <3>2. Cardinality(ToRank') \in Nat /\ Cardinality(ToRank') <= Cardinality(ToRank) - 1
      BY <3>1, FiniteCounts, Counting
    <3>3. /\ Cardinality(ToOffer') \in Nat /\ Cardinality(ToOffer') <= Cardinality(ToOffer)
          /\ Cardinality(ToOfferAgain') \in Nat /\ Cardinality(ToOfferAgain') <= Cardinality(ToOfferAgain)
      BY <3>1, FiniteCounts, Counting
    <3>4. drawn' = drawn + 1 /\ cycles' = cycles /\ accepted' = accepted
      BY <2>2 DEF RankUniverse, aiVars
    <3> QED BY <1>0, <3>2, <3>3, <3>4, FiniteCounts DEF Bounded
  <2>3. CASE BeginSave(a) \/ SaveOK(a) \/ SaveFails(a)
    <3>1. /\ pc[a] \in {"save", "saving"} /\ pc' = [pc EXCEPT ![a] = pc'[a]]
          /\ pc'[a] \in {"saving", "enqueue"}
          /\ UNCHANGED <<drawn, cycles, accepted, request>>
      BY <2>3 DEF BeginSave, SaveOK, SaveFails, Store!Publish, Store!AbandonSave, Shapes,
                  aiVars, history
    <3>2. ToRank' \subseteq ToRank /\ ToOffer' \subseteq ToOffer /\ ToOfferAgain' = ToOfferAgain
      BY <3>1 DEF Shapes, ToRank, ToOffer, ToOfferAgain
    <3> QED BY <3>1, <3>2, BoundedKept
  <2>4. CASE SaveResult(a)
    <3>1. ToRank' = ToRank /\ ToOffer' = ToOffer /\ ToOfferAgain' = ToOfferAgain
      BY <2>4 DEF SaveResult, actorVars, ToRank, ToOffer, ToOfferAgain
    <3> QED BY <2>4, <3>1, BoundedKept DEF SaveResult, aiVars, history
  <2>5. CASE OfferToAI(a)
    <3>1. /\ a \in ToOffer /\ ToOffer' \subseteq ToOffer \ {a}
          /\ ToRank' \subseteq ToRank /\ ToOfferAgain' \subseteq ToOfferAgain
      BY <2>5 DEF OfferToAI, Shapes, ToRank, ToOffer, ToOfferAgain
    <3>2. Cardinality(ToOffer') \in Nat /\ Cardinality(ToOffer') <= Cardinality(ToOffer) - 1
      BY <3>1, FiniteCounts, Counting
    <3>3. /\ Cardinality(ToRank') \in Nat /\ Cardinality(ToRank') <= Cardinality(ToRank)
          /\ Cardinality(ToOfferAgain') \in Nat /\ Cardinality(ToOfferAgain') <= Cardinality(ToOfferAgain)
      BY <3>1, FiniteCounts, Counting
    <3>4. mine[a] \in RunResult
      BY <2>5 DEF OfferToAI, Shapes, Own, RunOrNone
    <3>5. Len(accepted') \in Nat /\ Len(accepted') <= Len(accepted) + 1
      BY <2>5, <3>4, Enqueued DEF OfferToAI, Shapes
    <3>6. UNCHANGED <<drawn, cycles>>
      BY <2>5 DEF OfferToAI, history
    <3> QED BY <1>0, <3>2, <3>3, <3>5, <3>6, FiniteCounts DEF Bounded
  <2>6. CASE Dispatch(a)
    <3>1. /\ pc' = [pc EXCEPT ![a] = pc'[a]] /\ pc'[a] \in {"sleep", "again", "idle"}
          /\ \A h \in Handlers : request'[h] \in {request[h], "none"}
          /\ UNCHANGED <<drawn, cycles, accepted>>
      BY <2>6 DEF Dispatch, Shapes, aiVars
    <3>2. ToRank' \subseteq ToRank /\ ToOffer' \subseteq ToOffer
      BY <3>1 DEF Shapes, ToRank, ToOffer
    <3>3. ToOfferAgain' \subseteq ToOfferAgain
      BY <3>1 DEF Shapes, ToOfferAgain
    <3> QED BY <3>1, <3>2, <3>3, BoundedKept
  <2> QED BY <1>2, <2>1, <2>2, <2>3, <2>4, <2>5, <2>6 DEF CycleStep
<1>3. ASSUME NEW h \in Handlers, Receive(h) PROVE Bounded'
  <2>1. /\ ToRank' \subseteq ToRank \cup {h} /\ ToOffer' \subseteq ToOffer \cup {h}
        /\ ToOfferAgain' \subseteq ToOfferAgain \cup {h}
    BY <1>3 DEF Receive, Shapes, ToRank, ToOffer, ToOfferAgain
  <2>2. /\ Cardinality(ToRank') \in Nat /\ Cardinality(ToRank') <= Cardinality(ToRank) + 1
        /\ Cardinality(ToOffer') \in Nat /\ Cardinality(ToOffer') <= Cardinality(ToOffer) + 1
        /\ Cardinality(ToOfferAgain') \in Nat /\ Cardinality(ToOfferAgain') <= Cardinality(ToOfferAgain) + 1
    BY <2>1, FiniteCounts, Counting
  <2>3. drawn' = drawn /\ cycles' = cycles + 1 /\ accepted' = accepted
    BY <1>3 DEF Receive, aiVars, history
  <2>4. Len(accepted') = Len(accepted)
    BY <2>3
  <2>5. drawn' + Cardinality(ToRank') <= cycles'
    BY <1>0, <2>2, <2>3, FiniteCounts DEF Bounded
  <2>6. Len(accepted') + Cardinality(ToOffer') + Cardinality(ToOfferAgain') <= 2 * cycles'
    BY <1>0, <2>2, <2>3, <2>4, FiniteCounts DEF Bounded
  <2> QED BY <2>5, <2>6 DEF Bounded
<1>4. ASSUME NEW h \in Handlers, CheckLatest(h) PROVE Bounded'
  <2>1. /\ pc[h] = "check" /\ pc' = [pc EXCEPT ![h] = pc'[h]] /\ pc'[h] \in {"again", "idle", "now"}
        /\ \A g \in Handlers : request'[g] \in {request[g], "none"}
        /\ UNCHANGED <<drawn, cycles, accepted>>
    BY <1>4 DEF CheckLatest, Shapes, aiVars, history
  <2>2. ToRank' \subseteq ToRank /\ ToOffer' \subseteq ToOffer
    BY <2>1 DEF Shapes, ToRank, ToOffer
  <2>3. ToOfferAgain' \subseteq ToOfferAgain
    BY <2>1 DEF Shapes, ToOfferAgain
  <2> QED BY <2>1, <2>2, <2>3, BoundedKept
<1>5. ASSUME NEW h \in Handlers, OfferAgain(h) PROVE Bounded'
  <2>1. /\ h \in ToOfferAgain /\ ToOfferAgain' \subseteq ToOfferAgain \ {h}
        /\ ToRank' \subseteq ToRank /\ ToOffer' \subseteq ToOffer
    BY <1>5 DEF OfferAgain, Shapes, ToRank, ToOffer, ToOfferAgain
  <2>2. Cardinality(ToOfferAgain') \in Nat /\ Cardinality(ToOfferAgain') <= Cardinality(ToOfferAgain) - 1
    BY <2>1, FiniteCounts, Counting
  <2>3. /\ Cardinality(ToRank') \in Nat /\ Cardinality(ToRank') <= Cardinality(ToRank)
        /\ Cardinality(ToOffer') \in Nat /\ Cardinality(ToOffer') <= Cardinality(ToOffer)
    BY <2>1, FiniteCounts, Counting
  <2>4. mine[h] \in RunResult
    BY <1>5 DEF OfferAgain, Shapes, Own, RunOrNone
  <2>5. Len(accepted') \in Nat /\ Len(accepted') <= Len(accepted) + 1
    BY <1>5, <2>4, Enqueued DEF OfferAgain, Shapes
  <2>6. UNCHANGED <<drawn, cycles>>
    BY <1>5 DEF OfferAgain, history
  <2> QED BY <1>0, <2>2, <2>3, <2>5, <2>6, FiniteCounts DEF Bounded
<1>6. CASE Wake
  <2>1. /\ ToRank' \subseteq ToRank \cup {Scheduler} /\ ToOffer' \subseteq ToOffer \cup {Scheduler}
        /\ ToOfferAgain' \subseteq ToOfferAgain
    BY <1>6 DEF Wake, Shapes, ToRank, ToOffer, ToOfferAgain
  <2>2. /\ Cardinality(ToRank') \in Nat /\ Cardinality(ToRank') <= Cardinality(ToRank) + 1
        /\ Cardinality(ToOffer') \in Nat /\ Cardinality(ToOffer') <= Cardinality(ToOffer) + 1
        /\ Cardinality(ToOfferAgain') \in Nat /\ Cardinality(ToOfferAgain') <= Cardinality(ToOfferAgain)
    BY <2>1, FiniteCounts, Counting
  <2>3. drawn' = drawn /\ cycles' = cycles + 1 /\ accepted' = accepted
    BY <1>6 DEF Wake, aiVars, history
  <2> QED BY <1>0, <2>2, <2>3, FiniteCounts DEF Bounded
<1>7. CASE Tick \/ Analyse \/ Rest \/ UNCHANGED vars
  <2>1. UNCHANGED <<pc, request, drawn, cycles, accepted>>
    BY <1>7 DEF Tick, Analyse, Rest, vars, AI!WorkerStep, AI!Take, AI!AnalyseOK,
                AI!AnalyseRejected, AI!Finish, aiVars, actorVars, history
  <2>2. ToRank' = ToRank /\ ToOffer' = ToOffer /\ ToOfferAgain' = ToOfferAgain
    BY <2>1 DEF ToRank, ToOffer, ToOfferAgain
  <2> QED BY <2>1, <2>2, BoundedKept
<1>8. CASE Restart
  <2>1. ToRank' \subseteq {Scheduler} /\ ToOffer' \subseteq {Scheduler} /\ ToOfferAgain' = {}
    BY <1>8 DEF Restart, ToRank, ToOffer, ToOfferAgain
  <2>5. IsFiniteSet({Scheduler}) /\ Cardinality({Scheduler}) = 1
    BY FS_Singleton
  <2>2. /\ Cardinality(ToRank') \in Nat /\ Cardinality(ToRank') <= 1
        /\ Cardinality(ToOffer') \in Nat /\ Cardinality(ToOffer') <= 1
        /\ Cardinality(ToOfferAgain') = 0
    BY <2>1, <2>5, Counting, FS_EmptySet
  <2>3. drawn' = drawn /\ cycles' = cycles + 1 /\ Len(accepted') = 0
    BY <1>8, SMT DEF Restart, AI!Restart
  <2>4. drawn <= cycles
    BY <1>0, FiniteCounts DEF Bounded
  <2> QED BY <1>0, <2>2, <2>3, <2>4 DEF Bounded
<1> QED BY <1>1, <1>2, <1>3, <1>4, <1>5, <1>6, <1>7, <1>8 DEF Next, HandlerStep
-----------------------------------------------------------------------------
LEMMA HeldRuns ==
    ASSUME Shapes
    PROVE  /\ Held \subseteq RunResult
           /\ \A a \in Actors : pc[a] \in Own => mine[a] \in Held /\ mine[a] \in RunResult
           /\ published # <<>> => \E i \in DOMAIN published : latest = published[i]
<1>1. \A a \in Actors : pc[a] \in Own => mine[a] \in RunResult /\ mine[a] \in Held
  BY DEF Shapes, RunOrNone, Held
<1>2. /\ \A i \in DOMAIN published : published[i] \in RunResult
      /\ \A i \in DOMAIN accepted : accepted[i] \in RunResult
  BY SMT DEF Shapes
<1>3. published # <<>> => \E i \in DOMAIN published : latest = published[i]
  <2>1. published # <<>> => Len(published) \in DOMAIN published
    BY SMT DEF Shapes
  <2> QED BY <2>1 DEF Shapes
<1> QED BY <1>1, <1>2, <1>3 DEF Held

\* The runs after a step are those before it; only RankUniverse makes a new one.
NothingNew ==
    /\ drawn' = drawn
    /\ \A a \in Actors : pc'[a] \in Own =>
          \/ pc[a] \in Own /\ mine'[a] = mine[a]
          \/ pc'[a] # "save" /\ \E i \in DOMAIN published : mine'[a] = published[i]
    /\ \A a \in Actors : pc'[a] = "save" => pc[a] = "save" /\ mine'[a] = mine[a]
    /\ \A i \in DOMAIN published' :
          \/ i \in DOMAIN published /\ published'[i] = published[i]
          \/ \E a \in Actors : pc[a] = "saving" /\ published'[i] = mine[a]
    /\ \A i \in DOMAIN accepted' :
          \/ \E j \in DOMAIN accepted : accepted'[i] = accepted[j]
          \/ \E a \in Actors : pc[a] \in Own /\ accepted'[i] = mine[a]
    /\ \A row \in runRows' :
          \/ row \in runRows
          \/ \E a \in Actors : pc[a] = "save" /\ pc'[a] # "save" /\ row.id = mine[a].id

\* The same, for a step that leaves the shared runs alone.
Quiet ==
    /\ UNCHANGED <<drawn, published, accepted, runRows>>
    /\ \A a \in Actors : pc'[a] \in Own => pc[a] \in Own /\ mine'[a] = mine[a]
    /\ \A a \in Actors : pc'[a] = "save" => pc[a] = "save"

LEMMA QuietIsNothingNew == Quiet => NothingNew
BY DEF Quiet, NothingNew, Own

LEMMA CycleMakesNothingNew ==
    ASSUME Shapes, NEW a \in Actors, CycleStep(a), ~RankUniverse(a)
    PROVE  NothingNew
<1> USE Constants, SameRuns DEF Goto
<1>1. CASE ReadClock(a)
  <2>1. Quiet
    BY <1>1 DEF ReadClock, Quiet, Shapes, Own, storeVars, aiVars, history
  <2> QED BY <2>1, QuietIsNothingNew
<1>2. CASE BeginSave(a)
  <2>1. /\ pc[a] = "save" /\ pc' = [pc EXCEPT ![a] = "saving"]
        /\ UNCHANGED <<drawn, published, accepted, mine>>
    BY <1>2 DEF BeginSave, Store!InsertRun, Store!cache, aiVars, history
  <2>2. \A row \in runRows' : row \in runRows \/ row.id = mine[a].id
    BY <1>2 DEF BeginSave, Store!InsertRun, Store!RunRow
  <2>3. pc'[a] = "saving" /\ \A b \in Actors : b # a => pc'[b] = pc[b]
    BY <2>1 DEF Shapes
  <2> QED BY <2>1, <2>2, <2>3 DEF NothingNew, Own
<1>3. CASE SaveResult(a)
  <2>1. Quiet
    BY <1>3 DEF SaveResult, Store!InsertResult, Store!cache, Quiet, actorVars, aiVars, history
  <2> QED BY <2>1, QuietIsNothingNew
<1>4. CASE SaveOK(a)
  <2>1. /\ pc[a] = "saving" /\ pc' = [pc EXCEPT ![a] = "enqueue"]
        /\ published' = Append(published, mine[a])
        /\ UNCHANGED <<drawn, accepted, mine, runRows>>
    BY <1>4 DEF SaveOK, Store!Publish, Store!tables, Shapes, aiVars, history
  <2>2. mine[a] \in RunResult
    BY <2>1, HeldRuns DEF Own
  <2>3. \A i \in DOMAIN published' :
           \/ i \in DOMAIN published /\ published'[i] = published[i]
           \/ published'[i] = mine[a]
    BY <2>1, <2>2, Appended DEF Shapes
  <2>4. pc'[a] = "enqueue" /\ \A b \in Actors : b # a => pc'[b] = pc[b]
    BY <2>1 DEF Shapes
  <2> QED BY <2>1, <2>3, <2>4 DEF NothingNew, Own
<1>5. CASE SaveFails(a)
  <2>1. /\ pc[a] \in {"save", "saving"} /\ pc' = [pc EXCEPT ![a] = "enqueue"]
        /\ UNCHANGED <<drawn, accepted, mine, runRows, published>>
    BY <1>5 DEF SaveFails, Store!RefuseRun, Store!AbandonSave, Store!vars, Store!tables,
                Store!cache, Shapes, aiVars
  <2>2. Quiet
    BY <2>1 DEF Quiet, Shapes, Own
  <2> QED BY <2>2, QuietIsNothingNew
<1>6. CASE OfferToAI(a)
  <2>1. /\ pc[a] = "enqueue" /\ pc' = [pc EXCEPT ![a] = "dispatch"]
        /\ UNCHANGED <<drawn, mine, runRows, published>>
    BY <1>6 DEF OfferToAI, storeVars, history
  <2>2. mine[a] \in RunResult
    BY <2>1, HeldRuns DEF Own
  <2>3. \A i \in DOMAIN accepted' :
           accepted'[i] = mine[a] \/ \E j \in DOMAIN accepted : accepted'[i] = accepted[j]
    BY <1>6, <2>2, Enqueued DEF OfferToAI, Shapes
  <2>4. pc'[a] = "dispatch" /\ \A b \in Actors : b # a => pc'[b] = pc[b]
    BY <2>1 DEF Shapes
  <2> QED BY <2>1, <2>3, <2>4 DEF NothingNew, Own
<1>7. CASE Dispatch(a)
  <2>1. /\ pc[a] = "dispatch" /\ pc' = [pc EXCEPT ![a] = pc'[a]] /\ pc'[a] \in {"sleep", "again", "idle"}
        /\ pc'[a] = "again" => mine' = mine
        /\ \A b \in Actors : b # a => mine'[b] = mine[b]
        /\ UNCHANGED <<drawn, runRows, published, accepted>>
    BY <1>7 DEF Dispatch, Shapes, storeVars, aiVars
  <2>2. Quiet
    BY <2>1 DEF Quiet, Shapes, Own
  <2> QED BY <2>2, QuietIsNothingNew
<1> QED BY <1>1, <1>2, <1>3, <1>4, <1>5, <1>6, <1>7 DEF CycleStep

LEMMA OthersMakeNothingNew ==
    ASSUME Shapes, [Next]_vars, ~Restart, \A a \in Actors : ~CycleStep(a)
    PROVE  NothingNew
<1> USE Constants, SameRuns DEF Goto
<1>1. CASE Refresh
  <2>1. Quiet
    BY <1>1 DEF Refresh, Quiet, Shapes, Own, storeVars, aiVars, history
  <2> QED BY <2>1, QuietIsNothingNew
<1>2. ASSUME NEW h \in Handlers, Receive(h) PROVE NothingNew
  <2>1. Quiet
    BY <1>2 DEF Receive, Quiet, Shapes, Own, storeVars, aiVars, history
  <2> QED BY <2>1, QuietIsNothingNew
<1>3. ASSUME NEW h \in Handlers, CheckLatest(h) PROVE NothingNew
  <2>1. CASE Store!HasLatest /\ request[h] = "ai"
    <3>1. /\ pc' = [pc EXCEPT ![h] = "again"] /\ mine' = [mine EXCEPT ![h] = latest]
          /\ UNCHANGED <<drawn, runRows, published, accepted>>
      BY <1>3, <2>1 DEF CheckLatest, storeVars, aiVars, history
    <3>2. published # <<>>
      BY <2>1 DEF Store!HasLatest, NoRun, Shapes
    <3>3. \E i \in DOMAIN published : latest = published[i]
      BY <3>2, HeldRuns
    <3>4. /\ pc'[h] = "again" /\ mine'[h] = latest
          /\ \A b \in Actors : b # h => pc'[b] = pc[b] /\ mine'[b] = mine[b]
      BY <3>1 DEF Shapes
    <3> QED BY <3>1, <3>3, <3>4 DEF NothingNew, Own
  <2>2. CASE ~(Store!HasLatest /\ request[h] = "ai")
    <3>1. Quiet
      BY <1>3, <2>2 DEF CheckLatest, Quiet, Shapes, Own, storeVars, aiVars, history
    <3> QED BY <3>1, QuietIsNothingNew
  <2> QED BY <2>1, <2>2
<1>4. ASSUME NEW h \in Handlers, OfferAgain(h) PROVE NothingNew
  <2>1. /\ pc[h] = "again" /\ pc' = [pc EXCEPT ![h] = "idle"]
        /\ mine' = [mine EXCEPT ![h] = NoRun]
        /\ UNCHANGED <<drawn, runRows, published>>
    BY <1>4 DEF OfferAgain, storeVars, history
  <2>2. mine[h] \in RunResult
    BY <2>1, HeldRuns DEF Own
  <2>3. \A i \in DOMAIN accepted' :
           accepted'[i] = mine[h] \/ \E j \in DOMAIN accepted : accepted'[i] = accepted[j]
    BY <1>4, <2>2, Enqueued DEF OfferAgain, Shapes
  <2>4. /\ pc'[h] = "idle"
        /\ \A b \in Actors : b # h => pc'[b] = pc[b] /\ mine'[b] = mine[b]
    BY <2>1 DEF Shapes
  <2> QED BY <2>1, <2>3, <2>4 DEF NothingNew, Own
<1>5. CASE Wake
  <2>1. Quiet
    BY <1>5 DEF Wake, Quiet, Shapes, Own, storeVars, aiVars, history
  <2> QED BY <2>1, QuietIsNothingNew
<1>6. CASE Tick \/ Analyse \/ Rest \/ UNCHANGED vars
  <2>1. Quiet
    BY <1>6 DEF Tick, Analyse, Rest, vars, AI!WorkerStep, AI!Take, AI!AnalyseOK,
                AI!AnalyseRejected, AI!Finish, Quiet, storeVars, aiVars, actorVars, history
  <2> QED BY <2>1, QuietIsNothingNew
<1> QED BY <1>1, <1>2, <1>3, <1>4, <1>5, <1>6 DEF Next, HandlerStep
-----------------------------------------------------------------------------
\* RankUniverse makes the one new run, under an id above every other.
LEMMA RankMakesOne ==
    ASSUME Shapes, Bounded, NEW a \in Actors, RankUniverse(a)
    PROVE  /\ drawn' = drawn + 1 /\ drawn \in Nat
           /\ pc[a] = "rank" /\ pc'[a] = "save" /\ mine'[a] \in RunResult /\ mine'[a].id = drawn + 1
           /\ \A b \in Actors : b # a => pc'[b] = pc[b] /\ mine'[b] = mine[b]
           /\ UNCHANGED <<published, accepted, runRows, failed, digests, request, serving, latest>>
<1> USE Constants, SameRuns DEF Goto
<1>1. a \in ToRank
  BY DEF RankUniverse, ToRank
<1>2. drawn + 1 \in RunIds
  BY <1>1, RoomForRank DEF Shapes
<1>3. PICK s \in Rankings :
          mine' = [mine EXCEPT ![a] = [id |-> drawn + 1, at |-> nowAt[a], gen |-> universe, stocks |-> s]]
  BY DEF RankUniverse
<1>4. [id |-> drawn + 1, at |-> nowAt[a], gen |-> universe, stocks |-> s] \in RunResult
  BY <1>2 DEF Shapes, RunResult
<1>5. mine'[a].id = drawn + 1 /\ mine'[a] \in RunResult
  BY <1>3, <1>4 DEF Shapes
<1>6. \A b \in Actors : b # a => pc'[b] = pc[b] /\ mine'[b] = mine[b]
  BY <1>3 DEF RankUniverse, Shapes
<1>7. pc[a] = "rank" /\ pc'[a] = "save" /\ drawn' = drawn + 1 /\ drawn \in Nat
  BY DEF RankUniverse, Shapes
<1> QED BY <1>5, <1>6, <1>7 DEF RankUniverse, storeVars, aiVars

LEMMA IdsInit == Init => OneRunPerId /\ Unsaved
<1> SUFFICES ASSUME Init PROVE OneRunPerId /\ Unsaved
  OBVIOUS
<1>1. \A a \in Actors : pc[a] \notin Own /\ pc[a] # "save"
  BY DEF Init, Own
<1>2. published = <<>> /\ accepted = <<>> /\ runRows = {}
  BY DEF Init, Store!Init, AI!Init
<1>3. DOMAIN published = {} /\ DOMAIN accepted = {}
  BY <1>2, SMT
<1>4. Held = {}
  BY <1>1, <1>3 DEF Held
<1> QED BY <1>1, <1>2, <1>4 DEF OneRunPerId, Unsaved

LEMMA NothingNewKeepsIds ==
    ASSUME Shapes, OneRunPerId, Unsaved, NothingNew
    PROVE  OneRunPerId' /\ Unsaved'
<1>1. Held' \subseteq Held
  <2>1. \A a \in Actors : pc'[a] \in Own => mine'[a] \in Held
    BY DEF NothingNew, Held
  <2>2. \A a \in Actors : pc[a] = "saving" => mine[a] \in Held
    BY DEF Held, Own
  <2>3. \A i \in DOMAIN published' : published'[i] \in Held
    BY <2>2 DEF NothingNew, Held
  <2>4. \A i \in DOMAIN accepted' : accepted'[i] \in Held
    BY DEF NothingNew, Held
  <2> QED BY <2>1, <2>3, <2>4 DEF Held
<1>2. \A row \in runRows' : row.id \in Nat /\ row.id <= drawn'
  <2>1. \A a \in Actors : pc[a] = "save" => mine[a].id \in Nat /\ mine[a].id <= drawn
    BY HeldRuns, RunFields DEF Own, OneRunPerId
  <2> QED BY <2>1 DEF NothingNew, OneRunPerId
<1>3. OneRunPerId'
  BY <1>1, <1>2 DEF OneRunPerId, NothingNew
<1>4. ASSUME NEW a \in Actors, pc'[a] = "save"
      PROVE  /\ \A row \in runRows' : row.id # mine'[a].id
             /\ \A i \in DOMAIN published' : published'[i].id # mine'[a].id
             /\ \A b \in Actors : b # a /\ pc'[b] \in Own => mine'[b].id # mine'[a].id
  <2>1. pc[a] = "save" /\ mine'[a] = mine[a]
    BY <1>4 DEF NothingNew
  <2>2. /\ \A row \in runRows : row.id # mine[a].id
        /\ \A i \in DOMAIN published : published[i].id # mine[a].id
        /\ \A b \in Actors : b # a /\ pc[b] \in Own => mine[b].id # mine[a].id
    BY <2>1 DEF Unsaved
  <2>3. \A row \in runRows' : row.id # mine[a].id
    <3> SUFFICES ASSUME NEW row \in runRows', row \notin runRows PROVE row.id # mine[a].id
      BY <2>2
    <3>1. PICK b \in Actors : pc[b] = "save" /\ pc'[b] # "save" /\ row.id = mine[b].id
      BY DEF NothingNew
    <3> QED BY <3>1, <2>2, <1>4 DEF Own
  <2>4. \A i \in DOMAIN published' : published'[i].id # mine[a].id
    <3> SUFFICES ASSUME NEW i \in DOMAIN published' PROVE published'[i].id # mine[a].id
      OBVIOUS
    <3>1. CASE i \in DOMAIN published /\ published'[i] = published[i]
      BY <3>1, <2>2
    <3>2. CASE \E b \in Actors : pc[b] = "saving" /\ published'[i] = mine[b]
      BY <3>2, <2>1, <2>2 DEF Own
    <3> QED BY <3>1, <3>2 DEF NothingNew
  <2>5. \A b \in Actors : b # a /\ pc'[b] \in Own => mine'[b].id # mine[a].id
    BY <2>2 DEF NothingNew
  <2> QED BY <2>1, <2>3, <2>4, <2>5
<1> QED BY <1>3, <1>4 DEF Unsaved

LEMMA RankKeepsIds ==
    ASSUME Shapes, Bounded, OneRunPerId, Unsaved, NEW a \in Actors, RankUniverse(a)
    PROVE  OneRunPerId' /\ Unsaved'
<1> USE RankMakesOne
<1>1. \A r \in Held' : r \in Held \/ r = mine'[a]
  BY DEF Held
<1>2. \A r \in Held : r \in RunResult /\ r.id \in Nat /\ r.id <= drawn
  BY HeldRuns, RunFields DEF OneRunPerId
<1>3. mine'[a].id = drawn + 1 /\ drawn' = drawn + 1 /\ drawn \in Nat
  OBVIOUS
<1>4. \A r \in Held' : r.id <= drawn'
  BY <1>1, <1>2, <1>3
<1>5. \A r, q \in Held' : r.id = q.id => r = q
  BY <1>1, <1>2, <1>3 DEF OneRunPerId
<1>6. \A row \in runRows' : row.id \in Nat /\ row.id <= drawn'
  BY <1>3 DEF OneRunPerId
<1>7. ASSUME NEW b \in Actors, pc'[b] = "save"
      PROVE  /\ \A row \in runRows' : row.id # mine'[b].id
             /\ \A i \in DOMAIN published' : published'[i].id # mine'[b].id
             /\ \A c \in Actors : c # b /\ pc'[c] \in Own => mine'[c].id # mine'[b].id
  <2>1. CASE b = a
    <3>1. \A row \in runRows : row.id # drawn + 1
      BY <1>3 DEF OneRunPerId
    <3>2. \A i \in DOMAIN published : published[i].id # drawn + 1
      BY <1>2, <1>3 DEF Held
    <3>3. \A c \in Actors : c # a /\ pc[c] \in Own => mine[c].id # drawn + 1
      BY <1>2, <1>3, HeldRuns
    <3> QED BY <2>1, <3>1, <3>2, <3>3
  <2>2. CASE b # a
    <3>1. mine[b].id # drawn + 1
      BY <2>2, <1>7, <1>2, <1>3, HeldRuns DEF Own
    <3> QED BY <2>2, <1>7, <3>1 DEF Unsaved
  <2> QED BY <2>1, <2>2
<1> QED BY <1>4, <1>5, <1>6, <1>7 DEF OneRunPerId, Unsaved

LEMMA RestartKeepsIds ==
    ASSUME Shapes, OneRunPerId, Restart
    PROVE  OneRunPerId' /\ Unsaved'
<1>1. \A a \in Actors : pc'[a] \notin Own /\ pc'[a] # "save"
  BY DEF Restart, Own
<1>2. published' = <<>> /\ accepted' = <<>> /\ runRows' = runRows /\ drawn' = drawn
  BY DEF Restart, Store!Restart, Store!tables, AI!Restart
<1>3. DOMAIN published' = {} /\ DOMAIN accepted' = {}
  BY <1>2, SMT
<1>4. Held' = {}
  BY <1>1, <1>3 DEF Held
<1> QED BY <1>1, <1>2, <1>4 DEF OneRunPerId, Unsaved

LEMMA IdsStep ==
    Shapes /\ Bounded /\ OneRunPerId /\ Unsaved /\ [Next]_vars => OneRunPerId' /\ Unsaved'
<1> SUFFICES ASSUME Shapes, Bounded, OneRunPerId, Unsaved, [Next]_vars
             PROVE  OneRunPerId' /\ Unsaved'
  OBVIOUS
<1>1. ASSUME NEW a \in Actors, CycleStep(a) PROVE OneRunPerId' /\ Unsaved'
  BY <1>1, RankKeepsIds, CycleMakesNothingNew, NothingNewKeepsIds
<1>2. CASE Restart
  BY <1>2, RestartKeepsIds
<1>3. CASE ~Restart /\ \A a \in Actors : ~CycleStep(a)
  BY <1>3, OthersMakeNothingNew, NothingNewKeepsIds
<1> QED BY <1>1, <1>2, <1>3
-----------------------------------------------------------------------------
\* What readers were shown, what failed and what was sent stays on record.
Grows ==
    /\ \A i \in DOMAIN published : i \in DOMAIN published' /\ published'[i] = published[i]
    /\ failed \subseteq failed' /\ digests \subseteq digests'

LEMMA EffectsAreKnown ==
    EffectsFollowSave => /\ \A i \in DOMAIN accepted : accepted[i].id \in Known
                         /\ \A d \in digests : d.run \in Known
BY DEF EffectsFollowSave, Known, Listed

LEMMA GrowingKnows ==
    ASSUME Grows
    PROVE  /\ Known \subseteq Known'
           /\ BootFailed => BootFailed'
           /\ published \in Seq(RunResult) /\ published' \in Seq(RunResult) =>
                 (published # <<>> => published' # <<>>)
<1>1. Known \subseteq Known'
  BY DEF Grows, Known
<1>2. BootFailed => BootFailed'
  BY DEF Grows, BootFailed
<1>3. ASSUME published \in Seq(RunResult), published' \in Seq(RunResult), published # <<>>
      PROVE  published' # <<>>
  <2>1. 1 \in DOMAIN published
    BY <1>3, SMT
  <2> QED BY <2>1, <1>3, SMT DEF Grows
<1> QED BY <1>1, <1>2, <1>3

\* A step that hands on only what is known.
HandsOnKnown ==
    /\ Grows
    /\ failed' \subseteq RunIds
    /\ \A a \in Actors : pc'[a] \in Past =>
          (pc[a] \in Past /\ mine'[a] = mine[a]) \/ mine'[a].id \in Known'
    /\ \A i \in DOMAIN accepted' :
          \/ \E j \in DOMAIN accepted : accepted'[i] = accepted[j]
          \/ \E a \in Actors : pc[a] \in Past /\ accepted'[i] = mine[a]
    /\ \A d \in digests' :
          \/ d \in digests
          \/ /\ d \in [run : RunIds, gen : Gens, by : Requests \cup {"boot", "slot"}]
             /\ \E a \in Actors : pc[a] \in Past /\ d.run = mine[a].id

LEMMA HandedKept ==
    ASSUME Handed, HandsOnKnown
    PROVE  Handed'
<1>1. Grows /\ Known \subseteq Known'
  BY GrowingKnows DEF HandsOnKnown
<1>2. \A a \in Actors : pc[a] \in Past => mine[a].id \in Known'
  BY <1>1 DEF Handed
<1>3. \A a \in Actors : pc'[a] \in Past => mine'[a].id \in Known'
  BY <1>2 DEF HandsOnKnown
<1>4. \A i \in DOMAIN accepted' : accepted'[i].id \in Known'
  <2>1. \A j \in DOMAIN accepted : accepted[j].id \in Known'
    BY <1>1, EffectsAreKnown DEF Handed
  <2> QED BY <2>1, <1>2 DEF HandsOnKnown
<1>5. \A d \in digests' : d.run \in Known'
  <2>1. \A d \in digests : d.run \in Known'
    BY <1>1, EffectsAreKnown DEF Handed
  <2> QED BY <2>1, <1>2 DEF HandsOnKnown
<1>6. EffectsFollowSave'
  BY <1>4, <1>5 DEF EffectsFollowSave, Known, Listed
<1>7. /\ failed' \subseteq RunIds
      /\ digests' \subseteq [run : RunIds, gen : Gens, by : Requests \cup {"boot", "slot"}]
  BY DEF HandsOnKnown, Handed
<1> QED BY <1>3, <1>6, <1>7 DEF Handed

\* A step that shows, hands on and records nothing.
Idle ==
    /\ UNCHANGED <<published, accepted, failed, digests>>
    /\ \A a \in Actors : pc'[a] \in Past => pc[a] \in Past /\ mine'[a] = mine[a]

LEMMA IdleHandsOnKnown == Handed /\ Idle => HandsOnKnown
BY DEF Handed, Idle, HandsOnKnown, Grows

LEMMA CycleHandsOnKnown ==
    ASSUME Shapes, Bounded, Handed, NEW a \in Actors, CycleStep(a)
    PROVE  HandsOnKnown
<1> USE Constants, SameRuns DEF Goto
<1>1. CASE ReadClock(a)
  <2>1. Idle
    BY <1>1 DEF ReadClock, Idle, Shapes, Past, storeVars, aiVars, history
  <2> QED BY <2>1, IdleHandsOnKnown
<1>2. CASE RankUniverse(a)
  <2>1. Idle
    BY <1>2, RankMakesOne DEF Idle, Past
  <2> QED BY <2>1, IdleHandsOnKnown
<1>3. CASE BeginSave(a)
  <2>1. Idle
    BY <1>3 DEF BeginSave, Store!InsertRun, Store!cache, Idle, Shapes, Past, aiVars, history
  <2> QED BY <2>1, IdleHandsOnKnown
<1>4. CASE SaveResult(a)
  <2>1. Idle
    BY <1>4 DEF SaveResult, Store!InsertResult, Store!cache, Idle, actorVars, aiVars, history
  <2> QED BY <2>1, IdleHandsOnKnown
<1>5. CASE SaveOK(a)
  <2>1. /\ pc[a] = "saving" /\ pc' = [pc EXCEPT ![a] = "enqueue"]
        /\ published' = Append(published, mine[a])
        /\ UNCHANGED <<accepted, mine, failed, digests>>
    BY <1>5 DEF SaveOK, Store!Publish, Shapes, aiVars, history
  <2>2. mine[a] \in RunResult
    BY <2>1, HeldRuns DEF Own
  <2>3. Grows
    BY <2>1, <2>2, Appended DEF Grows, Shapes
  <2>4. mine'[a].id \in Known'
    <3>1. /\ Len(published) + 1 \in DOMAIN published'
          /\ published'[Len(published) + 1] = mine[a]
      BY <2>1, <2>2, Appended DEF Shapes
    <3> QED BY <3>1, <2>1 DEF Known, Listed
  <2>5. pc'[a] = "enqueue" /\ \A b \in Actors : b # a => pc'[b] = pc[b]
    BY <2>1 DEF Shapes
  <2> QED BY <2>1, <2>3, <2>4, <2>5 DEF HandsOnKnown, Handed
<1>6. CASE SaveFails(a)
  <2>1. /\ pc[a] \in {"save", "saving"} /\ pc' = [pc EXCEPT ![a] = "enqueue"]
        /\ UNCHANGED <<published, accepted, mine, digests>>
        /\ failed' = failed \cup {mine[a].id}
    BY <1>6 DEF SaveFails, Store!RefuseRun, Store!AbandonSave, Store!vars, Store!cache,
                Shapes, aiVars
  <2>2. mine[a].id \in RunIds
    BY <2>1, HeldRuns, RunFields DEF Own
  <2>3. mine'[a].id \in Known'
    BY <2>1 DEF Known
  <2>4. pc'[a] = "enqueue" /\ \A b \in Actors : b # a => pc'[b] = pc[b]
    BY <2>1 DEF Shapes
  <2> QED BY <2>1, <2>2, <2>3, <2>4 DEF HandsOnKnown, Handed, Grows
<1>7. CASE OfferToAI(a)
  <2>1. /\ pc[a] = "enqueue" /\ pc' = [pc EXCEPT ![a] = "dispatch"]
        /\ UNCHANGED <<mine, published, failed, digests>>
    BY <1>7 DEF OfferToAI, storeVars, history
  <2>2. mine[a] \in RunResult
    BY <2>1, HeldRuns DEF Own
  <2>3. \A i \in DOMAIN accepted' :
           accepted'[i] = mine[a] \/ \E j \in DOMAIN accepted : accepted'[i] = accepted[j]
    BY <1>7, <2>2, Enqueued DEF OfferToAI, Shapes
  <2>4. pc'[a] = "dispatch" /\ \A b \in Actors : b # a => pc'[b] = pc[b]
    BY <2>1 DEF Shapes
  <2> QED BY <2>1, <2>3, <2>4 DEF HandsOnKnown, Handed, Grows, Past
<1>8. CASE Dispatch(a)
  <2>1. /\ pc[a] = "dispatch" /\ pc' = [pc EXCEPT ![a] = pc'[a]] /\ pc'[a] \in {"sleep", "again", "idle"}
        /\ pc'[a] = "again" => mine' = mine
        /\ \A b \in Actors : b # a => mine'[b] = mine[b]
        /\ UNCHANGED <<published, accepted, failed>>
        /\ digests' = digests \cup {[run |-> mine[a].id, gen |-> universe, by |-> Trigger(a)]}
    BY <1>8 DEF Dispatch, Shapes, storeVars, aiVars
  <2>2. mine[a].id \in RunIds
    BY <2>1, HeldRuns, RunFields DEF Own
  <2>3. Trigger(a) \in Requests \cup {"boot", "slot"}
    BY <2>1 DEF Trigger, Shapes
  <2>4. universe \in Gens
    BY DEF Shapes
  <2>5. \A b \in Actors : pc'[b] \in Past => pc[b] \in Past /\ mine'[b] = mine[b]
    BY <2>1 DEF Shapes, Past
  <2>6. [run |-> mine[a].id, gen |-> universe, by |-> Trigger(a)]
           \in [run : RunIds, gen : Gens, by : Requests \cup {"boot", "slot"}]
    BY <2>2, <2>3, <2>4
  <2>7. pc[a] \in Past
    BY <2>1 DEF Past
  <2> QED BY <2>1, <2>5, <2>6, <2>7 DEF HandsOnKnown, Handed, Grows
<1> QED BY <1>1, <1>2, <1>3, <1>4, <1>5, <1>6, <1>7, <1>8 DEF CycleStep

LEMMA OthersHandOnKnown ==
    ASSUME Shapes, Handed, [Next]_vars, ~Restart, \A a \in Actors : ~CycleStep(a)
    PROVE  HandsOnKnown
<1> USE Constants, SameRuns DEF Goto
<1>1. CASE Refresh
  <2>1. Idle
    BY <1>1 DEF Refresh, Idle, Shapes, Past, storeVars, aiVars, history
  <2> QED BY <2>1, IdleHandsOnKnown
<1>2. ASSUME NEW h \in Handlers, Receive(h) PROVE HandsOnKnown
  <2>1. Idle
    BY <1>2 DEF Receive, Idle, Shapes, Past, storeVars, aiVars, history
  <2> QED BY <2>1, IdleHandsOnKnown
<1>3. ASSUME NEW h \in Handlers, CheckLatest(h) PROVE HandsOnKnown
  <2>1. CASE Store!HasLatest /\ request[h] = "ai"
    <3>1. /\ pc' = [pc EXCEPT ![h] = "again"] /\ mine' = [mine EXCEPT ![h] = latest]
          /\ UNCHANGED <<published, accepted, failed, digests>>
      BY <1>3, <2>1 DEF CheckLatest, storeVars, aiVars, history
    <3>2. published # <<>>
      BY <2>1 DEF Store!HasLatest, NoRun, Shapes
    <3>3. \E i \in DOMAIN published : latest = published[i]
      BY <3>2, HeldRuns
    <3>4. /\ pc'[h] = "again" /\ mine'[h] = latest
          /\ \A b \in Actors : b # h => pc'[b] = pc[b] /\ mine'[b] = mine[b]
      BY <3>1 DEF Shapes
    <3>5. mine'[h].id \in Known'
      BY <3>1, <3>3, <3>4 DEF Known, Listed
    <3> QED BY <3>1, <3>4, <3>5 DEF HandsOnKnown, Handed, Grows
  <2>2. CASE ~(Store!HasLatest /\ request[h] = "ai")
    <3>1. Idle
      BY <1>3, <2>2 DEF CheckLatest, Idle, Shapes, Past, storeVars, aiVars, history
    <3> QED BY <3>1, IdleHandsOnKnown
  <2> QED BY <2>1, <2>2
<1>4. ASSUME NEW h \in Handlers, OfferAgain(h) PROVE HandsOnKnown
  <2>1. /\ pc[h] = "again" /\ pc' = [pc EXCEPT ![h] = "idle"]
        /\ mine' = [mine EXCEPT ![h] = NoRun]
        /\ UNCHANGED <<published, failed, digests>>
    BY <1>4 DEF OfferAgain, storeVars, history
  <2>2. mine[h] \in RunResult
    BY <2>1, HeldRuns DEF Own
  <2>3. \A i \in DOMAIN accepted' :
           accepted'[i] = mine[h] \/ \E j \in DOMAIN accepted : accepted'[i] = accepted[j]
    BY <1>4, <2>2, Enqueued DEF OfferAgain, Shapes
  <2>4. /\ pc'[h] = "idle"
        /\ \A b \in Actors : b # h => pc'[b] = pc[b] /\ mine'[b] = mine[b]
    BY <2>1 DEF Shapes
  <2> QED BY <2>1, <2>3, <2>4 DEF HandsOnKnown, Handed, Grows, Past
<1>5. CASE Wake
  <2>1. Idle
    BY <1>5 DEF Wake, Idle, Shapes, Past, storeVars, aiVars, history
  <2> QED BY <2>1, IdleHandsOnKnown
<1>6. CASE Tick \/ Analyse \/ Rest \/ UNCHANGED vars
  <2>1. Idle
    BY <1>6 DEF Tick, Analyse, Rest, vars, AI!WorkerStep, AI!Take, AI!AnalyseOK,
                AI!AnalyseRejected, AI!Finish, Idle, storeVars, aiVars, actorVars, history
  <2> QED BY <2>1, IdleHandsOnKnown
<1> QED BY <1>1, <1>2, <1>3, <1>4, <1>5, <1>6 DEF Next, HandlerStep

LEMMA HandedInit == Init => Handed
<1> SUFFICES ASSUME Init PROVE Handed
  OBVIOUS
<1>1. accepted = <<>> /\ failed = {} /\ digests = {} /\ \A a \in Actors : pc[a] \notin Past
  BY DEF Init, AI!Init, Past
<1>2. DOMAIN accepted = {}
  BY <1>1, SMT
<1> QED BY <1>1, <1>2 DEF Handed, EffectsFollowSave

LEMMA HandedStep == Shapes /\ Bounded /\ Handed /\ [Next]_vars => Handed'
<1> SUFFICES ASSUME Shapes, Bounded, Handed, [Next]_vars PROVE Handed'
  OBVIOUS
<1>1. CASE Restart
  <2>1. /\ accepted' = <<>> /\ failed' = {} /\ digests' = {}
        /\ \A a \in Actors : pc'[a] \notin Past
    BY <1>1 DEF Restart, AI!Restart, Past
  <2>2. DOMAIN accepted' = {}
    BY <2>1, SMT
  <2> QED BY <2>1, <2>2 DEF Handed, EffectsFollowSave
<1>2. ASSUME NEW a \in Actors, CycleStep(a) PROVE Handed'
  BY <1>2, CycleHandsOnKnown, HandedKept
<1>3. CASE ~Restart /\ \A a \in Actors : ~CycleStep(a)
  BY <1>3, OthersHandOnKnown, HandedKept
<1> QED BY <1>1, <1>2, <1>3
-----------------------------------------------------------------------------
LEMMA BootedInit == Init => Booted
BY DEF Init, Booted, ReadsRankOnlyAfterFailedBoot, InCycle

\* Whoever gets into a cycle on behalf of a reader found no run to read.
LEMMA BootedStep ==
    Shapes /\ Shapes' /\ Bounded /\ Handed /\ Booted /\ [Next]_vars => Booted'
<1> SUFFICES ASSUME Shapes, Shapes', Bounded, Handed, Booted, [Next]_vars PROVE Booted'
  OBVIOUS
<1> USE Constants, SameRuns DEF Goto
<1>1. CASE Restart
  BY <1>1 DEF Restart, Booted, ReadsRankOnlyAfterFailedBoot, InCycle
<1> SUFFICES ASSUME ~Restart PROVE Booted'
  BY <1>1
<1>2. HandsOnKnown
  BY CycleHandsOnKnown, OthersHandOnKnown
<1>3. Grows /\ (BootFailed => BootFailed') /\ (published # <<>> => published' # <<>>)
  BY <1>2, GrowingKnows DEF HandsOnKnown, Shapes
<1>4. ASSUME serving' = serving,
             \A h \in Handlers : request'[h] \in {"get", "ai"} /\ pc'[h] \in InCycle =>
                BootFailed \/ (request[h] = request'[h] /\ pc[h] \in InCycle)
      PROVE  Booted'
  <2>1. serving' => published' # <<>> \/ BootFailed'
    BY <1>3, <1>4 DEF Booted
  <2>2. \A h \in Handlers : request'[h] \in {"get", "ai"} /\ pc'[h] \in InCycle => BootFailed'
    BY <1>3, <1>4 DEF Booted, ReadsRankOnlyAfterFailedBoot, BootFailed
  <2> QED BY <2>1, <2>2 DEF Booted, ReadsRankOnlyAfterFailedBoot, BootFailed
<1>5. ASSUME NEW a \in Actors, CycleStep(a), ~Dispatch(a) PROVE Booted'
  <2>1. serving' = serving /\ request' = request
    BY <1>5 DEF CycleStep, ReadClock, RankUniverse, BeginSave, SaveResult, SaveOK, SaveFails,
                OfferToAI, actorVars
  <2>2. pc[a] \in InCycle /\ \A b \in Actors : b # a => pc'[b] = pc[b]
    BY <1>5 DEF CycleStep, ReadClock, RankUniverse, BeginSave, SaveResult, SaveOK, SaveFails,
                OfferToAI, actorVars, Shapes, InCycle, Store!InsertResult, Store!Publish,
                Store!AbandonSave
  <2> QED BY <1>4, <2>1, <2>2
<1>6. ASSUME NEW a \in Actors, Dispatch(a) PROVE Booted'
  <2>1. /\ pc[a] = "dispatch" /\ pc'[a] \in {"sleep", "again", "idle"}
        /\ \A b \in Actors : b # a => pc'[b] = pc[b]
        /\ \A h \in Handlers : h # a => request'[h] = request[h]
        /\ digests' = digests \cup {[run |-> mine[a].id, gen |-> universe, by |-> Trigger(a)]}
        /\ UNCHANGED <<published, failed>>
    BY <1>6 DEF Dispatch, Shapes, storeVars
  <2>2. CASE a # Scheduler \/ serving
    <3>1. serving' = serving
      BY <1>6, <2>2 DEF Dispatch
    <3> QED BY <1>4, <2>1, <3>1 DEF InCycle
  <2>3. CASE a = Scheduler /\ ~serving
    <3>1. mine[a].id \in Known
      BY <2>1 DEF Handed, Past
    <3>2. published # <<>> \/ mine[a].id \in failed
      <4>1. published = <<>> => DOMAIN published = {}
        BY SMT
      <4> QED BY <3>1, <4>1 DEF Known
    <3>3. mine[a].id \in failed => BootFailed'
      <4>1. Trigger(a) = "boot"
        BY <2>3 DEF Trigger
      <4>2. [run |-> mine[a].id, gen |-> universe, by |-> "boot"] \in digests'
        BY <2>1, <4>1
      <4> QED BY <4>2, <2>1 DEF BootFailed
    <3>4. \A h \in Handlers : pc'[h] \notin InCycle
      BY <2>1, <2>3 DEF Shapes, InCycle
    <3> QED BY <3>2, <3>3, <3>4, <2>1 DEF Booted, ReadsRankOnlyAfterFailedBoot
  <2> QED BY <2>2, <2>3
<1>7. ASSUME NEW h \in Handlers, CheckLatest(h) PROVE Booted'
  <2>1. /\ serving' = serving /\ pc[h] = "check"
        /\ \A b \in Actors : b # h => pc'[b] = pc[b]
        /\ \A g \in Handlers : g # h => request'[g] = request[g]
        /\ pc'[h] \in InCycle => ~Store!HasLatest
    BY <1>7 DEF CheckLatest, Shapes, InCycle
  <2>2. ~Store!HasLatest => published = <<>>
    <3> SUFFICES ASSUME published # <<>> PROVE Store!HasLatest
      OBVIOUS
    <3>1. latest \in RunResult
      BY HeldRuns, SMT DEF Shapes
    <3> QED BY <3>1, RunFields DEF Store!HasLatest
  <2>3. serving
    BY <2>1 DEF Shapes
  <2>4. ~Store!HasLatest => BootFailed
    BY <2>2, <2>3 DEF Booted
  <2> QED BY <1>4, <2>1, <2>4
<1>8. ASSUME NEW h \in Handlers, Receive(h) \/ OfferAgain(h) PROVE Booted'
  <2>1. /\ serving' = serving
        /\ \A b \in Actors : b # h => pc'[b] = pc[b]
        /\ \A g \in Handlers : g # h => request'[g] = request[g]
        /\ pc'[h] \in InCycle => request'[h] = "rank"
    BY <1>8 DEF Receive, OfferAgain, Shapes, InCycle, Requests
  <2> QED BY <1>4, <2>1
<1>9. CASE Refresh \/ Wake
  <2>1. /\ serving' = serving /\ request' = request
        /\ \A h \in Handlers : pc'[h] = pc[h]
    BY <1>9 DEF Refresh, Wake, Shapes
  <2> QED BY <1>4, <2>1
<1>10. CASE Tick \/ Analyse \/ Rest \/ UNCHANGED vars
  <2>1. serving' = serving /\ request' = request /\ pc' = pc
    BY <1>10 DEF Tick, Analyse, Rest, vars, actorVars
  <2> QED BY <1>4, <2>1
<1> QED BY <1>5, <1>6, <1>7, <1>8, <1>9, <1>10 DEF Next, HandlerStep
-----------------------------------------------------------------------------
ServerInv == Shapes /\ Bounded /\ OneRunPerId /\ Unsaved /\ Handed /\ Booted

LEMMA ServerInductive == Spec => []ServerInv
<1>1. Init => ServerInv
  BY ShapesInit, BoundedInit, IdsInit, HandedInit, BootedInit DEF ServerInv
<1>2. ServerInv /\ [Next]_vars => ServerInv'
  BY ShapesStep, BoundedStep, IdsStep, HandedStep, BootedStep DEF ServerInv
<1> QED BY <1>1, <1>2, PTL DEF Spec
-----------------------------------------------------------------------------
\* Every step of the server is a step of the store or leaves it alone.
LEMMA StoreStep == ServerInv /\ [Next]_vars => [Store!Next]_Store!vars
<1> SUFFICES ASSUME ServerInv, [Next]_vars PROVE [Store!Next]_Store!vars
  OBVIOUS
<1> USE SameRuns DEF Store!Next
<1>1. ASSUME UNCHANGED storeVars PROVE UNCHANGED Store!vars
  BY <1>1 DEF storeVars, Store!vars, Store!tables, Store!cache, Store!session
<1>2. ASSUME NEW a \in Actors, BeginSave(a) PROVE Store!Next
  <2>1. mine[a] \in RunResult
    BY <1>2, HeldRuns DEF BeginSave, ServerInv, Own
  <2>2. Store!Fresh(mine[a])
    BY <1>2 DEF BeginSave, ServerInv, Unsaved, Store!Fresh
  <2> QED BY <1>2, <2>1, <2>2 DEF BeginSave, Store!BeginSave
<1>3. ASSUME NEW a \in Actors, SaveResult(a) \/ SaveOK(a) \/ SaveFails(a)
      PROVE  Store!Next
  BY <1>3 DEF SaveResult, SaveOK, SaveFails, Store!SaveStep
<1>4. ASSUME NEW a \in Actors,
             ReadClock(a) \/ RankUniverse(a) \/ OfferToAI(a) \/ Dispatch(a)
      PROVE  UNCHANGED Store!vars
  BY <1>4, <1>1 DEF ReadClock, RankUniverse, OfferToAI, Dispatch
<1>5. ASSUME NEW h \in Handlers, Receive(h) \/ CheckLatest(h) \/ OfferAgain(h)
      PROVE  UNCHANGED Store!vars
  BY <1>5, <1>1 DEF Receive, CheckLatest, OfferAgain
<1>6. CASE Refresh \/ Wake \/ Tick \/ Analyse \/ Rest \/ UNCHANGED vars
  BY <1>6, <1>1 DEF Refresh, Wake, Tick, Analyse, Rest, vars
<1>7. CASE Restart
  BY <1>7 DEF Restart
<1> QED BY <1>2, <1>3, <1>4, <1>5, <1>6, <1>7 DEF Next, CycleStep, HandlerStep

\* The server is a user of the store as RankingStore allows: whatever overlaps,
\* fails or is killed, a run is saved once, under an id no row has yet.
THEOREM ServerImplementsStore == Spec => ImplementsStore
<1>1. Init => Store!Init
  BY DEF Init
<1> QED BY <1>1, StoreStep, ServerInductive, PTL DEF Spec, Store!Spec, ImplementsStore

\* There is room in accepted for whoever is about to enqueue.
LEMMA OfferStep ==
    ASSUME ServerInv, NEW a \in Actors, AI!Enqueue(mine[a]),
           pc[a] = "enqueue" \/ (a \in Handlers /\ pc[a] = "again")
    PROVE  AI!Offer
<1>1. mine[a] \in RunResult /\ mine[a] \in Held
  BY HeldRuns DEF ServerInv, Own
<1>2. AI!SameRunSameId(mine[a])
  BY <1>1 DEF ServerInv, OneRunPerId, Held, AI!SameRunSameId
<1>3. Cardinality(ToOffer) + Cardinality(ToOfferAgain) >= 1
  <2>1. a \in ToOffer \/ a \in ToOfferAgain
    BY DEF ToOffer, ToOfferAgain, ServerInv, Shapes
  <2>2. Cardinality(ToOffer) # 0 \/ Cardinality(ToOfferAgain) # 0
    BY <2>1, FiniteCounts, FS_EmptySet
  <2> QED BY <2>2, FiniteCounts
<1>4. Len(accepted) < 2 * MaxCycles
  <2>1. Len(accepted) \in Nat /\ cycles \in 1 .. MaxCycles /\ MaxCycles \in Nat
    BY Constants, SMT DEF ServerInv, Shapes
  <2> QED BY <1>3, <2>1, FiniteCounts DEF ServerInv, Bounded
<1> QED BY <1>1, <1>2, <1>4, SameRuns DEF AI!Offer

LEMMA PipelineStep == ServerInv /\ [Next]_vars => [AI!Next]_AI!vars
<1> SUFFICES ASSUME ServerInv, [Next]_vars PROVE [AI!Next]_AI!vars
  OBVIOUS
<1> USE Constants DEF AI!Next
<1>1. ASSUME UNCHANGED aiVars PROVE UNCHANGED AI!vars
  BY <1>1 DEF aiVars, AI!vars, AI!worker, AI!agent
<1>2. ASSUME NEW a \in Actors, OfferToAI(a) PROVE AI!Next
  BY <1>2, OfferStep DEF OfferToAI
<1>3. ASSUME NEW h \in Handlers, OfferAgain(h) PROVE AI!Next
  BY <1>3, OfferStep DEF OfferAgain
<1>4. ASSUME NEW a \in Actors,
             \/ ReadClock(a) \/ RankUniverse(a) \/ Dispatch(a)
             \/ BeginSave(a) \/ SaveResult(a) \/ SaveOK(a) \/ SaveFails(a)
      PROVE  UNCHANGED AI!vars
  BY <1>4, <1>1 DEF ReadClock, RankUniverse, Dispatch, BeginSave, SaveResult, SaveOK, SaveFails
<1>5. ASSUME NEW h \in Handlers, Receive(h) \/ CheckLatest(h) PROVE UNCHANGED AI!vars
  BY <1>5, <1>1 DEF Receive, CheckLatest
<1>6. CASE Refresh \/ Wake \/ Tick \/ Rest \/ UNCHANGED vars
  BY <1>6, <1>1 DEF Refresh, Wake, Tick, Rest, vars
<1>7. CASE Analyse
  BY <1>7 DEF Analyse
<1>8. CASE Restart
  BY <1>8 DEF Restart
<1> QED BY <1>2, <1>3, <1>4, <1>5, <1>6, <1>7, <1>8 DEF Next, CycleStep, HandlerStep

\* The server is a user of the AI worker as AIPipeline allows: cycles and
\* POST /admin/ai/run between them never enqueue two runs under one id.
THEOREM ServerImplementsPipeline == Spec => ImplementsPipeline
<1>1. Init => AI!Init
  BY DEF Init
<1> QED BY <1>1, PipelineStep, ServerInductive, PTL DEF Spec, AI!Spec, ImplementsPipeline
-----------------------------------------------------------------------------
\* What the AI worker was given and digests were sent for can be found in the
\* history of runs or failed to be saved: run saves first and hands on after.
THEOREM ServerEffectsFollowSave == Spec => []EffectsFollowSave
<1>1. ServerInv => EffectsFollowSave
  BY DEF ServerInv, Handed
<1> QED BY <1>1, ServerInductive, PTL

\* A request that reads starts a cycle only if the one that preceded listening
\* could not be saved, however many requests arrive together.
THEOREM ServerReadsRankOnlyAfterFailedBoot == Spec => []ReadsRankOnlyAfterFailedBoot
<1>1. ServerInv => ReadsRankOnlyAfterFailedBoot
  BY DEF ServerInv, Booted
<1> QED BY <1>1, ServerInductive, PTL
-----------------------------------------------------------------------------
\* The theorems of the store and of the pipeline, for the server's instances.
SP == INSTANCE RankingStoreProofs WITH Callers <- Actors
AP == INSTANCE AIPipelineProofs WITH MaxEnqueues <- 2 * MaxCycles

LEMMA SameStoreInit == Store!Init <=> SP!Init
BY DEF Store!Init, SP!Init, Store!NoRun, SP!NoRun

LEMMA SameStoreStep == [Store!Next]_Store!vars <=> [SP!Next]_SP!vars
BY DEF Store!Next, SP!Next, Store!vars, SP!vars, Store!tables, SP!tables,
       Store!cache, SP!cache, Store!session, SP!session, Store!BeginSave, SP!BeginSave,
       Store!RefuseRun, SP!RefuseRun, Store!SaveStep, SP!SaveStep, Store!Restart, SP!Restart,
       Store!InsertRun, SP!InsertRun, Store!InsertResult, SP!InsertResult,
       Store!AbandonSave, SP!AbandonSave, Store!Publish, SP!Publish,
       Store!Release, SP!Release, Store!Fresh, SP!Fresh, Store!RunRow, SP!RunRow,
       Store!Count, SP!Count, Store!RunResult, SP!RunResult, Store!NoRun, SP!NoRun,
       Store!LastN, SP!LastN

LEMMA SamePipelineInit == AI!Init <=> AP!Init
BY DEF AI!Init, AP!Init, AI!NoRun, AP!NoRun, AI!NoEntry, AP!NoEntry, AI!NoAnalysis, AP!NoAnalysis

LEMMA SamePipelineStep == [AI!Next]_AI!vars <=> [AP!Next]_AP!vars
BY DEF AI!Next, AP!Next, AI!vars, AP!vars, AI!worker, AP!worker, AI!agent, AP!agent,
       AI!Offer, AP!Offer, AI!WorkerStep, AP!WorkerStep, AI!Restart, AP!Restart,
       AI!Take, AP!Take, AI!AnalyseOK, AP!AnalyseOK, AI!AnalyseRejected, AP!AnalyseRejected,
       AI!Finish, AP!Finish, AI!HasCandidate, AP!HasCandidate, AI!Ticker, AP!Ticker,
       AI!Entry, AP!Entry, AI!NoEntry, AP!NoEntry, AI!NoAnalysis, AP!NoAnalysis,
       AI!Enqueue, AP!Enqueue, AI!Accept, AP!Accept, AI!Drop, AP!Drop, AI!Full, AP!Full,
       AI!SameRunSameId, AP!SameRunSameId, AI!Count, AP!Count,
       AI!RunResult, AP!RunResult, AI!NoRun, AP!NoRun

LEMMA StoreHere == Spec => SP!Spec
<1>1. Store!Spec => SP!Spec
  BY SameStoreInit, SameStoreStep, PTL DEF Store!Spec, SP!Spec
<1> QED BY <1>1, ServerImplementsStore DEF ImplementsStore

LEMMA StoreTypedHere == Spec => []Store!TypeOK
<1>1. Spec => SP!Spec
  BY StoreHere
<1>2. SP!Spec => []SP!TypeOK
  BY SP!StoreTyped, ServerAssumption, RunDataAssumption
<1>3. Store!TypeOK <=> SP!TypeOK
  BY DEF Store!TypeOK, SP!TypeOK, Store!RunResult, SP!RunResult, Store!RunOrNone, SP!RunOrNone,
         Store!NoRun, SP!NoRun, Store!Count, SP!Count
<1> QED BY <1>1, <1>2, <1>3, PTL

\* Whatever run a reader of the whole server is shown, its rows are on disk:
\* overlapping cycles keep to the store's rules, so its theorem applies.
THEOREM ServerVisibleIsDurable == Spec => []Store!VisibleIsDurable
<1>1. Spec => SP!Spec
  BY StoreHere
<1>2. SP!Spec => []SP!VisibleIsDurable
  BY SP!StoreVisibleIsDurable, ServerAssumption, RunDataAssumption
<1>3. Store!VisibleIsDurable <=> SP!VisibleIsDurable
  BY DEF Store!VisibleIsDurable, SP!VisibleIsDurable, Store!HasLatest, SP!HasLatest,
         Store!Persisted, SP!Persisted, Store!RunRow, SP!RunRow, Store!Count, SP!Count,
         Store!ResultsWritten, SP!ResultsWritten
<1> QED BY <1>1, <1>2, <1>3, PTL

LEMMA PipelineHere == Spec => AP!Spec
<1>1. AI!Spec => AP!Spec
  BY SamePipelineInit, SamePipelineStep, PTL DEF AI!Spec, AP!Spec
<1> QED BY <1>1, ServerImplementsPipeline DEF ImplementsPipeline

LEMMA PipelineTypedHere == Spec => []AI!TypeOK
<1>1. Spec => AP!Spec
  BY PipelineHere
<1>2. AP!Spec => []AP!TypeOK
  BY AP!PipelineTyped, ServerAssumption, RunDataAssumption
<1>3. AI!TypeOK <=> AP!TypeOK
  BY DEF AI!TypeOK, AP!TypeOK, AI!RunResult, AP!RunResult, AI!RunOrNone, AP!RunOrNone,
         AI!NoRun, AP!NoRun, AI!Count, AP!Count, AI!NoAnalysis, AP!NoAnalysis
<1> QED BY <1>1, <1>2, <1>3, PTL

\* Every variable of the composed server keeps its type, the store's and the
\* worker's because the server uses them as their own specifications allow.
THEOREM ServerTyped == Spec => []TypeOK
<1>1. ServerInv /\ Store!TypeOK /\ AI!TypeOK => TypeOK
  <2> SUFFICES ASSUME ServerInv, Store!TypeOK, AI!TypeOK PROVE TypeOK
    OBVIOUS
  <2>1. drawn \in 0 .. MaxCycles
    BY FiniteCounts, Constants DEF ServerInv, Shapes, Bounded
  <2> QED BY <2>1 DEF TypeOK, ServerInv, Shapes, Handed
<1> QED BY <1>1, StoreTypedHere, PipelineTypedHere, ServerInductive, PTL

\* A dashboard never explains a stock of the run it shows by a run that was
\* given to the AI worker before it: the worker's own theorem, carried over to
\* the runs shown because no two runs share an id.
THEOREM ServerRowsAreNotExplainedByOlderRuns == Spec => []RowsAreNotExplainedByOlderRuns
<1>1. Spec => AP!Spec
  BY PipelineHere
<1>2. AP!Spec => []AP!ShowsNothingOlder
  BY AP!PipelineShowsNothingOlder, ServerAssumption, RunDataAssumption
<1>3. ServerInv /\ AP!ShowsNothingOlder => RowsAreNotExplainedByOlderRuns
  <2> SUFFICES ASSUME ServerInv, AP!ShowsNothingOlder,
                      NEW k \in DOMAIN published, NEW t \in byRun[published[k].id].tickers
               PROVE  \E i, j \in DOMAIN accepted :
                         /\ i <= j
                         /\ accepted[i] = published[k] /\ accepted[j].id = ExplainedBy(t)
    BY DEF RowsAreNotExplainedByOlderRuns
  <2>1. published[k] \in Held /\ published[k].id \in RunIds
    BY HeldRuns, RunFields DEF ServerInv, Held
  <2>2. PICK i, j \in DOMAIN accepted :
           i <= j /\ accepted[i].id = published[k].id /\ accepted[j].id = byTicker[t]
    BY <2>1 DEF AP!ShowsNothingOlder
  <2>3. accepted[i] = published[k]
    BY <2>1, <2>2 DEF ServerInv, OneRunPerId, Held
  <2> QED BY <2>2, <2>3 DEF ExplainedBy
<1> QED BY <1>1, <1>2, <1>3, ServerInductive, PTL

-----------------------------------------------------------------------------
(***************************************************************************)
(* What the users of the whole server may rely on: the promises of store   *)
(* and worker, and what follows from the two together.                     *)
(***************************************************************************)
LEMMA SameWorker ==
    /\ AI!NoRunLost <=> AP!NoRunLost
    /\ AI!AnalysisMatchesRun <=> AP!AnalysisMatchesRun
    /\ AI!TickerFollowsQueue <=> AP!TickerFollowsQueue
<1>1. AI!NoRunLost <=> AP!NoRunLost
  BY DEF AI!NoRunLost, AP!NoRunLost, AI!Current, AP!Current, AI!NoRun, AP!NoRun
<1>2. AI!AnalysisMatchesRun <=> AP!AnalysisMatchesRun
  BY DEF AI!AnalysisMatchesRun, AP!AnalysisMatchesRun, AI!Stocks, AP!Stocks,
         AI!NoAnalysis, AP!NoAnalysis
<1>3. AI!TickerFollowsQueue <=> AP!TickerFollowsQueue
  BY DEF AI!TickerFollowsQueue, AP!TickerFollowsQueue, AI!Ranks, AP!Ranks, AI!Reached, AP!Reached,
         AI!Passed, AP!Passed, AI!Kept, AP!Kept, AI!Stocks, AP!Stocks,
         AI!NoAnalysis, AP!NoAnalysis
<1> QED BY <1>1, <1>2, <1>3

\* However cycles overlap and whatever is enqueued again: the worker loses and
\* reorders no accepted run, analyses only what a run ranked, and shows each
\* stock's analysis of the last run in its queue that kept one.
THEOREM ServerWorkerKeepsOrder ==
    Spec => [](AI!NoRunLost /\ AI!AnalysisMatchesRun /\ AI!TickerFollowsQueue)
<1>1. AP!Spec => []AP!NoRunLost /\ []AP!AnalysisMatchesRun /\ []AP!TickerFollowsQueue
  BY AP!PipelineLosesNoRun, AP!PipelineAnalysisMatchesRun, AP!PipelineTickerFollowsQueue,
     ServerAssumption, RunDataAssumption
<1> QED BY <1>1, SameWorker, PipelineHere, PTL

\* The analysis a stock is shown with names a run that readers of the store were
\* shown and that ranked this stock, or one whose Save returned an error.
AnalysesAreOfKnownRuns ==
    \A t \in Tickers : byTicker[t] # AI!NoAnalysis =>
        \/ byTicker[t] \in failed
        \/ \E k \in DOMAIN published :
              published[k].id = byTicker[t] /\ t \in AI!Stocks(published[k])

\* No analysis comes from nowhere: run saves before it enqueues, ids of two
\* runs differ, and the worker analyses the stocks of the run it names.
THEOREM ServerExplainsKnownRuns == Spec => []AnalysesAreOfKnownRuns
<1>1. ServerInv /\ EffectsFollowSave /\ AI!AnalysisMatchesRun => AnalysesAreOfKnownRuns
  <2> SUFFICES ASSUME ServerInv, EffectsFollowSave, AI!AnalysisMatchesRun,
                      NEW t \in Tickers, byTicker[t] # AI!NoAnalysis, byTicker[t] \notin failed
               PROVE  \E k \in DOMAIN published :
                         published[k].id = byTicker[t] /\ t \in AI!Stocks(published[k])
    BY DEF AnalysesAreOfKnownRuns
  <2>1. PICK i \in DOMAIN accepted :
           accepted[i].id = byTicker[t] /\ t \in AI!Stocks(accepted[i])
    BY DEF AI!AnalysisMatchesRun
  <2>2. PICK k \in DOMAIN published : published[k].id = accepted[i].id
    BY <2>1 DEF EffectsFollowSave, Listed
  <2>3. published[k] = accepted[i]
    BY <2>2 DEF ServerInv, OneRunPerId, Held
  <2> QED BY <2>1, <2>2, <2>3
<1> QED BY <1>1, ServerInductive, ServerEffectsFollowSave, ServerWorkerKeepsOrder, PTL

\* The readers of the whole server have a RunFeed before them: overlapping
\* cycles, requests and restarts show each run once, whole, and archived.
THEOREM ServerImplementsFeed == Spec => Store!ImplementsFeed
<1>1. SP!Spec => SP!ImplementsFeed
  BY SP!StoreImplementsFeed, ServerAssumption, RunDataAssumption
<1>2. SP!Feed!Init => Store!Feed!Init
  BY DEF SP!Feed!Init, Store!Feed!Init
<1>3. [SP!Feed!Next]_<<runRows, resultRows, published>>
         => [Store!Feed!Next]_<<runRows, resultRows, published>>
  BY DEF SP!Feed!Next, Store!Feed!Next, SP!Feed!Archive, Store!Feed!Archive,
         SP!Feed!Show, Store!Feed!Show, SP!Feed!Restart, Store!Feed!Restart,
         SP!Feed!Archived, Store!Feed!Archived, SP!Feed!Shown, Store!Feed!Shown,
         SP!Feed!RunResult, Store!Feed!RunResult, SP!Feed!Count, Store!Feed!Count
<1>4. SP!ImplementsFeed => Store!ImplementsFeed
  BY <1>2, <1>3, PTL DEF SP!ImplementsFeed, Store!ImplementsFeed, SP!Feed!Spec, Store!Feed!Spec
<1> QED BY <1>1, <1>4, StoreHere

\* Whichever cycles saved them: the whole server's ListRuns gives the newest of
\* the runs shown since it started, newest first, and Latest is the first.
THEOREM ServerShowsNewestRuns == Spec => []Store!HistoryIsNewestRuns
<1>1. SP!Spec => []SP!HistoryIsNewestRuns
  BY SP!StoreHistoryIsNewestRuns, ServerAssumption, RunDataAssumption
<1>2. SP!HistoryIsNewestRuns <=> Store!HistoryIsNewestRuns
  BY DEF SP!HistoryIsNewestRuns, Store!HistoryIsNewestRuns, SP!ListRuns, Store!ListRuns,
         SP!HasLatest, Store!HasLatest, SP!Lesser, Store!Lesser
<1> QED BY <1>1, <1>2, StoreHere, PTL
=============================================================================
