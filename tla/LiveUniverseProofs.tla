------------------------- MODULE LiveUniverseProofs -------------------------
(***************************************************************************)
(* Proofs about LiveUniverse, for any symbols, any number of readers and   *)
(* any limits, attempts and page sizes.                                    *)
(*                                                                         *)
(* TypeOK needs that a fetcher about to read a row finds one (HitHasRow).  *)
(* UniverseWithinLimit counts the symbol being looked up as well (Room).   *)
(* That a refresh keeps the cached stocks follows from two facts: nobody   *)
(* has spoiled the row of an expected stock (ExpectedAreCached), and each  *)
(* is collected, being looked up or still to come (ExpectedAreKept).       *)
(***************************************************************************)
EXTENDS LiveUniverse, SequenceTheorems, TLAPS

HitHasRow == \A f \in Fetchers : pc[f] = "hit" => HasRow(sym[f])

Looking == {"check", "hit", "ask", "fallback"}

Room ==
    /\ Len(live) <= Limit
    /\ pc[Refresher] = "list" => snaps = <<>>
    /\ pc[Refresher] \in {"idle", "next"} => Len(snaps) + Len(symbols) <= Limit
    /\ pc[Refresher] \in Looking => Len(snaps) + Len(symbols) + 1 <= Limit

ExpectedAreCached == \A s \in expected : HasRow(s) /\ cache[s].snap = s

ExpectedAreKept ==
    /\ pc[Refresher] = "next" => expected \subseteq ToSet(snaps) \cup ToSet(symbols)
    /\ pc[Refresher] \in Looking =>
           expected \subseteq ToSet(snaps) \cup ToSet(symbols) \cup {sym[Refresher]}

Typed == TypeOK /\ HitHasRow
-----------------------------------------------------------------------------
LEMMA Members ==
    ASSUME NEW S, NEW s \in Seq(S), NEW t \in Seq(S)
    PROVE  ToSet(s \o t) = ToSet(s) \cup ToSet(t)
<1>1. s \o t \in Seq(S) /\ Len(s \o t) = Len(s) + Len(t)
  BY SMT
<1>2. ToSet(s \o t) \subseteq ToSet(s) \cup ToSet(t)
  BY <1>1, SMT DEF ToSet
<1>3. ASSUME NEW i \in DOMAIN s PROVE s[i] \in ToSet(s \o t)
  BY <1>1, <1>3, SMT DEF ToSet
<1>4. ASSUME NEW i \in DOMAIN t PROVE t[i] \in ToSet(s \o t)
  <2>1. Len(s) + i \in DOMAIN (s \o t) /\ (s \o t)[Len(s) + i] = t[i]
    BY <1>1, <1>4, SMT
  <2> QED BY <2>1 DEF ToSet
<1> QED BY <1>2, <1>3, <1>4 DEF ToSet

LEMMA MembersOfHeadAndTail ==
    ASSUME NEW S, NEW s \in Seq(S), s # <<>>
    PROVE  /\ Head(s) \in S /\ Tail(s) \in Seq(S)
           /\ Len(Tail(s)) = Len(s) - 1
           /\ ToSet(s) \subseteq {Head(s)} \cup ToSet(Tail(s))
<1>1. Head(s) \in S /\ Tail(s) \in Seq(S) /\ Len(Tail(s)) = Len(s) - 1
  BY SMT
<1>2. ASSUME NEW i \in DOMAIN s, i # 1 PROVE i - 1 \in DOMAIN Tail(s) /\ Tail(s)[i - 1] = s[i]
  BY <1>1, <1>2, SMT
<1>3. ASSUME NEW i \in DOMAIN s PROVE s[i] \in {Head(s)} \cup ToSet(Tail(s))
  <2>1. CASE i = 1
    BY <2>1
  <2>2. CASE i # 1
    BY <2>2, <1>2, <1>3 DEF ToSet
  <2> QED BY <2>1, <2>2
<1> QED BY <1>1, <1>3 DEF ToSet

LEMMA One ==
    ASSUME NEW S, NEW x \in S
    PROVE  <<x>> \in Seq(S) /\ Len(<<x>>) = 1 /\ ToSet(<<x>>) = {x}
BY SMT DEF ToSet

LEMMA None ==
    ASSUME NEW S
    PROVE  <<>> \in Seq(S) /\ Len(<<>>) = 0 /\ ToSet(<<>>) = {}
BY SMT DEF ToSet

LEMMA Cut ==
    ASSUME NEW S, NEW s \in Seq(S), NEW n \in Nat
    PROVE  FirstN(s, n) \in Seq(S) /\ Len(FirstN(s, n)) <= n
<1>1. Len(s) \in Nat
  BY SMT
<1>2. CASE Len(s) < n
  BY <1>1, <1>2, SMT DEF FirstN
<1>3. CASE ~(Len(s) < n)
  BY <1>1, <1>3, SMT DEF FirstN
<1> QED BY <1>2, <1>3

LEMMA Steps ==
    ASSUME TypeOK, NEW f \in Fetchers, NEW from, NEW to, Step(f, from, to),
           to \in {"idle", "list", "next", "check", "hit", "ask", "fallback"}
    PROVE  /\ pc[f] = from /\ pc'[f] = to
           /\ \A g \in Fetchers \ {f} : pc'[g] = pc[g]
           /\ pc' \in [Fetchers -> {"idle", "list", "next", "check", "hit", "ask", "fallback"}]
BY DEF TypeOK, Step

\* What the end of a lookup does to the fetchers and the snapshots collected.
LEMMA Returns ==
    ASSUME TypeOK, NEW f \in Fetchers, NEW from, NEW found \in Seq(Snapshots),
           from \in Looking, Return(f, from, found)
    PROVE  /\ pc[f] = from
           /\ pc'[f] = IF f = Refresher THEN "next" ELSE "idle"
           /\ \A g \in Fetchers \ {f} : pc'[g] = pc[g] /\ sym'[g] = sym[g]
           /\ sym'[f] = NoSymbol
           /\ snaps' \in Seq(Snapshots)
           /\ pc' \in [Fetchers -> {"idle", "list", "next", "check", "hit", "ask", "fallback"}]
           /\ sym' \in [Fetchers -> Snapshots]
           /\ f # Refresher => snaps' = snaps /\ pc'[Refresher] = pc[Refresher]
                                /\ sym'[Refresher] = sym[Refresher]
           /\ f = Refresher => snaps' = snaps \o found
<1>1. Refresher \in Fetchers /\ NoSymbol \in Snapshots
  BY DEF Fetchers, Snapshots
<1>2. snaps' \in Seq(Snapshots)
  <2>1. snaps \o found \in Seq(Snapshots)
    BY SMT DEF TypeOK
  <2> QED BY <2>1 DEF Return, TypeOK
<1> QED BY <1>1, <1>2 DEF Return, Step, TypeOK
-----------------------------------------------------------------------------
LEMMA Constants ==
    /\ Refresher \in Fetchers /\ NoSymbol \in Snapshots /\ Symbols \subseteq Snapshots
    /\ \A r \in Readers : r \in Fetchers /\ r # Refresher
    /\ \A s \in Snapshots : s # NoSymbol => s \in Symbols
    /\ Limit \in Nat \ {0} /\ MaxTry \in Nat \ {0} /\ MaxHour \in Nat /\ MaxRows \in Nat
BY LiveUniverseAssumption DEF Fetchers, Snapshots

LEMMA FoundInFallBack ==
    ASSUME TypeOK, NEW f \in Fetchers, FallBack(f)
    PROVE  \E found \in Seq(Snapshots) : Return(f, "fallback", found) /\ Len(found) <= 1
<1>1. Len(<<>>) <= 1 /\ \A x : Len(<<x>>) <= 1
  BY SMT
<1>2. CASE HasRow(sym[f]) /\ Return(f, "fallback", <<cache[sym[f]].snap>>)
  <2>1. cache[sym[f]].snap \in Snapshots
    BY <1>2, Constants DEF Return, Step, TypeOK, HasRow, Rows
  <2> QED BY <1>1, <1>2, <2>1, One
<1>3. CASE Return(f, "fallback", <<>>)
  BY <1>1, <1>3, None
<1> QED BY <1>2, <1>3 DEF FallBack

\* What PageArrives does, with the symbols it has then found.
LEMMA Pages ==
    ASSUME TypeOK, PageArrives
    PROVE  \E found \in Seq(Symbols) :
             /\ pc[Refresher] = "list" /\ Answered(Refresher)
             /\ \/ EndListing(found)
                \/ symbols' = found /\ offset' \in 0 .. MaxRows /\ UNCHANGED <<pc, expected>>
             /\ UNCHANGED <<hour, cache, live, sym, snaps, listening>>
<1>1. PICK n \in 0 .. PageSize : \E k \in 0 .. n : \E named \in [1 .. k -> Symbols] :
        /\ pc[Refresher] = "list" /\ offset + n <= MaxRows /\ Answered(Refresher)
        /\ \/ EndListing(symbols \o named)
           \/ symbols' = symbols \o named /\ offset' = offset + n /\ UNCHANGED <<pc, expected>>
        /\ UNCHANGED <<hour, cache, live, sym, snaps, listening>>
  BY DEF PageArrives
<1>2. PICK k \in 0 .. n : \E named \in [1 .. k -> Symbols] :
        /\ pc[Refresher] = "list" /\ offset + n <= MaxRows /\ Answered(Refresher)
        /\ \/ EndListing(symbols \o named)
           \/ symbols' = symbols \o named /\ offset' = offset + n /\ UNCHANGED <<pc, expected>>
        /\ UNCHANGED <<hour, cache, live, sym, snaps, listening>>
  BY <1>1
<1>3. n \in Nat /\ k \in Nat
  BY LiveUniverseAssumption, SMT
<1>4. \A named \in [1 .. k -> Symbols] : symbols \o named \in Seq(Symbols)
  <2>1. ASSUME NEW named \in [1 .. k -> Symbols] PROVE symbols \o named \in Seq(Symbols)
    <3>1. named \in Seq(Symbols)
      BY <1>3, SMT
    <3> QED BY <3>1, SMT DEF TypeOK
  <2> QED BY <2>1
<1>5. offset + n <= MaxRows => offset + n \in 0 .. MaxRows
  BY <1>3, Constants, SMT DEF TypeOK
<1> QED BY <1>2, <1>4, <1>5

LEMMA TypedInit == Init => Typed
<1> SUFFICES ASSUME Init PROVE Typed
  OBVIOUS
<1>1. cache \in [Symbols -> Rows \cup {NoRow}]
  <2>1. PICK cached \in SUBSET Symbols :
            cache = [s \in Symbols |-> IF s \in cached THEN [at |-> 0, snap |-> s] ELSE NoRow]
    BY DEF Init
  <2>2. ASSUME NEW s \in Symbols PROVE [at |-> 0, snap |-> s] \in Rows
    BY <2>2, Constants, SMT DEF Rows
  <2> QED BY <2>1, <2>2
<1>2. /\ symbols \in Seq(Symbols) /\ snaps \in Seq(Snapshots) /\ live \in Seq(Snapshots)
      /\ expected \subseteq Symbols /\ listening \in BOOLEAN
  BY None DEF Init
<1>3. hour \in 0 .. MaxHour /\ offset \in 0 .. MaxRows /\ attempt \in [Fetchers -> 0 .. MaxTry - 1]
  BY Constants, SMT DEF Init
<1> QED BY <1>1, <1>2, <1>3, Constants DEF Init, Typed, TypeOK, HitHasRow

LEMMA TypedStep == Typed /\ [Next]_vars => Typed'
<1> SUFFICES ASSUME Typed, [Next]_vars PROVE Typed'
  OBVIOUS
<1> USE Constants
<1>1. TypeOK /\ HitHasRow
  BY DEF Typed
<1>2. CASE BeginRefresh
  <2>1. symbols' \in Seq(Symbols) /\ snaps' \in Seq(Snapshots) /\ offset' \in 0 .. MaxRows
    BY <1>2, None, SMT DEF BeginRefresh
  <2>2. /\ pc[Refresher] = "idle" /\ pc'[Refresher] = "list"
        /\ \A g \in Fetchers \ {Refresher} : pc'[g] = pc[g]
        /\ pc' \in [Fetchers -> {"idle", "list", "next", "check", "hit", "ask", "fallback"}]
    BY <1>1, <1>2, Steps DEF BeginRefresh
  <2> QED BY <1>1, <1>2, <2>1, <2>2 DEF BeginRefresh, Typed, TypeOK, HitHasRow, HasRow
<1>3. ASSUME NEW found \in Seq(Symbols), EndListing(found)
      PROVE  /\ symbols' \in Seq(Symbols) /\ offset' \in 0 .. MaxRows /\ expected' \subseteq Symbols
             /\ pc[Refresher] = "list" /\ pc'[Refresher] = "next"
             /\ \A g \in Fetchers \ {Refresher} : pc'[g] = pc[g]
             /\ pc' \in [Fetchers -> {"idle", "list", "next", "check", "hit", "ask", "fallback"}]
  <2>1. symbols' \in Seq(Symbols)
    BY <1>3, Cut DEF EndListing
  <2>2. expected' \subseteq Symbols /\ offset' \in 0 .. MaxRows
    BY <1>1, <1>3, SMT DEF EndListing, TypeOK
  <2> QED BY <1>1, <1>3, <2>1, <2>2, Steps DEF EndListing
<1>4. CASE ListingFails
  <2>1. EndListing(symbols) /\ symbols \in Seq(Symbols) /\ attempt' \in [Fetchers -> 0 .. MaxTry - 1]
    BY <1>1, <1>4, SMT DEF ListingFails, Answered, TypeOK
  <2> QED BY <1>1, <1>4, <1>3, <2>1 DEF ListingFails, Typed, TypeOK, HitHasRow, HasRow
<1>5. CASE PageArrives
  <2>1. PICK found \in Seq(Symbols) :
          /\ pc[Refresher] = "list" /\ Answered(Refresher)
          /\ \/ EndListing(found)
             \/ symbols' = found /\ offset' \in 0 .. MaxRows /\ UNCHANGED <<pc, expected>>
          /\ UNCHANGED <<hour, cache, live, sym, snaps, listening>>
    BY <1>1, <1>5, Pages
  <2>2. attempt' \in [Fetchers -> 0 .. MaxTry - 1]
    BY <1>1, <2>1, SMT DEF Answered, TypeOK
  <2>3. CASE EndListing(found)
    BY <1>1, <1>3, <2>1, <2>2, <2>3 DEF Typed, TypeOK, HitHasRow, HasRow
  <2>4. CASE symbols' = found /\ offset' \in 0 .. MaxRows /\ UNCHANGED <<pc, expected>>
    BY <1>1, <2>1, <2>2, <2>4 DEF Typed, TypeOK, HitHasRow, HasRow
  <2> QED BY <2>1, <2>3, <2>4
<1>6. CASE NextSymbol
  <2>1. Head(symbols) \in Symbols /\ Tail(symbols) \in Seq(Symbols)
    BY <1>1, <1>6, MembersOfHeadAndTail DEF NextSymbol, TypeOK
  <2>2. /\ pc[Refresher] = "next" /\ pc'[Refresher] = "check"
        /\ \A g \in Fetchers \ {Refresher} : pc'[g] = pc[g]
        /\ pc' \in [Fetchers -> {"idle", "list", "next", "check", "hit", "ask", "fallback"}]
    BY <1>1, <1>6, Steps DEF NextSymbol
  <2>3. /\ sym' \in [Fetchers -> Snapshots] /\ sym'[Refresher] \in Symbols
        /\ \A g \in Fetchers \ {Refresher} : sym'[g] = sym[g]
    BY <1>1, <1>6, <2>1 DEF NextSymbol, TypeOK
  <2> QED BY <1>1, <1>6, <2>1, <2>2, <2>3, LiveUniverseAssumption
          DEF NextSymbol, Typed, TypeOK, HitHasRow, HasRow
<1>7. CASE Publish
  <2>1. /\ pc[Refresher] = "next" /\ pc'[Refresher] = "idle"
        /\ \A g \in Fetchers \ {Refresher} : pc'[g] = pc[g]
        /\ pc' \in [Fetchers -> {"idle", "list", "next", "check", "hit", "ask", "fallback"}]
    BY <1>1, <1>7, Steps DEF Publish
  <2>2. snaps' \in Seq(Snapshots)
    BY <1>7, None DEF Publish
  <2> QED BY <1>1, <1>7, <2>1, <2>2 DEF Publish, Typed, TypeOK, HitHasRow, HasRow
<1>8. CASE Tick
  <2>1. hour' \in 0 .. MaxHour
    BY <1>1, <1>8, SMT DEF Tick, TypeOK
  <2> QED BY <1>1, <1>8, <2>1 DEF Tick, Typed, TypeOK, HitHasRow, HasRow
<1>9. CASE Restart
  <2>1. /\ live' \in Seq(Snapshots) /\ symbols' \in Seq(Symbols) /\ snaps' \in Seq(Snapshots)
        /\ offset' \in 0 .. MaxRows /\ attempt' \in [Fetchers -> 0 .. MaxTry - 1]
    BY <1>9, None, SMT DEF Restart
  <2> QED BY <1>1, <1>9, <2>1 DEF Restart, Typed, TypeOK, HitHasRow, HasRow
<1>10. ASSUME NEW r \in Readers, AskForStock(r) PROVE Typed'
  <2>1. PICK s \in Symbols : sym' = [sym EXCEPT ![r] = s]
    BY <1>10 DEF AskForStock
  <2>2. /\ pc[r] = "idle" /\ pc'[r] = "check"
        /\ \A g \in Fetchers \ {r} : pc'[g] = pc[g]
        /\ pc' \in [Fetchers -> {"idle", "list", "next", "check", "hit", "ask", "fallback"}]
    BY <1>1, <1>10, Steps DEF AskForStock
  <2>3. /\ sym' \in [Fetchers -> Snapshots] /\ sym'[r] = s /\ s # NoSymbol
        /\ \A g \in Fetchers \ {r} : sym'[g] = sym[g]
    BY <1>1, <2>1, LiveUniverseAssumption DEF TypeOK
  <2> QED BY <1>1, <1>10, <2>2, <2>3 DEF AskForStock, Typed, TypeOK, HitHasRow, HasRow
<1>11. ASSUME NEW f \in Fetchers, Lookup(f) PROVE Typed'
  <2>1. CASE Again(f)
    <3>1. attempt' \in [Fetchers -> 0 .. MaxTry - 1]
      BY <1>1, <2>1, SMT DEF Again, Verdict, TypeOK
    <3> QED BY <1>1, <2>1, <3>1 DEF Again, Typed, TypeOK, HitHasRow, HasRow
  <2>2. CASE CheckFresh(f)
    <3>1. /\ pc[f] = "check" /\ pc'[f] \in {"hit", "ask"}
          /\ \A g \in Fetchers \ {f} : pc'[g] = pc[g]
          /\ pc' \in [Fetchers -> {"idle", "list", "next", "check", "hit", "ask", "fallback"}]
          /\ pc'[f] = "hit" => HasRow(sym[f])
      BY <1>1, <2>2, Steps DEF CheckFresh, Fresh, HasRow
    <3> QED BY <1>1, <2>2, <3>1 DEF CheckFresh, Typed, TypeOK, HitHasRow, HasRow
  <2>3. CASE ReadHit(f)
    <3>1. CASE Return(f, "hit", <<cache[sym[f]].snap>>)
      <4>1. pc[f] = "hit" /\ cache[sym[f]].snap \in Snapshots
        BY <1>1, <3>1 DEF Return, Step, TypeOK, HitHasRow, HasRow, Rows
      <4>2. <<cache[sym[f]].snap>> \in Seq(Snapshots)
        BY <4>1, One
      <4> QED BY <1>1, <2>3, <3>1, <4>2, Returns
              DEF ReadHit, Typed, TypeOK, HitHasRow, HasRow, Looking
    <3>2. CASE Step(f, "hit", "ask") /\ UNCHANGED <<snaps, sym>>
      BY <1>1, <2>3, <3>2, Steps DEF ReadHit, Typed, TypeOK, HitHasRow, HasRow
    <3> QED BY <2>3, <3>1, <3>2 DEF ReadHit
  <2>4. CASE AskFails(f)
    <3>1. attempt' \in [Fetchers -> 0 .. MaxTry - 1]
      BY <1>1, <2>4, SMT DEF AskFails, Answered, TypeOK
    <3>2. /\ pc[f] = "ask" /\ pc'[f] = "fallback"
          /\ \A g \in Fetchers \ {f} : pc'[g] = pc[g]
          /\ pc' \in [Fetchers -> {"idle", "list", "next", "check", "hit", "ask", "fallback"}]
      BY <1>1, <2>4, Steps DEF AskFails
    <3>3. UNCHANGED <<hour, cache, live, sym, symbols, offset, snaps, listening, expected>>
      BY <2>4 DEF AskFails
    <3> QED BY <1>1, <3>1, <3>2, <3>3 DEF Typed, TypeOK, HitHasRow, HasRow
  <2>5. CASE FallBack(f)
    <3>1. PICK found \in Seq(Snapshots) : Return(f, "fallback", found)
      BY <1>1, <2>5, FoundInFallBack
    <3>2. expected' \subseteq Symbols
      BY <1>1, <2>5 DEF FallBack, TypeOK
    <3> QED BY <1>1, <2>5, <3>1, <3>2, Returns
            DEF FallBack, Typed, TypeOK, HitHasRow, HasRow, Looking
  <2>6. CASE AskSucceeds(f)
    <3>1. PICK snap \in {sym[f], NoSymbol} :
            /\ Return(f, "ask", <<snap>>)
            /\ \/ cache' = [cache EXCEPT ![sym[f]] = [at |-> hour, snap |-> snap]]
               \/ UNCHANGED cache
            /\ expected' \subseteq expected
      BY <2>6 DEF AskSucceeds
    <3>2. snap \in Snapshots /\ <<snap>> \in Seq(Snapshots)
      BY <1>1, One DEF TypeOK
    <3>3. [at |-> hour, snap |-> snap] \in Rows /\ [at |-> hour, snap |-> snap] # NoRow
      BY <1>1, <3>2, LiveUniverseAssumption DEF TypeOK, Rows
    <3>4. sym[f] \in Symbols
      BY <1>1, <3>1 DEF Return, Step, TypeOK
    <3>5. /\ cache' \in [Symbols -> Rows \cup {NoRow}]
          /\ \A s \in Symbols : HasRow(s) => HasRow(s)'
      BY <1>1, <3>1, <3>3, <3>4 DEF TypeOK, HasRow
    <3>6. attempt' \in [Fetchers -> 0 .. MaxTry - 1]
      BY <1>1, <2>6, SMT DEF AskSucceeds, Answered, TypeOK
    <3>7. TypeOK'
      BY <1>1, <2>6, <3>1, <3>2, <3>5, <3>6, Returns DEF AskSucceeds, TypeOK, Looking
    <3>8. HitHasRow'
      <4> SUFFICES ASSUME NEW g \in Fetchers, pc'[g] = "hit" PROVE HasRow(sym[g])'
        BY DEF HitHasRow
      <4>1. g # f /\ pc[g] = "hit" /\ sym'[g] = sym[g]
        BY <1>1, <3>1, <3>2, Returns DEF Looking
      <4>2. sym[g] \in Symbols /\ HasRow(sym[g])
        BY <1>1, <4>1 DEF TypeOK, HitHasRow
      <4> QED BY <3>5, <4>1, <4>2 DEF HasRow
    <3> QED BY <3>7, <3>8 DEF Typed
  <2> QED BY <1>11, <2>1, <2>2, <2>3, <2>4, <2>5, <2>6 DEF Lookup
<1>12. CASE UNCHANGED vars
  BY <1>1, <1>12 DEF vars, Typed, TypeOK, HitHasRow, HasRow
<1> QED BY <1>2, <1>4, <1>5, <1>6, <1>7, <1>8, <1>9, <1>10, <1>11, <1>12 DEF Next, RefreshStep

\* Fetchers, requests, queries and cached rows keep their types, and whoever is
\* about to read a fresh row finds one (FetchSnapshotWithCache).
THEOREM UniverseTyped == Spec => []TypeOK
<1>1. Typed => TypeOK
  BY DEF Typed
<1> QED BY <1>1, TypedInit, TypedStep, PTL DEF Spec
-----------------------------------------------------------------------------
\* The end of a lookup moves the symbol looked up into the snapshots, or drops it.
LEMMA RoomReturn ==
    ASSUME Typed, Room, NEW f \in Fetchers, NEW from \in Looking,
           NEW found \in Seq(Snapshots), Len(found) <= 1,
           Return(f, from, found), UNCHANGED <<live, symbols>>
    PROVE  Room'
<1>1. TypeOK
  BY DEF Typed
<1>2. CASE f # Refresher
  BY <1>1, <1>2, Returns, Constants DEF Room
<1>3. CASE f = Refresher
  <2>1. pc[Refresher] \in Looking /\ pc'[Refresher] = "next" /\ snaps' = snaps \o found
    BY <1>1, <1>3, Returns
  <2>2. Len(snaps') = Len(snaps) + Len(found) /\ Len(snaps) \in Nat /\ Len(found) \in Nat /\ Len(symbols) \in Nat
    BY <1>1, <2>1, SMT DEF TypeOK
  <2>3. Len(snaps') + Len(symbols') <= Limit
    BY <2>1, <2>2, Constants, SMT DEF Room
  <2> QED BY <2>1, <2>3 DEF Room, Looking
<1> QED BY <1>2, <1>3

LEMMA RoomListed ==
    ASSUME Typed, Room, NEW found \in Seq(Symbols), EndListing(found), UNCHANGED <<live, snaps>>
    PROVE  Room'
<1>1. /\ pc[Refresher] = "list" /\ pc'[Refresher] = "next" /\ snaps' = <<>>
      /\ Len(symbols') <= Limit /\ Len(symbols') \in Nat
  BY Steps, Constants, Cut, SMT DEF Typed, Room, EndListing
<1>2. Len(snaps') + Len(symbols') <= Limit
  BY <1>1, Constants, SMT
<1> QED BY <1>1, <1>2 DEF Room, Looking

LEMMA RoomInit == Init => Room
BY Constants, SMT DEF Init, Room, Looking

LEMMA RoomStep == Typed /\ Room /\ [Next]_vars => Room'
<1> SUFFICES ASSUME Typed, Room, [Next]_vars PROVE Room'
  OBVIOUS
<1> USE Constants
<1>1. TypeOK /\ HitHasRow
  BY DEF Typed
<1>2. CASE BeginRefresh
  <2>1. pc'[Refresher] = "list" /\ snaps' = <<>> /\ live' = live
    BY <1>1, <1>2, Steps DEF BeginRefresh
  <2> QED BY <2>1 DEF Room, Looking
<1>3. CASE ListingFails
  BY <1>1, <1>3, RoomListed DEF ListingFails, TypeOK
<1>4. CASE PageArrives
  <2>1. PICK found \in Seq(Symbols) :
          /\ UNCHANGED <<live, snaps>>
          /\ EndListing(found) \/ UNCHANGED pc
          /\ pc[Refresher] = "list"
    BY <1>1, <1>4, Pages
  <2> QED BY <2>1, RoomListed DEF Room, Looking
<1>5. CASE NextSymbol
  <2>1. /\ pc[Refresher] = "next" /\ pc'[Refresher] = "check"
        /\ snaps' = snaps /\ live' = live /\ symbols' = Tail(symbols)
    BY <1>1, <1>5, Steps DEF NextSymbol
  <2>2. Len(symbols') = Len(symbols) - 1
    BY <1>1, <1>5, <2>1, MembersOfHeadAndTail DEF NextSymbol, TypeOK
  <2>3. Len(symbols) \in Nat /\ Len(snaps) \in Nat
    BY <1>1, SMT DEF TypeOK
  <2>4. Len(snaps) + Len(symbols) <= Limit
    BY <2>1 DEF Room
  <2>5. Len(snaps') + Len(symbols') + 1 <= Limit
    <3>1. Len(snaps') = Len(snaps)
      BY <2>1
    <3> QED BY <2>2, <2>3, <2>4, <3>1, SMT
  <2> QED BY <2>1, <2>5 DEF Room, Looking
<1>6. CASE Publish
  <2>1. /\ pc[Refresher] = "next" /\ pc'[Refresher] = "idle"
        /\ live' = snaps /\ snaps' = <<>> /\ symbols' = <<>> /\ symbols = <<>>
    BY <1>1, <1>6, Steps DEF Publish
  <2>2. Len(live') <= Limit /\ Len(snaps') + Len(symbols') <= Limit
    BY <1>1, <2>1, SMT DEF Room, TypeOK
  <2> QED BY <2>1, <2>2 DEF Room, Looking
<1>7. CASE Tick
  BY <1>7 DEF Tick, Room
<1>8. CASE Restart
  <2>1. pc'[Refresher] = "idle" /\ live' = <<>> /\ snaps' = <<>> /\ symbols' = <<>>
    BY <1>8 DEF Restart
  <2> QED BY <2>1, SMT DEF Room, Looking
<1>9. ASSUME NEW r \in Readers, AskForStock(r) PROVE Room'
  BY <1>1, <1>9, Steps DEF AskForStock, Room
<1>10. ASSUME NEW f \in Fetchers, Lookup(f) PROVE Room'
  <2>1. CASE Again(f)
    BY <2>1 DEF Again, Room
  <2>2. CASE CheckFresh(f) \/ AskFails(f) \/ (ReadHit(f) /\ UNCHANGED snaps /\ Step(f, "hit", "ask"))
    <3>1. /\ f = Refresher => pc[Refresher] \in Looking /\ pc'[Refresher] \in Looking
          /\ f # Refresher => pc'[Refresher] = pc[Refresher]
          /\ UNCHANGED <<live, symbols, snaps>>
      BY <1>1, <2>2, Steps DEF CheckFresh, AskFails, ReadHit, Looking
    <3> QED BY <3>1 DEF Room, Looking
  <2>3. CASE ReadHit(f) /\ Return(f, "hit", <<cache[sym[f]].snap>>)
    <3>1. cache[sym[f]].snap \in Snapshots
      BY <1>1, <2>3 DEF Return, Step, TypeOK, HitHasRow, HasRow, Rows
    <3>2. <<cache[sym[f]].snap>> \in Seq(Snapshots) /\ Len(<<cache[sym[f]].snap>>) <= 1
      <4> HIDE DEF Snapshots
      <4> QED BY <3>1, One, SMT
    <3> QED BY <2>3, <3>2, RoomReturn DEF ReadHit, Looking
  <2>4. CASE FallBack(f)
    <3>1. PICK found \in Seq(Snapshots) : Return(f, "fallback", found) /\ Len(found) <= 1
      BY <1>1, <2>4, FoundInFallBack
    <3> QED BY <2>4, <3>1, RoomReturn DEF FallBack, Looking
  <2>5. CASE AskSucceeds(f)
    <3>1. PICK snap \in Snapshots : Return(f, "ask", <<snap>>)
      BY <1>1, <2>5 DEF AskSucceeds, TypeOK
    <3>2. <<snap>> \in Seq(Snapshots) /\ Len(<<snap>>) <= 1
      BY One, SMT
    <3> QED BY <2>5, <3>1, <3>2, RoomReturn DEF AskSucceeds, Looking
  <2>6. ReadHit(f) => \/ Return(f, "hit", <<cache[sym[f]].snap>>)
                      \/ UNCHANGED snaps /\ Step(f, "hit", "ask")
    BY DEF ReadHit
  <2> QED BY <1>10, <2>1, <2>2, <2>3, <2>4, <2>5, <2>6 DEF Lookup
<1>11. CASE UNCHANGED vars
  BY <1>11 DEF vars, Room
<1> QED BY <1>2, <1>3, <1>4, <1>5, <1>6, <1>7, <1>8, <1>9, <1>10, <1>11 DEF Next, RefreshStep

\* However the screener pages, repeats or drops symbols, no refresh serves, or
\* asks about, more stocks than the limit (FetchUniverse, FetchLiveUniverse).
THEOREM UniverseStaysWithinLimit == Spec => []UniverseWithinLimit
<1>1. Typed /\ Room => UniverseWithinLimit
  <2> SUFFICES ASSUME Typed, Room PROVE UniverseWithinLimit
    OBVIOUS
  <2>1. Len(snaps) \in Nat /\ Len(symbols) \in Nat /\ Limit \in Nat
    BY Constants, SMT DEF Typed, TypeOK
  <2>2. pc[Refresher] \in {"list", "idle", "next"} \cup Looking
    BY Constants DEF Typed, TypeOK, Looking
  <2>3. pc[Refresher] \in Looking => Len(snaps) + Len(symbols) <= Limit
    BY <2>1, SMT DEF Room
  <2> QED BY <2>2, <2>3 DEF Room, UniverseWithinLimit
<1> QED BY <1>1, TypedInit, TypedStep, RoomInit, RoomStep, PTL DEF Spec
-----------------------------------------------------------------------------
\* A lookup that ends with the expected stock's snapshot loses nobody; a
\* reader's lookup concerns nobody the refresh is collecting.
LEMMA KeptByReturn ==
    ASSUME Typed, ExpectedAreKept, NEW f \in Fetchers, NEW from \in Looking,
           NEW found \in Seq(Snapshots), Return(f, from, found),
           UNCHANGED symbols, expected' \subseteq expected,
           f = Refresher /\ sym[Refresher] \in expected' => found = <<sym[Refresher]>>
    PROVE  ExpectedAreKept'
<1>1. TypeOK
  BY DEF Typed
<1>2. CASE f # Refresher
  <2>1. pc'[Refresher] = pc[Refresher] /\ sym'[Refresher] = sym[Refresher] /\ snaps' = snaps
    BY <1>1, <1>2, Returns, Constants
  <2> QED BY <2>1 DEF ExpectedAreKept
<1>3. CASE f = Refresher
  <2>1. /\ pc[Refresher] \in Looking /\ pc'[Refresher] = "next"
        /\ snaps' = snaps \o found
    BY <1>1, <1>3, Returns
  <2>2. ToSet(snaps') = ToSet(snaps) \cup ToSet(found)
    BY <1>1, <2>1, Members DEF TypeOK
  <2>3. sym[Refresher] \in expected' => sym[Refresher] \in ToSet(found)
    BY <1>1, <1>3, One DEF TypeOK
  <2>4. expected' \subseteq ToSet(snaps') \cup ToSet(symbols')
    BY <2>1, <2>2, <2>3 DEF ExpectedAreKept
  <2> QED BY <2>1, <2>4 DEF ExpectedAreKept, Looking
<1> QED BY <1>2, <1>3

Known == ExpectedAreCached /\ ExpectedAreKept

LEMMA KnownInit == Init => Known
<1> SUFFICES ASSUME Init PROVE Known
  OBVIOUS
<1>1. expected = {}
  BY DEF Init
<1> QED BY <1>1 DEF Known, ExpectedAreCached, ExpectedAreKept

\* The listing excuses only stocks that are not listed.
LEMMA KnownListed ==
    ASSUME Typed, Known, NEW found \in Seq(Symbols), EndListing(found), UNCHANGED <<cache, snaps>>
    PROVE  Known'
<1>1. pc'[Refresher] = "next"
  BY Steps, Constants DEF Typed, EndListing
<1>2. expected' \subseteq expected /\ expected' \subseteq ToSet(symbols')
  BY DEF EndListing
<1> QED BY <1>1, <1>2 DEF Known, ExpectedAreCached, ExpectedAreKept, HasRow, Looking

LEMMA KnownStep == Typed /\ Known /\ [Next]_vars => Known'
<1> SUFFICES ASSUME Typed, Known, [Next]_vars PROVE Known'
  OBVIOUS
<1> USE Constants
<1>1. TypeOK /\ HitHasRow
  BY DEF Typed
<1>2. CASE BeginRefresh
  <2>1. pc'[Refresher] = "list" /\ UNCHANGED cache
    BY <1>1, <1>2, Steps DEF BeginRefresh
  <2>2. expected' = {s \in Symbols : HasRow(s) /\ cache[s].snap = s}
    BY <1>2 DEF BeginRefresh
  <2> QED BY <2>1, <2>2 DEF Known, ExpectedAreCached, ExpectedAreKept, HasRow, Looking
<1>3. CASE ListingFails
  BY <1>1, <1>3, KnownListed DEF ListingFails, TypeOK
<1>4. CASE PageArrives
  <2>1. PICK found \in Seq(Symbols) :
          /\ UNCHANGED <<cache, snaps>>
          /\ EndListing(found) \/ UNCHANGED <<pc, expected>>
          /\ pc[Refresher] = "list"
    BY <1>1, <1>4, Pages
  <2>2. CASE UNCHANGED <<pc, expected>>
    BY <2>1, <2>2 DEF Known, ExpectedAreCached, ExpectedAreKept, HasRow, Looking
  <2> QED BY <2>1, <2>2, KnownListed
<1>5. CASE NextSymbol
  <2>1. /\ pc[Refresher] = "next" /\ pc'[Refresher] = "check"
        /\ UNCHANGED <<snaps, cache, expected>> /\ symbols' = Tail(symbols)
    BY <1>1, <1>5, Steps DEF NextSymbol
  <2>2. sym'[Refresher] = Head(symbols)
    BY <1>1, <1>5 DEF NextSymbol, TypeOK
  <2>3. ToSet(symbols) \subseteq {Head(symbols)} \cup ToSet(symbols')
    BY <1>1, <1>5, <2>1, MembersOfHeadAndTail DEF NextSymbol, TypeOK
  <2>4. expected' \subseteq ToSet(snaps') \cup ToSet(symbols') \cup {sym'[Refresher]}
    BY <2>1, <2>2, <2>3 DEF Known, ExpectedAreKept
  <2> QED BY <2>1, <2>4 DEF Known, ExpectedAreCached, ExpectedAreKept, HasRow, Looking
<1>6. CASE Publish
  <2>1. expected' = {}
    BY <1>6 DEF Publish
  <2> QED BY <2>1 DEF Known, ExpectedAreCached, ExpectedAreKept
<1>7. CASE Tick
  BY <1>7 DEF Tick, Known, ExpectedAreCached, ExpectedAreKept, HasRow
<1>8. CASE Restart
  <2>1. expected' = {}
    BY <1>8 DEF Restart
  <2> QED BY <2>1 DEF Known, ExpectedAreCached, ExpectedAreKept
<1>9. ASSUME NEW r \in Readers, AskForStock(r) PROVE Known'
  <2>1. /\ pc'[Refresher] = pc[Refresher] /\ sym'[Refresher] = sym[Refresher]
        /\ UNCHANGED <<cache, symbols, snaps, expected>>
    BY <1>1, <1>9, Steps DEF AskForStock, TypeOK
  <2> QED BY <2>1 DEF Known, ExpectedAreCached, ExpectedAreKept, HasRow
<1>10. ASSUME NEW f \in Fetchers, Lookup(f) PROVE Known'
  <2>1. CASE Again(f)
    BY <2>1 DEF Again, Known, ExpectedAreCached, ExpectedAreKept, HasRow
  <2>2. CASE CheckFresh(f) \/ AskFails(f) \/ (ReadHit(f) /\ UNCHANGED <<snaps, sym>> /\ Step(f, "hit", "ask"))
    <3>1. /\ f = Refresher => pc[Refresher] \in Looking /\ pc'[Refresher] \in Looking
          /\ f # Refresher => pc'[Refresher] = pc[Refresher]
          /\ UNCHANGED <<cache, symbols, snaps, sym, expected>>
      BY <1>1, <2>2, Steps DEF CheckFresh, AskFails, ReadHit, Looking
    <3> QED BY <3>1 DEF Known, ExpectedAreCached, ExpectedAreKept, HasRow, Looking
  <2>3. CASE ReadHit(f) /\ Return(f, "hit", <<cache[sym[f]].snap>>)
    <3>1. cache[sym[f]].snap \in Snapshots
      BY <1>1, <2>3 DEF Return, Step, TypeOK, HitHasRow, HasRow, Rows
    <3>2. UNCHANGED <<cache, symbols, expected>>
      BY <2>3 DEF ReadHit
    <3>3. sym[f] \in expected => cache[sym[f]].snap = sym[f]
      BY DEF Known, ExpectedAreCached
    <3>4. <<cache[sym[f]].snap>> \in Seq(Snapshots)
      BY <3>1, One
    <3>5. ExpectedAreKept'
      BY <2>3, <3>2, <3>3, <3>4, KeptByReturn DEF Known, Looking
    <3> QED BY <3>2, <3>5 DEF Known, ExpectedAreCached, HasRow
  <2>4. CASE FallBack(f)
    <3>1. UNCHANGED <<cache, symbols>> /\ expected' \subseteq expected
      BY <2>4 DEF FallBack
    <3>2. ExpectedAreCached'
      BY <3>1 DEF Known, ExpectedAreCached, HasRow
    <3>3. PICK found \in Seq(Snapshots) :
            /\ Return(f, "fallback", found)
            /\ f = Refresher /\ sym[Refresher] \in expected' => found = <<sym[Refresher]>>
      <4>1. CASE HasRow(sym[f]) /\ Return(f, "fallback", <<cache[sym[f]].snap>>) /\ UNCHANGED expected
        <5>1. cache[sym[f]].snap \in Snapshots
          BY <1>1, <4>1 DEF Return, Step, TypeOK, HasRow, Rows
        <5>2. sym[f] \in expected => cache[sym[f]].snap = sym[f]
          BY DEF Known, ExpectedAreCached
        <5> QED BY <4>1, <5>1, <5>2, One
      <4>2. CASE ~HasRow(sym[f]) /\ Return(f, "fallback", <<>>) /\ UNCHANGED expected
        <5>1. sym[f] \notin expected
          BY <4>2 DEF Known, ExpectedAreCached
        <5> QED BY <4>2, <5>1, None
      <4>3. CASE /\ Return(f, "fallback", <<>>)
                 /\ expected' = IF f = Refresher THEN expected \ {sym[f]} ELSE expected
        BY <4>3, None
      <4> QED BY <2>4, <4>1, <4>2, <4>3 DEF FallBack
    <3>4. ExpectedAreKept'
      BY <3>1, <3>3, KeptByReturn DEF Known, Looking
    <3> QED BY <3>2, <3>4 DEF Known
  <2>5. CASE AskSucceeds(f)
    <3>1. PICK snap \in {sym[f], NoSymbol} :
            /\ Return(f, "ask", <<snap>>)
            /\ \/ cache' = [cache EXCEPT ![sym[f]] = [at |-> hour, snap |-> snap]]
               \/ UNCHANGED cache
            /\ expected' = IF snap = NoSymbol THEN expected \ {sym[f]} ELSE expected
            /\ UNCHANGED symbols
      BY <2>5 DEF AskSucceeds
    <3>2. snap \in Snapshots /\ <<snap>> \in Seq(Snapshots)
      BY <1>1, One DEF TypeOK
    <3>3. sym[f] \in Symbols /\ sym[f] # NoSymbol
      BY <1>1, <3>1 DEF Return, Step, TypeOK
    <3>4. [at |-> hour, snap |-> snap] # NoRow
      BY <1>1, <3>2, LiveUniverseAssumption DEF TypeOK, Rows
    <3>5. ExpectedAreCached'
      <4> SUFFICES ASSUME NEW s \in expected' PROVE HasRow(s)' /\ cache'[s].snap = s
        BY DEF ExpectedAreCached, HasRow
      <4>1. s \in expected /\ HasRow(s) /\ cache[s].snap = s /\ s \in Symbols
        BY <1>1, <3>1 DEF Known, ExpectedAreCached, TypeOK
      <4>2. CASE s = sym[f]
        <5>1. snap = sym[f]
          BY <3>1, <4>2
        <5> QED BY <1>1, <3>1, <3>3, <3>4, <4>1, <4>2, <5>1 DEF TypeOK, HasRow
      <4>3. CASE s # sym[f]
        BY <1>1, <3>1, <4>1, <4>3 DEF TypeOK, HasRow
      <4> QED BY <4>2, <4>3
    <3>6. ExpectedAreKept'
      <4>1. expected' \subseteq expected
        BY <3>1
      <4>2. f = Refresher /\ sym[Refresher] \in expected' => snap = sym[Refresher]
        BY <3>1
      <4> QED BY <3>1, <3>2, <4>1, <4>2, KeptByReturn DEF Known, Looking
    <3> QED BY <3>5, <3>6 DEF Known
  <2>6. ReadHit(f) => \/ Return(f, "hit", <<cache[sym[f]].snap>>)
                      \/ UNCHANGED <<snaps, sym>> /\ Step(f, "hit", "ask")
    BY DEF ReadHit
  <2> QED BY <1>10, <2>1, <2>2, <2>3, <2>4, <2>5, <2>6 DEF Lookup
<1>11. CASE UNCHANGED vars
  BY <1>11 DEF vars, Known, ExpectedAreCached, ExpectedAreKept, HasRow
<1> QED BY <1>2, <1>3, <1>4, <1>5, <1>6, <1>7, <1>8, <1>9, <1>10, <1>11 DEF Next, RefreshStep

\* Only Publish ends a refresh whose process goes on listening, and then
\* everybody expected has been collected.
LEMMA PublishKeeps ==
    Typed /\ Known /\ [Next]_vars =>
        [pc[Refresher] = "next" /\ pc'[Refresher] = "idle" /\ listening'
           => \A s \in expected : s \in ToSet(live')]_vars
<1> SUFFICES ASSUME Typed, Known, Next, pc[Refresher] = "next", pc'[Refresher] = "idle", listening'
             PROVE  \A s \in expected : s \in ToSet(live')
  BY DEF vars
<1> USE Constants
<1>1. TypeOK
  BY DEF Typed
<1>2. CASE Publish
  <2>1. live' = snaps /\ symbols = <<>>
    BY <1>2 DEF Publish
  <2>2. ToSet(symbols) = {}
    BY <2>1, None
  <2> QED BY <2>1, <2>2 DEF Known, ExpectedAreKept
<1>3. ~ (BeginRefresh \/ ListingFails \/ PageArrives \/ NextSymbol \/ Tick \/ Restart)
  <2>1. ~ BeginRefresh
    BY DEF BeginRefresh, Step
  <2>2. ~ ListingFails
    BY DEF ListingFails, EndListing, Step
  <2>3. ~ PageArrives
    BY <1>1, Pages
  <2>4. ~ NextSymbol
    <3>1. ASSUME NextSymbol PROVE pc'[Refresher] = "check"
      BY <1>1, <3>1, Steps DEF NextSymbol
    <3> QED BY <3>1
  <2>5. ~ Tick
    BY DEF Tick
  <2>6. ~ Restart
    BY DEF Restart
  <2> QED BY <2>1, <2>2, <2>3, <2>4, <2>5, <2>6
<1>4. ASSUME NEW r \in Readers, AskForStock(r) PROVE FALSE
  BY <1>1, <1>4, Steps DEF AskForStock
<1>5. ASSUME NEW f \in Fetchers, Lookup(f) PROVE FALSE
  <2>1. pc'[Refresher] = pc[Refresher] \/ (f = Refresher /\ pc[Refresher] \in Looking)
    BY <1>1, <1>5 DEF Lookup, Again, CheckFresh, ReadHit, AskFails, FallBack, AskSucceeds,
                      Return, Step, TypeOK, Looking
  <2> QED BY <2>1 DEF Looking
<1> QED BY <1>2, <1>3, <1>4, <1>5 DEF Next, RefreshStep

\* A refresh loses no listed stock the cache knew when it began, whatever fails
\* upstream for it and whoever looks it up meanwhile, save the two excuses
\* (FetchSnapshotWithCache, FetchLiveUniverse).
THEOREM UniverseKeepsCachedStocks == Spec => RefreshKeepsCachedStocks
<1>1. Typed /\ Known /\ [Next]_vars =>
        [pc[Refresher] = "next" /\ pc'[Refresher] = "idle" /\ listening'
           => \A s \in expected : s \in ToSet(live')]_vars
  BY PublishKeeps
<1> QED BY <1>1, TypedInit, TypedStep, KnownInit, KnownStep, PTL DEF Spec, RefreshKeepsCachedStocks
=============================================================================
