------------------------- MODULE RankingStoreProofs -------------------------
(***************************************************************************)
(* Proofs about RankingStore, for any set of callers, any cap and any      *)
(* universe of runs.                                                       *)
(*                                                                         *)
(* The properties of interest speak of the cache; what makes them          *)
(* inductive is the state of the Save in progress (SavingWritten) and the  *)
(* fact that the capped history and the latest run are functions of the    *)
(* runs published so far (CacheIsPublished).                               *)
(***************************************************************************)
EXTENDS RankingStore, SequenceTheorems, TLAPS

\* The holder has inserted the run's row and its first results, and nobody has
\* been shown that run.
SavingWritten ==
    holder # NoCaller =>
        /\ RunRow(saving) \in runRows
        /\ ResultsWritten(saving, written)
        /\ \A i \in DOMAIN published : published[i].id # saving.id

PublishedPersisted == \A i \in DOMAIN published : Persisted(published[i])

CacheIsPublished ==
    /\ hist = LastN(published, HistCap)
    /\ latest = IF published = <<>> THEN NoRun ELSE published[Len(published)]

IInv == TypeOK /\ SavingWritten /\ PublishedPersisted /\ CacheIsPublished

-----------------------------------------------------------------------------

\* A run has an id, which the zero RunResult has not.
LEMMA RunFields ==
    ASSUME NEW r \in RunResult
    PROVE  /\ r.id \in RunIds /\ r.id \in Nat /\ r.id # 0
           /\ r.stocks \in Seq(Tickers)
           /\ Count(r) \in Nat
           /\ r # NoRun
<1>1. r.id \in RunIds /\ r.stocks \in Seq(Tickers)
  BY RunDataAssumption DEF RunResult
<1>2. r.id \in Nat /\ r.id # 0
  BY <1>1, RunDataAssumption
<1>3. Count(r) \in Nat
  BY <1>1, LenProperties DEF Count
<1>4. r # NoRun
  BY <1>2 DEF NoRun
<1> QED
  BY <1>1, <1>2, <1>3, <1>4

LEMMA NoRunFields == NoRun.id = 0 /\ NoRun.stocks = <<>> /\ Count(NoRun) = 0
BY DEF NoRun, Count

\* What LastN keeps of a sequence.
LEMMA LastNProperties ==
    ASSUME NEW S, NEW s \in Seq(S), NEW n \in Nat \ {0}
    PROVE  /\ LastN(s, n) \in Seq(S)
           /\ Len(LastN(s, n)) = Lesser(n, Len(s))
           /\ \A i \in 1..Len(LastN(s, n)) :
                 LastN(s, n)[i] = s[Len(s) - Len(LastN(s, n)) + i]
<1>1. Len(s) \in Nat
  BY LenProperties
<1>2. CASE Len(s) > n
  <2> DEFINE m == Len(s) - n + 1
  <2>1. m \in Int /\ Len(s) \in Int /\ \A i \in m..Len(s) : s[i] \in S
    BY <1>1, <1>2, ElementOfSeq
  <2>2. /\ SubSeq(s, m, Len(s)) \in Seq(S)
        /\ Len(SubSeq(s, m, Len(s))) = IF m <= Len(s) THEN Len(s) - m + 1 ELSE 0
        /\ \A i \in 1..(Len(s) - m + 1) : SubSeq(s, m, Len(s))[i] = s[m + i - 1]
    BY <2>1, SubSeqProperties
  <2>3. LastN(s, n) = SubSeq(s, m, Len(s))
    BY <1>2 DEF LastN
  <2>4. Len(LastN(s, n)) = n /\ Lesser(n, Len(s)) = n
    BY <1>1, <1>2, <2>2, <2>3 DEF Lesser
  <2> QED
    BY <1>1, <1>2, <2>2, <2>3, <2>4
<1>3. CASE ~(Len(s) > n)
  <2>1. LastN(s, n) = s /\ Lesser(n, Len(s)) = Len(s)
    BY <1>1, <1>3 DEF LastN, Lesser
  <2> QED
    BY <1>1, <2>1
<1> QED
  BY <1>2, <1>3

\* Capping after every append, as Save does, is capping once at the end.
LEMMA LastNAppend ==
    ASSUME NEW S, NEW s \in Seq(S), NEW e \in S, NEW n \in Nat \ {0}
    PROVE  LastN(Append(LastN(s, n), e), n) = LastN(Append(s, e), n)
<1> DEFINE t == LastN(s, n)
           ta == Append(t, e)
           sa == Append(s, e)
           L == LastN(ta, n)
           R == LastN(sa, n)
<1>1. /\ t \in Seq(S) /\ Len(t) = Lesser(n, Len(s))
      /\ \A i \in 1..Len(t) : t[i] = s[Len(s) - Len(t) + i]
  BY LastNProperties
<1> HIDE DEF t
<1>2. /\ sa \in Seq(S) /\ Len(sa) = Len(s) + 1
      /\ \A i \in 1..Len(s) : sa[i] = s[i]
      /\ sa[Len(s) + 1] = e
  BY AppendProperties
<1>3. /\ ta \in Seq(S) /\ Len(ta) = Len(t) + 1
      /\ \A i \in 1..Len(t) : ta[i] = t[i]
      /\ ta[Len(t) + 1] = e
  BY <1>1, AppendProperties
<1> HIDE DEF ta, sa
<1>4. /\ L \in Seq(S) /\ Len(L) = Lesser(n, Len(ta))
      /\ \A i \in 1..Len(L) : L[i] = ta[Len(ta) - Len(L) + i]
  BY <1>3, LastNProperties
<1>5. /\ R \in Seq(S) /\ Len(R) = Lesser(n, Len(sa))
      /\ \A i \in 1..Len(R) : R[i] = sa[Len(sa) - Len(R) + i]
  BY <1>2, LastNProperties
<1> HIDE DEF L, R
<1>6. Len(s) \in Nat
  BY LenProperties
<1>7. /\ Len(L) = Len(R) /\ Len(R) \in Nat /\ Len(R) <= Len(t) + 1
      /\ Len(t) \in Nat /\ Len(t) <= Len(s)
      /\ Len(sa) = Len(s) + 1 /\ Len(ta) = Len(t) + 1
  BY <1>1, <1>2, <1>3, <1>4, <1>5, <1>6 DEF Lesser
<1>8. ASSUME NEW i \in 1..Len(L) PROVE L[i] = R[i]
  <2> DEFINE j == Len(ta) - Len(L) + i
             k == Len(sa) - Len(R) + i
  <2>1. L[i] = ta[j] /\ R[i] = sa[k]
    BY <1>4, <1>5, <1>7
  <2>2. CASE i = Len(L)
    <3>1. j = Len(t) + 1 /\ k = Len(s) + 1
      BY <1>6, <1>7, <2>2
    <3> QED
      BY <1>2, <1>3, <2>1, <3>1
  <2>3. CASE i # Len(L)
    <3>1. j \in 1..Len(t) /\ k \in 1..Len(s) /\ k = Len(s) - Len(t) + j
      BY <1>6, <1>7, <2>3
    <3>2. ta[j] = t[j] /\ sa[k] = s[k]
      BY <1>2, <1>3, <3>1
    <3>3. t[j] = s[Len(s) - Len(t) + j]
      BY <1>1, <3>1
    <3> QED
      BY <2>1, <3>1, <3>2, <3>3
  <2> QED
    BY <2>2, <2>3
<1>9. L = R
  BY <1>4, <1>5, <1>7, <1>8, SeqEqual
<1> QED
  BY <1>9 DEF L, R, ta, sa, t

-----------------------------------------------------------------------------
LEMMA InitialIInv == Init => IInv
<1> SUFFICES ASSUME Init PROVE IInv
  OBVIOUS
<1> USE DEF Init
<1>1. TypeOK
  BY NoRunFields DEF TypeOK, RunOrNone
<1>2. SavingWritten /\ PublishedPersisted
  BY DEF SavingWritten, PublishedPersisted
<1>3. CacheIsPublished
  BY StoreAssumption DEF CacheIsPublished, LastN
<1> QED
  BY <1>1, <1>2, <1>3 DEF IInv

\* A save begins: only a fresh id joins the rows, so nothing shown is touched.
LEMMA InsertRunIInv ==
    ASSUME IInv, NEW c \in Callers, NEW r \in RunResult, Fresh(r), InsertRun(c, r)
    PROVE  IInv'
<1> USE DEF IInv
<1>1. c # NoCaller /\ r # NoRun /\ r \in RunOrNone /\ Count(r) \in Nat /\ r.id \in RunIds
  BY StoreAssumption, RunFields DEF RunOrNone
<1>2. runRows' = runRows \cup {RunRow(r)}
  BY DEF InsertRun, Fresh
<1>3. RunRow(r) \in [id : RunIds, count : Nat]
  BY <1>1 DEF RunRow
<1>4. TypeOK'
  BY <1>1, <1>2, <1>3 DEF TypeOK, InsertRun, cache
<1>5. \A i \in DOMAIN published : published[i].id # r.id
  BY DEF PublishedPersisted, Persisted, RunRow, Fresh
<1>6. SavingWritten'
  BY <1>2, <1>5 DEF InsertRun, SavingWritten, ResultsWritten, RunRow, cache, Count
<1>7. PublishedPersisted'
  BY <1>2 DEF InsertRun, PublishedPersisted, Persisted, ResultsWritten, RunRow, cache, Count
<1>8. CacheIsPublished'
  BY DEF InsertRun, CacheIsPublished, cache
<1> QED
  BY <1>4, <1>6, <1>7, <1>8

LEMMA InsertResultIInv ==
    ASSUME IInv, NEW c \in Callers, InsertResult(c)
    PROVE  IInv'
<1> USE DEF IInv
<1> DEFINE row == [run |-> saving.id, ticker |-> saving.stocks[written + 1]]
<1>1. saving \in RunResult /\ holder # NoCaller
  <2>1. holder # NoCaller
    BY StoreAssumption DEF InsertResult
  <2> QED
    BY <2>1 DEF TypeOK, RunOrNone
<1>2. /\ Count(saving) \in Nat /\ saving.stocks \in Seq(Tickers)
      /\ Count(saving) = Len(saving.stocks) /\ saving.id \in RunIds
  BY <1>1, RunFields DEF Count
<1>3. written \in Nat /\ written + 1 \in 1..Count(saving)
  BY <1>2 DEF TypeOK, InsertResult
<1>4. saving.stocks[written + 1] \in Tickers
  BY <1>2, <1>3, ElementOfSeq
<1>5. resultRows' = resultRows \cup {row}
  BY DEF InsertResult
<1>6. TypeOK'
  BY <1>2, <1>3, <1>4, <1>5 DEF TypeOK, InsertResult, cache
<1>7. SavingWritten'
  <2>1. written' = written + 1 /\ saving' = saving /\ runRows' = runRows
          /\ published' = published
    BY DEF InsertResult, cache
  <2>2. ResultsWritten(saving, written)
    BY <1>1 DEF SavingWritten
  <2>3. ASSUME NEW i \in 1..(written + 1)
        PROVE  [run |-> saving.id, ticker |-> saving.stocks[i]] \in resultRows'
    BY <1>3, <1>5, <2>2, <2>3 DEF ResultsWritten
  <2>4. ResultsWritten(saving, written)'
    BY <2>1, <2>3 DEF ResultsWritten
  <2> QED
    BY <1>1, <2>1, <2>4 DEF SavingWritten, RunRow, Count
<1>8. PublishedPersisted'
  BY <1>5 DEF InsertResult, PublishedPersisted, Persisted, ResultsWritten, RunRow, cache, Count
<1>9. CacheIsPublished'
  BY DEF InsertResult, CacheIsPublished, cache
<1> QED
  BY <1>6, <1>7, <1>8, <1>9

LEMMA AbandonSaveIInv ==
    ASSUME IInv, NEW c \in Callers, AbandonSave(c)
    PROVE  IInv'
<1> USE DEF IInv, AbandonSave, Release, tables, cache
<1>1. TypeOK'
  BY NoRunFields DEF TypeOK, RunOrNone
<1>2. SavingWritten'
  BY DEF SavingWritten
<1>3. PublishedPersisted'
  BY DEF PublishedPersisted, Persisted, ResultsWritten, RunRow, Count
<1>4. CacheIsPublished'
  BY DEF CacheIsPublished
<1> QED
  BY <1>1, <1>2, <1>3, <1>4

\* The run that is published is complete on disk, and capping the history at
\* every publication keeps it the newest part of all that was published.
LEMMA PublishIInv ==
    ASSUME IInv, NEW c \in Callers, Publish(c)
    PROVE  IInv'
<1> USE DEF IInv
<1>1. saving \in RunResult /\ holder # NoCaller
  <2>1. holder # NoCaller
    BY StoreAssumption DEF Publish
  <2> QED
    BY <2>1 DEF TypeOK, RunOrNone
<1>2. /\ published' = Append(published, saving) /\ published \in Seq(RunResult)
      /\ hist' = LastN(Append(hist, saving), HistCap) /\ latest' = saving
      /\ holder' = NoCaller /\ saving' = NoRun /\ written' = 0
      /\ runRows' = runRows /\ resultRows' = resultRows
  BY DEF Publish, Release, tables, TypeOK
<1>3. /\ published' \in Seq(RunResult) /\ published' # <<>>
      /\ Len(published') = Len(published) + 1 /\ Len(published) \in Nat
      /\ \A i \in 1..Len(published) : published'[i] = published[i]
      /\ published'[Len(published) + 1] = saving
  BY <1>1, <1>2, AppendProperties, LenProperties
<1>4. HistCap \in Nat \ {0}
  BY StoreAssumption
<1>5. hist' \in Seq(RunResult)
  <2>1. Append(hist, saving) \in Seq(RunResult)
    BY <1>1, AppendProperties DEF TypeOK
  <2> QED
    BY <1>2, <1>4, <2>1, LastNProperties
<1>6. TypeOK'
  BY <1>1, <1>2, <1>3, <1>5, NoRunFields DEF TypeOK, RunOrNone
<1>7. SavingWritten'
  BY <1>2 DEF SavingWritten
<1>8. Persisted(saving)
  BY <1>1 DEF Publish, SavingWritten, Persisted
<1>9. PublishedPersisted'
  <2>1. ASSUME NEW i \in DOMAIN published' PROVE Persisted(published'[i])
    <3>1. DOMAIN published' = 1..(Len(published) + 1) /\ DOMAIN published = 1..Len(published)
      BY <1>2, <1>3, LenProperties
    <3>2. CASE i = Len(published) + 1
      BY <1>3, <1>8, <3>2
    <3>3. CASE i # Len(published) + 1
      BY <1>3, <3>1, <3>3 DEF PublishedPersisted
    <3> QED
      BY <3>2, <3>3
  <2> QED
    BY <1>2, <2>1 DEF PublishedPersisted, Persisted, ResultsWritten, RunRow, Count
<1>10. CacheIsPublished'
  <2>1. hist' = LastN(published', HistCap)
    BY <1>1, <1>2, <1>4, LastNAppend DEF CacheIsPublished
  <2> QED
    BY <1>2, <1>3, <2>1 DEF CacheIsPublished
<1> QED
  BY <1>6, <1>7, <1>9, <1>10

LEMMA RestartIInv ==
    ASSUME IInv, Restart
    PROVE  IInv'
<1> USE DEF IInv, Restart, Release, tables
<1>1. TypeOK'
  BY NoRunFields DEF TypeOK, RunOrNone
<1>2. SavingWritten' /\ PublishedPersisted'
  BY DEF SavingWritten, PublishedPersisted
<1>3. CacheIsPublished'
  BY StoreAssumption DEF CacheIsPublished, LastN
<1> QED
  BY <1>1, <1>2, <1>3

LEMMA UnchangedIInv ==
    ASSUME IInv, UNCHANGED vars
    PROVE  IInv'
BY DEF IInv, vars, tables, cache, session, TypeOK, SavingWritten, PublishedPersisted,
       CacheIsPublished, Persisted, ResultsWritten, RunRow, Count

\* IInv is inductive.
LEMMA StepIInv == IInv /\ [Next]_vars => IInv'
<1> SUFFICES ASSUME IInv, [Next]_vars PROVE IInv'
  OBVIOUS
<1>1. ASSUME NEW c \in Callers, BeginSave(c) PROVE IInv'
  BY <1>1, InsertRunIInv DEF BeginSave
<1>2. ASSUME NEW c \in Callers, RefuseRun(c) PROVE IInv'
  BY <1>2, UnchangedIInv DEF RefuseRun
<1>3. ASSUME NEW c \in Callers, InsertResult(c) PROVE IInv'
  BY <1>3, InsertResultIInv
<1>4. ASSUME NEW c \in Callers, AbandonSave(c) PROVE IInv'
  BY <1>4, AbandonSaveIInv
<1>5. ASSUME NEW c \in Callers, Publish(c) PROVE IInv'
  BY <1>5, PublishIInv
<1>6. CASE Restart
  BY <1>6, RestartIInv
<1>7. CASE UNCHANGED vars
  BY <1>7, UnchangedIInv
<1> QED
  BY <1>1, <1>2, <1>3, <1>4, <1>5, <1>6, <1>7 DEF Next, SaveStep

LEMMA AlwaysIInv == Spec => []IInv
<1>1. Init => IInv
  BY InitialIInv
<1>2. IInv /\ [Next]_vars => IInv'
  BY StepIInv
<1> QED
  BY <1>1, <1>2, PTL DEF Spec

\* Every reachable state of the store is well typed.
THEOREM StoreTyped == Spec => []TypeOK
<1>1. IInv => TypeOK
  BY DEF IInv
<1> QED
  BY <1>1, AlwaysIInv, PTL
-----------------------------------------------------------------------------

\* Everything a reader can be shown is complete on disk, at every moment,
\* whatever statements failed and however often the process was restarted.
THEOREM StoreVisibleIsDurable == Spec => []VisibleIsDurable
<1>1. IInv => VisibleIsDurable
  <2> SUFFICES ASSUME IInv PROVE VisibleIsDurable
    OBVIOUS
  <2> USE DEF IInv
  <2>1. /\ published \in Seq(RunResult) /\ Len(published) \in Nat
        /\ DOMAIN published = 1..Len(published)
    BY LenProperties DEF TypeOK
  <2>2. HasLatest => Persisted(latest)
    <3> SUFFICES ASSUME HasLatest PROVE Persisted(latest)
      OBVIOUS
    <3>1. published # <<>>
      BY NoRunFields DEF CacheIsPublished, HasLatest
    <3>2. latest = published[Len(published)] /\ Len(published) \in DOMAIN published
      BY <2>1, <3>1, EmptySeq DEF CacheIsPublished
    <3> QED
      BY <3>2 DEF PublishedPersisted
  <2>3. ASSUME NEW i \in DOMAIN hist PROVE Persisted(hist[i])
    <3> DEFINE n == Len(hist)
               k == Len(published) - n + i
    <3>1. hist \in Seq(RunResult) /\ i \in 1..n /\ n \in Nat
      BY <2>3, LenProperties DEF TypeOK
    <3>2. /\ n = Lesser(HistCap, Len(published))
          /\ \A j \in 1..n : hist[j] = published[Len(published) - n + j]
      BY <2>1, StoreAssumption, LastNProperties DEF CacheIsPublished
    <3>3. n <= Len(published)
      BY <2>1, <3>2, StoreAssumption DEF Lesser
    <3>4. hist[i] = published[k]
      BY <3>1, <3>2
    <3>5. k \in DOMAIN published
      BY <2>1, <3>1, <3>3
    <3> QED
      BY <3>4, <3>5 DEF PublishedPersisted
  <2> QED
    BY <2>2, <2>3 DEF VisibleIsDurable
<1> QED
  BY <1>1, AlwaysIInv, PTL

\* ListRuns returns the newest published runs, newest first, beginning with
\* the run Latest returns, however many runs the cap has cut off.
THEOREM StoreHistoryIsNewestRuns == Spec => []HistoryIsNewestRuns
<1>1. IInv => HistoryIsNewestRuns
  <2> SUFFICES ASSUME IInv PROVE HistoryIsNewestRuns
    OBVIOUS
  <2> USE DEF IInv
  <2> DEFINE len == Len(published)
             h == Len(hist)
  <2>1. /\ published \in Seq(RunResult) /\ len \in Nat
        /\ hist \in Seq(RunResult) /\ h \in Nat
    BY LenProperties DEF TypeOK
  <2>2. /\ h = Lesser(HistCap, len)
        /\ \A j \in 1..h : hist[j] = published[len - h + j]
    BY <2>1, StoreAssumption, LastNProperties DEF CacheIsPublished
  <2>3. HistCap \in Nat /\ HistCap > 0
    BY StoreAssumption
  <2>4. (hist = <<>> <=> h = 0) /\ (published = <<>> <=> len = 0)
    BY <2>1, EmptySeq
  <2>5. hist = <<>> <=> published = <<>>
    BY <2>1, <2>2, <2>3, <2>4 DEF Lesser
  <2>6. hist = <<>> => latest.id = 0
    BY <2>5, NoRunFields DEF CacheIsPublished
  <2>7. ASSUME NEW n \in 1..(HistCap + 1)
        PROVE  LET k == Lesser(Lesser(n, HistCap), len) IN
                 ListRuns(n) = [i \in 1..k |-> published[len - i + 1]]
    <3> DEFINE k == Lesser(Lesser(n, HistCap), len)
    <3>1. k = Lesser(n, h) /\ k \in Nat /\ k <= h /\ h <= len
      BY <2>1, <2>2, <2>3 DEF Lesser
    <3>2. CASE hist = <<>>
      <4>1. ListRuns(n) = <<>> /\ k = 0
        BY <2>1, <2>4, <2>6, <3>1, <3>2 DEF ListRuns
      <4> QED
        BY <4>1
    <3>3. CASE hist # <<>>
      <4>1. ListRuns(n) = [i \in 1..k |-> hist[h - i + 1]]
        BY <3>1, <3>3 DEF ListRuns
      <4>2. ASSUME NEW i \in 1..k PROVE hist[h - i + 1] = published[len - i + 1]
        <5>1. h - i + 1 \in 1..h /\ len - h + (h - i + 1) = len - i + 1
          BY <2>1, <3>1
        <5> QED
          BY <2>2, <5>1
      <4>3. [i \in 1..k |-> hist[h - i + 1]] = [i \in 1..k |-> published[len - i + 1]]
        BY <4>2, Zenon
      <4> QED
        BY <4>1, <4>3
    <3> QED
      BY <3>2, <3>3
  <2>8. HasLatest => ListRuns(1) = <<latest>>
    <3> SUFFICES ASSUME HasLatest PROVE ListRuns(1) = <<latest>>
      OBVIOUS
    <3>1. published # <<>> /\ hist # <<>>
      BY <2>5, NoRunFields DEF CacheIsPublished, HasLatest
    <3>2. h # 0 /\ len # 0
      BY <2>4, <3>1
    <3>3. h >= 1 /\ len >= 1 /\ Lesser(1, h) = 1
      <4>1. h \in Nat /\ len \in Nat
        BY <2>1
      <4> HIDE DEF h, len
      <4> QED
        BY <3>2, <4>1 DEF Lesser
    <3>4. hist[h] = published[len]
      BY <2>1, <2>2, <3>3
    <3>5. ListRuns(1) = [i \in 1..1 |-> hist[h - i + 1]]
      BY <3>1, <3>3 DEF ListRuns
    <3>6. h - 1 + 1 = h
      BY <2>1
    <3>7. latest = hist[h]
      BY <3>1, <3>4 DEF CacheIsPublished
    <3> QED
      BY <3>5, <3>6, <3>7
  <2> QED
    BY <2>7, <2>8 DEF HistoryIsNewestRuns
<1> QED
  BY <1>1, AlwaysIInv, PTL

-----------------------------------------------------------------------------

LEMMA FeedInit == Init => Feed!Init
BY DEF Init, Feed!Init

\* Every step of the store is a step of the abstract feed, or leaves the rows
\* and the feed alone.
LEMMA FeedStep ==
    IInv /\ IInv' /\ [Next]_vars => [Feed!Next]_<<runRows, resultRows, published>>
<1> SUFFICES ASSUME IInv, IInv', [Next]_vars
             PROVE  [Feed!Next]_<<runRows, resultRows, published>>
  OBVIOUS
<1> USE DEF Feed!Next
<1>1. ASSUME NEW c \in Callers, BeginSave(c) PROVE Feed!Archive
  BY <1>1 DEF BeginSave, Fresh, InsertRun, cache, Feed!Archive
<1>2. ASSUME NEW c \in Callers, RefuseRun(c) PROVE UNCHANGED <<runRows, resultRows, published>>
  BY <1>2 DEF RefuseRun, vars, tables, cache
<1>3. ASSUME NEW c \in Callers, InsertResult(c) PROVE Feed!Archive
  BY <1>3 DEF InsertResult, cache, Feed!Archive
<1>4. ASSUME NEW c \in Callers, AbandonSave(c) PROVE UNCHANGED <<runRows, resultRows, published>>
  BY <1>4 DEF AbandonSave, tables, cache
<1>5. ASSUME NEW c \in Callers, Publish(c) PROVE Feed!Show
  <2>1. saving \in RunResult /\ holder # NoCaller
    <3>1. holder # NoCaller
      BY <1>5, StoreAssumption DEF Publish
    <3> QED
      BY <3>1 DEF IInv, TypeOK, RunOrNone
  <2>2. Feed!Archived(saving)
    BY <1>5, <2>1 DEF Publish, IInv, SavingWritten, ResultsWritten, RunRow, Feed!Archived,
                      Count, Feed!Count
  <2>3. ~Feed!Shown(saving)
    BY <2>1 DEF IInv, SavingWritten, Feed!Shown
  <2> QED
    BY <1>5, <2>1, <2>2, <2>3 DEF Publish, tables, Feed!Show, Feed!RunResult, RunResult
<1>6. CASE Restart
  BY <1>6 DEF Restart, tables, Feed!Restart
<1>7. CASE UNCHANGED vars
  BY <1>7 DEF vars, tables, cache
<1> QED
  BY <1>1, <1>2, <1>3, <1>4, <1>5, <1>6, <1>7 DEF Next, SaveStep

\* The store implements the abstract feed: runs are shown whole, once, after
\* they are archived, and the archive never loses a row.
THEOREM StoreImplementsFeed == Spec => ImplementsFeed
<1>1. Init => Feed!Init
  BY FeedInit
<1>2. IInv /\ IInv' /\ [Next]_vars => [Feed!Next]_<<runRows, resultRows, published>>
  BY FeedStep
<1> QED
  BY <1>1, <1>2, AlwaysIInv, PTL DEF Spec, ImplementsFeed, Feed!Spec
=============================================================================
