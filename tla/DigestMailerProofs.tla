--------------------------- MODULE DigestMailerProofs ---------------------------
(***************************************************************************)
(* Proofs about DigestMailer for any numbers of addresses, sections,       *)
(* digests and test emails.  The inductive invariant follows one dispatch: *)
(* whoever is still on its list has not been written to, whoever is not    *)
(* has been, and the log lags behind the inboxes.  At the end, theorems    *)
(* about the Gem Guard score that decides what a digest warns of, for      *)
(* stocks with any indicators.                                             *)
(***************************************************************************)
EXTENDS DigestMailer, GemGuard, TLAPS

\* Two rows of a table or a list are of two addresses.
Lone(rows) == \A r, q \in rows : r.email = q.email => r = q

Tables ==
    /\ Lone(subs)
    /\ \A s \in Senders : Lone(listed[s]) /\ todo[s] \subseteq listed[s]
    /\ \A t \in Tests : todo[t] = {}

Beginning ==
    \A s \in Senders :
        /\ pc[s] \in {"idle", "list"} =>
              /\ todo[s] = {} /\ listed[s] = {} /\ attempted[s] = {}
              /\ \A e \in Emails : inbox[s][e] = 0
        /\ pc[s] = "done" => todo[s] = {}

Once ==
    \A s \in Senders, e \in Emails :
        /\ inbox[s][e] <= 1
        /\ inbox[s][e] > 0 => ~(pc[s] = "send" /\ e \in to[s])
        /\ inbox[s][e] > 0 \/ e \in to[s] => \A row \in todo[s] : row.email # e

Covered ==
    \A s \in Senders, e \in Emails :
        /\ logs[s][e] <= inbox[s][e]
        /\ pc[s] = "log" /\ status[s] = "SUCCESS" /\ e \in to[s] => logs[s][e] + 1 <= inbox[s][e]

Reached ==
    \A d \in Digests : pc[d] \in {"loop", "send", "log", "done"} => \A row \in listed[d] :
        Content(d, row) # {} /\ Sentinel \notin Content(d, row) =>
            \/ row.email \in attempted[d]
            \/ row \in todo[d]
            \/ pc[d] = "send" /\ row.email \in to[d]

Warned == \A d \in Digests : pc[d] # "idle" => Guard \in sections[d]

Inv == TypeOK /\ Tables /\ Beginning /\ Once /\ Covered /\ Reached /\ Warned

\* The table never gets a second row of an address.
LEMMA UpsertKeepsLone ==
    ASSUME Lone(subs), NEW email \in Emails, NEW prefs \in SUBSET Channels, subs \subseteq Row
    PROVE  Lone(Upserted(email, prefs)) /\ Upserted(email, prefs) \subseteq Row
  BY DEF Lone, Upserted, Row

\* There is always something for the Gem Guard section: PUMP's row.
LEMMA GuardSectionIsThere == GuardSection = {Guard}
<1>1. Watch!RiskScore(Watch!PUMP) >= 70
  BY DEF Watch!PUMP, Watch!Stock, Watch!RiskScore, Watch!Points, Watch!PIRPoints,
         Watch!VolumePoints, Watch!ARAPoints, Watch!ConsecutivePoints,
         Watch!LeveragePoints, Watch!SellingPoints, Watch!MomentumPoints
<1>2. Watch!PUMP \in Watch!HighInDigest(Watch!Surveillance)
  BY <1>1 DEF Watch!HighInDigest, Watch!Surveillance
<1> QED
  BY <1>2 DEF GuardSection

LEMMA InitInv == Init => Inv
<1> SUFFICES ASSUME Init PROVE Inv
  OBVIOUS
<1>1. TypeOK
  BY DEF Init, TypeOK, Outcomes
<1>2. Tables /\ Beginning /\ Once /\ Covered
  BY DEF Init, Tables, Lone, Beginning, Once, Covered, Senders
<1>3. Reached /\ Warned
  BY DEF Init, Reached, Warned, Senders
<1> QED
  BY <1>1, <1>2, <1>3 DEF Inv

LEMMA SubscribeInv == Inv /\ Subscribe => Inv'
<1> SUFFICES ASSUME Inv, NEW email \in Emails, NEW prefs \in SUBSET Channels,
                    subs' = Upserted(email, prefs),
                    UNCHANGED <<smtp, logs, inbox, pc, sections, todo, to,
                                status, listed, attempted>>
             PROVE  Inv'
  BY DEF Subscribe
<1>1. Lone(subs') /\ subs' \subseteq Row
  BY UpsertKeepsLone DEF Inv, Tables, TypeOK
<1>2. TypeOK' /\ Tables'
  BY <1>1 DEF Inv, TypeOK, Tables
<1>3. Beginning' /\ Once' /\ Covered' /\ Reached' /\ Warned'
  BY DEF Inv, Beginning, Once, Covered, Reached, Warned, Content
<1> QED
  BY <1>2, <1>3 DEF Inv

LEMMA BeginDispatchInv == ASSUME NEW d \in Digests PROVE Inv /\ BeginDispatch(d) => Inv'
<1> SUFFICES ASSUME Inv, BeginDispatch(d) PROVE Inv'
  OBVIOUS
<1>0. d \in Senders
  BY DEF Senders
<1>1. PICK some \in SUBSET (Channels \ {Guard}) :
          sections' = [sections EXCEPT ![d] = some \cup {Guard}]
  BY GuardSectionIsThere DEF BeginDispatch
<1>2. some \cup {Guard} \in SUBSET Channels
  BY DigestMailerAssumption
<1>3. TypeOK'
  BY <1>0, <1>1, <1>2 DEF BeginDispatch, Inv, TypeOK
<1>4. Tables' /\ Beginning' /\ Once' /\ Covered'
  BY <1>0 DEF BeginDispatch, Inv, TypeOK, Tables, Beginning, Once, Covered
<1>5. Reached'
  BY <1>0, <1>1 DEF BeginDispatch, Inv, TypeOK, Reached, Content, Senders
<1>6. Warned'
  BY <1>0, <1>1 DEF BeginDispatch, Inv, TypeOK, Warned, Senders
<1> QED
  BY <1>3, <1>4, <1>5, <1>6 DEF Inv

LEMMA ListSubscriptionsInv == ASSUME NEW d \in Digests PROVE Inv /\ ListSubscriptions(d) => Inv'
<1> SUFFICES ASSUME Inv, ListSubscriptions(d) PROVE Inv'
  OBVIOUS
<1>0. d \in Senders /\ d \notin Tests
  BY DigestMailerAssumption DEF Senders
<1>1. PICK rows \in SUBSET subs :
          /\ pc' = [pc EXCEPT ![d] = IF rows = {} THEN "done" ELSE "loop"]
          /\ todo' = [todo EXCEPT ![d] = rows]
          /\ listed' = [listed EXCEPT ![d] = rows]
  BY DEF ListSubscriptions
<1>2. /\ pc[d] = "list" /\ to[d] = {}
      /\ UNCHANGED <<smtp, subs, logs, inbox, sections, to, status, attempted>>
  BY <1>0 DEF ListSubscriptions, Inv, TypeOK
<1>3. TypeOK'
  BY <1>0, <1>1, <1>2 DEF Inv, TypeOK
<1>4. Lone(rows)
  BY DEF Inv, Tables, Lone
<1>5. Tables'
  BY <1>0, <1>1, <1>2, <1>4 DEF Inv, TypeOK, Tables
<1>6. Beginning' /\ Once' /\ Covered'
  BY <1>0, <1>1, <1>2 DEF Inv, TypeOK, Beginning, Once, Covered
<1>7. Reached' /\ Warned'
  BY <1>0, <1>1, <1>2 DEF Inv, TypeOK, Reached, Warned, Content, Senders
<1> QED
  BY <1>3, <1>5, <1>6, <1>7 DEF Inv

LEMMA SkipInv == ASSUME NEW d \in Digests PROVE Inv /\ Skip(d) => Inv'
<1> SUFFICES ASSUME Inv, Skip(d) PROVE Inv'
  OBVIOUS
<1>0. d \in Senders /\ d \notin Tests
  BY DigestMailerAssumption DEF Senders
<1>1. PICK row \in todo[d] :
          /\ Content(d, row) = {} \/ Sentinel \in Content(d, row)
          /\ todo' = [todo EXCEPT ![d] = todo[d] \ {row}]
  BY DEF Skip
<1>2. UNCHANGED <<smtp, subs, logs, inbox, pc, sections, to, status, listed, attempted>>
  BY DEF Skip
<1>3. TypeOK' /\ Tables'
  BY <1>0, <1>1, <1>2 DEF Inv, TypeOK, Tables
<1>4. Beginning' /\ Once' /\ Covered' /\ Warned'
  BY <1>0, <1>1, <1>2 DEF Inv, TypeOK, Beginning, Once, Covered, Warned
<1>5. Reached'
  BY <1>0, <1>1, <1>2 DEF Inv, TypeOK, Reached, Content, Senders
<1> QED
  BY <1>3, <1>4, <1>5 DEF Inv

LEMMA WriteInv == ASSUME NEW d \in Digests PROVE Inv /\ Write(d) => Inv'
<1> SUFFICES ASSUME Inv, Write(d) PROVE Inv'
  OBVIOUS
<1>0. d \in Senders /\ d \notin Tests
  BY DigestMailerAssumption DEF Senders
<1>1. PICK row \in todo[d] :
          /\ todo' = [todo EXCEPT ![d] = todo[d] \ {row}]
          /\ to' = [to EXCEPT ![d] = {row.email}]
  BY DEF Write
<1>2. /\ pc[d] = "loop" /\ pc' = [pc EXCEPT ![d] = "send"]
      /\ UNCHANGED <<smtp, subs, logs, inbox, sections, status, listed, attempted>>
  BY DEF Write
<1>3. row \in Row /\ row.email \in Emails
  BY <1>0, <1>1 DEF Inv, TypeOK, Row
<1>4. TypeOK'
  BY <1>0, <1>1, <1>2, <1>3 DEF Inv, TypeOK
<1>5. Tables'
  BY <1>0, <1>1, <1>2 DEF Inv, TypeOK, Tables
<1>6. Beginning' /\ Covered' /\ Warned'
  BY <1>0, <1>1, <1>2 DEF Inv, TypeOK, Beginning, Covered, Warned, Senders
<1>7. Once'
  <2>1. \A q \in todo[d] \ {row} : q.email # row.email
    BY <1>0, <1>1 DEF Inv, Tables, Lone
  <2>2. inbox[d][row.email] <= 1 /\ ~(inbox[d][row.email] > 0)
    BY <1>0, <1>1, <1>3 DEF Inv, Once
  <2> QED
    BY <1>0, <1>1, <1>2, <1>3, <2>1, <2>2 DEF Inv, TypeOK, Once
<1>8. Reached'
  BY <1>0, <1>1, <1>2 DEF Inv, TypeOK, Reached, Content, Senders
<1> QED
  BY <1>4, <1>5, <1>6, <1>7, <1>8 DEF Inv

LEMMA EndDispatchInv == ASSUME NEW d \in Digests PROVE Inv /\ EndDispatch(d) => Inv'
<1> SUFFICES ASSUME Inv, EndDispatch(d) PROVE Inv'
  OBVIOUS
<1>0. d \in Senders
  BY DEF Senders
<1>1. TypeOK' /\ Tables' /\ Beginning' /\ Once' /\ Covered'
  BY <1>0 DEF EndDispatch, Inv, TypeOK, Tables, Beginning, Once, Covered
<1>2. Reached' /\ Warned'
  BY <1>0 DEF EndDispatch, Inv, TypeOK, Reached, Warned, Content, Senders
<1> QED
  BY <1>1, <1>2 DEF Inv

LEMMA BeginTestInv == ASSUME NEW t \in Tests PROVE Inv /\ BeginTest(t) => Inv'
<1> SUFFICES ASSUME Inv, BeginTest(t) PROVE Inv'
  OBVIOUS
<1>0. t \in Senders /\ t \notin Digests
  BY DigestMailerAssumption DEF Senders
<1>1. PICK email \in Emails : to' = [to EXCEPT ![t] = {email}]
  BY DEF BeginTest
<1>2. TypeOK' /\ Tables'
  BY <1>0, <1>1 DEF BeginTest, Inv, TypeOK, Tables
<1>3. Beginning' /\ Once' /\ Covered'
  BY <1>0, <1>1 DEF BeginTest, Inv, TypeOK, Beginning, Once, Covered
<1>4. Reached' /\ Warned'
  BY <1>0, <1>1 DEF BeginTest, Inv, TypeOK, Reached, Warned, Content, Senders
<1> QED
  BY <1>2, <1>3, <1>4 DEF Inv

LEMMA SendInv == ASSUME NEW s \in Senders PROVE Inv /\ Send(s) => Inv'
<1> SUFFICES ASSUME Inv, Send(s) PROVE Inv'
  OBVIOUS
<1>1. PICK ending \in SendRaw :
        /\ inbox' = [inbox EXCEPT ![s] =
              [e \in Emails |-> inbox[s][e] + (IF ending.accepted /\ e \in to[s] THEN 1 ELSE 0)]]
        /\ status' = [status EXCEPT ![s] = ending.status]
  BY DEF Send
<1>2. /\ ending.accepted \in BOOLEAN /\ ending.status \in Outcomes
      /\ ending.status = "SUCCESS" => ending.accepted
  <2>1. CASE smtp
    <3>1. ending \in Endings /\ (ending.status = "SUCCESS" => ending.accepted)
      BY <1>1, <2>1 DEF SendRaw
    <3>2. ending.accepted \in BOOLEAN /\ ending.status \in Outcomes
      BY <3>1 DEF Endings
    <3> QED
      BY <3>1, <3>2
  <2>2. CASE ~smtp
    <3>1. ending = [accepted |-> FALSE, status |-> "FAILED"]
      BY <1>1, <2>2 DEF SendRaw
    <3>2. ending.accepted = FALSE /\ ending.status = "FAILED"
      BY <3>1
    <3> QED
      BY <3>2 DEF Outcomes
  <2> QED
    BY <2>1, <2>2
<1>3. /\ pc[s] = "send" /\ pc' = [pc EXCEPT ![s] = "log"]
      /\ attempted' = [attempted EXCEPT ![s] = attempted[s] \cup to[s]]
      /\ UNCHANGED <<smtp, subs, logs, sections, todo, to, listed>>
  BY DEF Send
<1>4. /\ \A e \in Emails : inbox[s][e] \in Nat
      /\ \A x \in Senders : x # s => inbox'[x] = inbox[x] /\ pc'[x] = pc[x] /\ status'[x] = status[x]
      /\ pc'[s] = "log" /\ status'[s] = ending.status
      /\ \A e \in Emails : inbox'[s][e] = IF ending.accepted /\ e \in to[s]
                                          THEN inbox[s][e] + 1 ELSE inbox[s][e]
  BY <1>1, <1>3 DEF Inv, TypeOK
<1>5. TypeOK'
  <2>1. [e \in Emails |-> inbox[s][e] + (IF ending.accepted /\ e \in to[s] THEN 1 ELSE 0)]
           \in [Emails -> Nat]
    BY <1>4
  <2>2. inbox' \in [Senders -> [Emails -> Nat]]
    BY <1>1, <2>1 DEF Inv, TypeOK
  <2>3. attempted[s] \cup to[s] \in SUBSET Emails
    BY DEF Inv, TypeOK
  <2> QED
    BY <1>1, <1>2, <1>3, <2>2, <2>3 DEF Inv, TypeOK
<1>6. Tables' /\ Beginning'
  BY <1>3, <1>4 DEF Inv, TypeOK, Tables, Beginning
<1>7. Once'
  BY <1>3, <1>4 DEF Inv, TypeOK, Once
<1>8. Covered'
  <2>1. \A x \in Senders, e \in Emails : logs[x][e] \in Nat /\ inbox[x][e] \in Nat
    BY DEF Inv, TypeOK
  <2> QED
    BY <1>2, <1>3, <1>4, <2>1 DEF Inv, Covered
<1>9. Reached' /\ Warned'
  BY <1>3 DEF Inv, TypeOK, Reached, Warned, Content, Senders
<1> QED
  BY <1>5, <1>6, <1>7, <1>8, <1>9 DEF Inv

LEMMA LogEmailInv == ASSUME NEW s \in Senders PROVE Inv /\ LogEmail(s) => Inv'
<1> SUFFICES ASSUME Inv, LogEmail(s) PROVE Inv'
  OBVIOUS
<1>1. /\ pc[s] = "log"
      /\ pc' = [pc EXCEPT ![s] = IF s \in Digests THEN "loop" ELSE "done"]
      /\ to' = [to EXCEPT ![s] = {}]
      /\ UNCHANGED <<smtp, subs, inbox, sections, todo, status, listed, attempted>>
  BY DEF LogEmail
<1>2. /\ logs' \in [Senders -> [Emails -> Nat]]
      /\ \A x \in Senders, e \in Emails :
            \/ logs'[x][e] = logs[x][e]
            \/ /\ x = s /\ status[s] = "SUCCESS" /\ e \in to[s]
               /\ logs'[x][e] = logs[x][e] + 1
  <2>1. CASE UNCHANGED logs
    BY <2>1 DEF Inv, TypeOK
  <2>2. CASE logs' = [logs EXCEPT ![s] =
               [e \in Emails |-> logs[s][e] + (IF status[s] = "SUCCESS" /\ e \in to[s] THEN 1 ELSE 0)]]
    <3>1. \A e \in Emails : logs[s][e] \in Nat
      BY DEF Inv, TypeOK
    <3>2. [e \in Emails |-> logs[s][e] + (IF status[s] = "SUCCESS" /\ e \in to[s] THEN 1 ELSE 0)]
             \in [Emails -> Nat]
      BY <3>1
    <3>3. logs' \in [Senders -> [Emails -> Nat]]
      BY <2>2, <3>2 DEF Inv, TypeOK
    <3>4. \A x \in Senders : x # s => logs'[x] = logs[x]
      BY <2>2 DEF Inv, TypeOK
    <3>5. \A e \in Emails : logs'[s][e] = logs[s][e] + (IF status[s] = "SUCCESS" /\ e \in to[s] THEN 1 ELSE 0)
      BY <2>2 DEF Inv, TypeOK
    <3> QED
      BY <3>1, <3>3, <3>4, <3>5
  <2> QED
    BY <2>1, <2>2 DEF LogEmail, Logged
<1>3. TypeOK'
  BY <1>1, <1>2 DEF Inv, TypeOK
<1>4. Tables' /\ Beginning' /\ Once'
  BY <1>1 DEF Inv, TypeOK, Tables, Beginning, Once, Senders
<1>5. Covered'
  BY <1>1, <1>2 DEF Inv, TypeOK, Covered
<1>6. Reached' /\ Warned'
  BY <1>1 DEF Inv, TypeOK, Reached, Warned, Content, Senders
<1> QED
  BY <1>3, <1>4, <1>5, <1>6 DEF Inv

LEMMA CrashInv == Inv /\ Crash => Inv'
<1> SUFFICES ASSUME Inv, Crash PROVE Inv'
  OBVIOUS
<1>1. TypeOK' /\ Tables'
  BY DEF Crash, Inv, TypeOK, Tables, Senders
<1>2. Beginning' /\ Once' /\ Covered'
  BY DEF Crash, Inv, TypeOK, Beginning, Once, Covered
<1>3. Reached' /\ Warned'
  BY DEF Crash, Inv, TypeOK, Beginning, Reached, Warned, Content, Senders
<1> QED
  BY <1>1, <1>2, <1>3 DEF Inv

LEMMA AlwaysInv == Spec => []Inv
<1>1. Init => Inv
  BY InitInv
<1>2. Inv /\ [Next]_vars => Inv'
  <2>1. Inv /\ UNCHANGED vars => Inv'
    BY DEF vars, Inv, TypeOK, Tables, Beginning, Once, Covered, Reached, Warned, Content
  <2> QED
    BY <2>1, SubscribeInv, BeginDispatchInv, ListSubscriptionsInv, SkipInv, WriteInv,
       EndDispatchInv, BeginTestInv, SendInv, LogEmailInv, CrashInv DEF Next
<1> QED
  BY <1>1, <1>2, PTL DEF Spec

-----------------------------------------------------------------------------
\* The mailer keeps its types, and writes to somebody exactly while it sends.
THEOREM MailerTyped == Spec => []TypeOK
  BY AlwaysInv, PTL DEF Inv

\* One cycle sends a subscriber at most one digest.
THEOREM MailerSendsOneDigest == Spec => []OneDigestPerSubscriber
<1>1. Inv => OneDigestPerSubscriber
  BY DEF Inv, Once, OneDigestPerSubscriber, Senders
<1> QED
  BY <1>1, AlwaysInv, PTL

\* The email log claims no delivery that did not happen.
THEOREM MailerLogsDeliveries == Spec => []SuccessIsDelivered
<1>1. Inv => SuccessIsDelivered
  BY DEF Inv, Covered, SuccessIsDelivered
<1> QED
  BY <1>1, AlwaysInv, PTL

\* Nobody's failure stops the others.
THEOREM MailerGoesOn == Spec => []FailingSendStopsNobody
<1>1. Inv => FailingSendStopsNobody
  BY DEF Inv, Reached, Beginning, FailingSendStopsNobody, Senders
<1> QED
  BY <1>1, AlwaysInv, PTL

\* Every dispatch warns all subscribers of Gem Guard.
THEOREM MailerWarns == Spec => []WarningsReachSubscribers
<1>1. Inv => WarningsReachSubscribers
  BY DEF Inv, Reached, Beginning, Warned, WarningsReachSubscribers, Content, Senders
<1> QED
  BY <1>1, AlwaysInv, PTL
-----------------------------------------------------------------------------
Analysis == [ticker : Int, pir : Int, volume : Int, spike : Int, ara : Int,
             consec : Int, der : Int, selling : Int, rsi : Int]

\* No indicator of t is better than that of s.
NoBetter(s, t) ==
    /\ s.pir <= t.pir /\ s.volume <= t.volume
    /\ s.spike <= t.spike /\ t.ara <= s.ara
    /\ s.consec <= t.consec /\ s.der <= t.der
    /\ s.selling <= t.selling /\ s.rsi <= t.rsi

Severity(level) == CASE level = "LOW" -> 0 [] level = "MEDIUM" -> 1 [] level = "HIGH" -> 2

\* The points are between none and 130, of which 100 count.
LEMMA PointsTyped ==
    ASSUME NEW s \in Analysis
    PROVE  Points(s) \in 0 .. 130 /\ RiskScore(s) \in 0 .. 100
<1>1. Points(s) \in 0 .. 130
  BY DEF Points, PIRPoints, VolumePoints, ARAPoints, ConsecutivePoints, LeveragePoints,
         SellingPoints, MomentumPoints
<1> QED
  BY <1>1 DEF RiskScore

\* Wherever the thresholds are and however the score is capped, a stock whose
\* indicators are all at least as alarming never has a lower score or level
\* (ComputeRiskScore, with its seven cascades and the cap).
THEOREM WorseIsNeverSafer ==
    ASSUME NEW s \in Analysis, NEW t \in Analysis, NoBetter(s, t)
    PROVE  /\ RiskScore(s) <= RiskScore(t)
           /\ Severity(RiskLevel(s)) <= Severity(RiskLevel(t))
           /\ UMASuspected(s) => UMASuspected(t)
<1>1. PIRPoints(s) <= PIRPoints(t) /\ VolumePoints(s) <= VolumePoints(t)
  BY DEF PIRPoints, VolumePoints, NoBetter, Analysis
<1>2. ARAPoints(s) <= ARAPoints(t)
  BY DEF ARAPoints, NoBetter, Analysis
<1>3. /\ ConsecutivePoints(s) <= ConsecutivePoints(t)
      /\ LeveragePoints(s) <= LeveragePoints(t)
      /\ SellingPoints(s) <= SellingPoints(t)
      /\ MomentumPoints(s) <= MomentumPoints(t)
  BY DEF ConsecutivePoints, LeveragePoints, SellingPoints, MomentumPoints, NoBetter, Analysis
<1>4. Points(s) <= Points(t)
  <2>1. \A x \in {s, t} :
           /\ PIRPoints(x) \in Int /\ VolumePoints(x) \in Int /\ ARAPoints(x) \in Int
           /\ ConsecutivePoints(x) \in Int /\ LeveragePoints(x) \in Int
           /\ SellingPoints(x) \in Int /\ MomentumPoints(x) \in Int
    BY DEF PIRPoints, VolumePoints, ARAPoints, ConsecutivePoints, LeveragePoints,
           SellingPoints, MomentumPoints
  <2> QED
    BY <1>1, <1>2, <1>3, <2>1 DEF Points
<1>5. RiskScore(s) <= RiskScore(t)
  BY <1>4, PointsTyped DEF RiskScore
<1>6. Severity(RiskLevel(s)) <= Severity(RiskLevel(t))
  BY <1>5, PointsTyped DEF RiskLevel, Severity
<1>7. UMASuspected(s) => UMASuspected(t)
  BY DEF UMASuspected, NoBetter, Analysis
<1> QED
  BY <1>5, <1>6, <1>7

\* The digest warns of exactly the stocks that the page counts as high-risk:
\* the second half of DispatchScheduledDigest's condition adds nobody.
THEOREM PageAndDigestAgree ==
    ASSUME NEW stocks \in SUBSET Analysis
    PROVE  HighOnPage(stocks) = HighInDigest(stocks)
  BY DEF HighOnPage, HighInDigest, RiskLevel

\* One kind of alarm is not enough: a stock at high risk has points of at least
\* three of the seven indicators.
Alarms(s) == {k \in 1 .. 7 :
    CASE k = 1 -> PIRPoints(s) > 0 [] k = 2 -> VolumePoints(s) > 0
      [] k = 3 -> ARAPoints(s) > 0 [] k = 4 -> ConsecutivePoints(s) > 0
      [] k = 5 -> LeveragePoints(s) > 0 [] k = 6 -> SellingPoints(s) > 0
      [] k = 7 -> MomentumPoints(s) > 0}

THEOREM HighRiskNeedsThreeAlarms ==
    ASSUME NEW s \in Analysis, RiskLevel(s) = "HIGH"
    PROVE  \A j, k \in 1 .. 7 : \E l \in Alarms(s) : l # j /\ l # k
<1>1. RiskScore(s) >= 70
  BY DEF RiskLevel
<1>2. Points(s) >= 70
  BY <1>1, PointsTyped DEF RiskScore
<1> DEFINE p1 == PIRPoints(s)
           p2 == VolumePoints(s)
           p3 == ARAPoints(s)
           p4 == ConsecutivePoints(s)
           p5 == LeveragePoints(s)
           p6 == SellingPoints(s)
           p7 == MomentumPoints(s)
<1>3. p1 + p2 + p3 + p4 + p5 + p6 + p7 >= 70
  BY <1>2 DEF Points
<1>4. /\ p1 \in 0 .. 30 /\ p2 \in 0 .. 25 /\ p3 \in 0 .. 25 /\ p4 \in 0 .. 20
      /\ p5 \in 0 .. 10 /\ p6 \in 0 .. 15 /\ p7 \in 0 .. 5
  BY DEF PIRPoints, VolumePoints, ARAPoints, ConsecutivePoints, LeveragePoints,
         SellingPoints, MomentumPoints
<1>5. /\ p1 > 0 => 1 \in Alarms(s)
      /\ p2 > 0 => 2 \in Alarms(s)
      /\ p3 > 0 => 3 \in Alarms(s)
      /\ p4 > 0 => 4 \in Alarms(s)
      /\ p5 > 0 => 5 \in Alarms(s)
      /\ p6 > 0 => 6 \in Alarms(s)
      /\ p7 > 0 => 7 \in Alarms(s)
  BY DEF Alarms
<1> HIDE DEF p1, p2, p3, p4, p5, p6, p7
<1> QED
  BY <1>3, <1>4, <1>5

\* The sample list has one stock at high risk, the first: Gem Guard's section
\* of the digest is never empty.
THEOREM SampleHasOneHighRisk == HighInDigest(Surveillance) = {PUMP}
  BY DEF HighInDigest, Surveillance, PUMP, GOTO, BBCA, ASII, TLKM, Stock, RiskLevel,
         RiskScore, Points, PIRPoints, VolumePoints, ARAPoints, ConsecutivePoints,
         LeveragePoints, SellingPoints, MomentumPoints
=============================================================================
