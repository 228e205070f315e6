----------------------------- MODULE DigestMailer -----------------------------
(***************************************************************************)
(* Email: the subscriptions and the email log of repository.Store and the  *)
(* notifier.Mailer.  Every ranking cycle starts a goroutine that runs      *)
(* DispatchScheduledDigest, so digests of overlapping cycles overlap too;  *)
(* POST /api/v1/email/test runs SendTestEmail; POST /api/v1/subscribe      *)
(* changes the subscriptions while digests are under way.                  *)
(*                                                                         *)
(* Kept: the listing, the selection per subscriber, every skip, the send   *)
(* and the log row as separate steps, each with its failures, and the      *)
(* death of the process in between.  Abstracted: a digest is the set of    *)
(* its non-empty sections (Channels); the template renders unless the      *)
(* Sentinel section is in it, whose row names a field SpringateAnalysis    *)
(* does not have; an SMTP conversation is its outcome.  External: the SMTP *)
(* server, which may accept a message whose confirmation gets lost.        *)
(***************************************************************************)
EXTENDS Naturals, Sequences, FiniteSets

CONSTANTS
    Emails,    \* addresses that may subscribe
    Channels,  \* sections of a digest
    Guard,     \* the Gem Guard section
    Sentinel,  \* the Gem Sentinel section
    Digests,   \* calls of DispatchScheduledDigest, one per ranking cycle
    Tests      \* calls of SendTestEmail

ASSUME DigestMailerAssumption ==
    /\ Guard \in Channels /\ Sentinel \in Channels /\ Guard # Sentinel
    /\ Digests \cap Tests = {}

Senders == Digests \cup Tests
Row == [email : Emails, prefs : SUBSET Channels]
Outcomes == {"SUCCESS", "FAILED"}

VARIABLES
    smtp,           \* SMTP_HOST is set
    subs,           \* table email_subscriptions
    logs,           \* table email_logs: the statuses, by sender and address
    inbox,          \* external: messages each address got, by sender
    pc,             \* where each sender is
    sections,       \* the non-empty sections of each digest
    todo,           \* rows listed and not yet looked at
    to,             \* the address a sender is writing to, {} for none
    status,         \* DispatchScheduledDigest's status
    listed,         \* history: the rows ListSubscriptions returned
    attempted       \* history: addresses SendRaw was called for

vars == <<smtp, subs, logs, inbox, pc, sections, todo, to,
          status, listed, attempted>>

(***************************************************************************)
(* Subscriptions.                                                          *)
(***************************************************************************)
\* Mutant: the row is inserted although the address has one.
UpsertedTwice(email, prefs) == subs \cup {[email |-> email, prefs |-> prefs]}

Upserted(email, prefs) ==
    {row \in subs : row.email # email} \cup {[email |-> email, prefs |-> prefs]}

Subscribe ==
    /\ \E email \in Emails, prefs \in SUBSET Channels : subs' = Upserted(email, prefs)
    /\ UNCHANGED <<smtp, logs, inbox, pc, sections, todo, to,
                   status, listed, attempted>>

(***************************************************************************)
(* DispatchScheduledDigest.                                                *)
(***************************************************************************)
Watch == INSTANCE GemGuard

Content(d, row) == sections[d] \cap row.prefs

\* A section is in the digest when it has rows to show: the ranked stocks, the
\* scores under 0.50, and of the surveillance list the stocks at high risk.
GuardSection == IF Watch!HighInDigest(Watch!Surveillance) = {} THEN {} ELSE {Guard}

BeginDispatch(d) ==
    /\ pc[d] = "idle"
    /\ pc' = [pc EXCEPT ![d] = "list"]
    /\ \E some \in SUBSET (Channels \ {Guard}) :
          sections' = [sections EXCEPT ![d] = some \cup GuardSection]
    /\ UNCHANGED <<smtp, subs, logs, inbox, todo, to, status,
                   listed, attempted>>

\* A failing query ends the dispatch; a failing iteration leaves the rows read
\* so far, for ListSubscriptions does not ask for rows.Err.
ListSubscriptions(d) ==
    /\ pc[d] = "list"
    /\ \E rows \in SUBSET subs :
        /\ pc' = [pc EXCEPT ![d] = IF rows = {} THEN "done" ELSE "loop"]
        /\ todo' = [todo EXCEPT ![d] = rows]
        /\ listed' = [listed EXCEPT ![d] = rows]
    /\ UNCHANGED <<smtp, subs, logs, inbox, sections, to, status,
                   attempted>>

\* Nothing to tell this subscriber, or the template fails: on to the next.
Skip(d) ==
    /\ pc[d] = "loop"
    /\ \E row \in todo[d] :
        /\ Content(d, row) = {} \/ Sentinel \in Content(d, row)
        /\ todo' = [todo EXCEPT ![d] = @ \ {row}]
    /\ UNCHANGED <<smtp, subs, logs, inbox, pc, sections, to,
                   status, listed, attempted>>

Write(d) ==
    /\ pc[d] = "loop"
    /\ \E row \in todo[d] :
        /\ Content(d, row) # {} /\ Sentinel \notin Content(d, row)
        /\ todo' = [todo EXCEPT ![d] = @ \ {row}]
        /\ to' = [to EXCEPT ![d] = {row.email}]
    /\ pc' = [pc EXCEPT ![d] = "send"]
    /\ UNCHANGED <<smtp, subs, logs, inbox, sections, status,
                   listed, attempted>>

EndDispatch(d) ==
    /\ pc[d] = "loop" /\ todo[d] = {}
    /\ pc' = [pc EXCEPT ![d] = "done"]
    /\ UNCHANGED <<smtp, subs, logs, inbox, sections, todo, to,
                   status, listed, attempted>>

(***************************************************************************)
(* SendTestEmail, and what both share: SendRaw and LogEmail.               *)
(***************************************************************************)
BeginTest(t) ==
    /\ pc[t] = "idle"
    /\ pc' = [pc EXCEPT ![t] = "send"]
    /\ \E email \in Emails : to' = [to EXCEPT ![t] = {email}]
    /\ UNCHANGED <<smtp, subs, logs, inbox, sections, todo,
                   status, listed, attempted>>

Endings == [accepted : BOOLEAN, status : Outcomes]

\* Mutant: the status of a digest does not follow the error.
SendRawUnchecked == IF smtp THEN Endings ELSE {[accepted |-> FALSE, status |-> "FAILED"]}

\* How SendRaw can end: without a host it fails at once; every command of the
\* conversation can fail; the message may have been accepted all the same when
\* the answer to the last one is lost.
SendRaw == IF smtp THEN {e \in Endings : e.status = "SUCCESS" => e.accepted}
                   ELSE {[accepted |-> FALSE, status |-> "FAILED"]}

Send(s) ==
    /\ pc[s] = "send"
    /\ \E ending \in SendRaw :
        /\ inbox' = [inbox EXCEPT ![s] =
              [e \in Emails |-> @[e] + (IF ending.accepted /\ e \in to[s] THEN 1 ELSE 0)]]
        /\ status' = [status EXCEPT ![s] = ending.status]
    /\ attempted' = [attempted EXCEPT ![s] = @ \cup to[s]]
    /\ pc' = [pc EXCEPT ![s] = "log"]
    /\ UNCHANGED <<smtp, subs, logs, sections, todo, to, listed>>

Logged(s) ==
    \/ logs' = [logs EXCEPT ![s] =
          [e \in Emails |-> @[e] + (IF status[s] = "SUCCESS" /\ e \in to[s] THEN 1 ELSE 0)]]
    \/ UNCHANGED logs

\* Mutant: a failed send ends the whole dispatch.
LogEmailAndReturn(s) ==
    /\ pc[s] = "log"
    /\ Logged(s)
    /\ pc' = [pc EXCEPT ![s] =
          IF s \in Digests /\ status[s] = "SUCCESS" THEN "loop" ELSE "done"]
    /\ to' = [to EXCEPT ![s] = {}]
    /\ UNCHANGED <<smtp, subs, inbox, sections, todo, status,
                   listed, attempted>>

\* LogEmail; both callers ignore its error.
LogEmail(s) ==
    /\ pc[s] = "log"
    /\ Logged(s)
    /\ pc' = [pc EXCEPT ![s] = IF s \in Digests THEN "loop" ELSE "done"]
    /\ to' = [to EXCEPT ![s] = {}]
    /\ UNCHANGED <<smtp, subs, inbox, sections, todo, status,
                   listed, attempted>>

\* The process dies: nothing resumes a digest; the tables and inboxes remain.
Crash ==
    /\ pc' = [s \in Senders |-> IF pc[s] \in {"idle", "done"} THEN pc[s] ELSE "dead"]
    /\ to' = [s \in Senders |-> {}]
    /\ todo' = [s \in Senders |-> {}]
    /\ UNCHANGED <<smtp, subs, logs, inbox, sections, status,
                   listed, attempted>>

Init ==
    /\ smtp \in BOOLEAN
    /\ subs = {}
    /\ logs = [s \in Senders |-> [e \in Emails |-> 0]]
    /\ inbox = [s \in Senders |-> [e \in Emails |-> 0]]
    /\ pc = [s \in Senders |-> "idle"]
    /\ sections = [s \in Senders |-> {}]
    /\ todo = [s \in Senders |-> {}]
    /\ to = [s \in Senders |-> {}]
    /\ status = [s \in Senders |-> "SUCCESS"]
    /\ listed = [s \in Senders |-> {}]
    /\ attempted = [s \in Senders |-> {}]

Next ==
    \/ Subscribe
    \/ \E d \in Digests : \/ BeginDispatch(d) \/ ListSubscriptions(d)
                          \/ Skip(d) \/ Write(d) \/ EndDispatch(d)
    \/ \E t \in Tests : BeginTest(t)
    \/ \E s \in Senders : Send(s) \/ LogEmail(s)
    \/ Crash

Spec == Init /\ [][Next]_vars
-----------------------------------------------------------------------------
TypeOK ==
    /\ smtp \in BOOLEAN
    /\ subs \subseteq Row
    /\ logs \in [Senders -> [Emails -> Nat]]
    /\ inbox \in [Senders -> [Emails -> Nat]]
    /\ pc \in [Senders -> {"idle", "list", "loop", "send", "log", "done", "dead"}]
    /\ sections \in [Senders -> SUBSET Channels]
    /\ todo \in [Senders -> SUBSET Row]
    /\ to \in [Senders -> SUBSET Emails]
    /\ status \in [Senders -> Outcomes]
    /\ listed \in [Senders -> SUBSET Row]
    /\ attempted \in [Senders -> SUBSET Emails]
    /\ \A s \in Senders : pc[s] \in {"send", "log"} <=> to[s] # {}

\* However often a subscriber changes preferences, before or during a dispatch,
\* one cycle sends him at most one digest (the upsert of SaveSubscription, the
\* loop of DispatchScheduledDigest).
OneDigestPerSubscriber == \A d \in Digests, e \in Emails : inbox[d][e] <= 1

\* The email log never claims a delivery that did not happen: whatever fails,
\* SUCCESS rows are covered by accepted messages (DispatchScheduledDigest and
\* SendTestEmail).  The converse does not hold: a crash, a failing insert or a
\* lost confirmation leaves deliveries the log does not show.
SuccessIsDelivered == \A s \in Senders, e \in Emails : logs[s][e] <= inbox[s][e]

\* Nothing that happens to one subscriber stops the others: a dispatch that ran
\* to its end wrote to every listed subscriber due a digest that can be
\* rendered, whoever's send or template failed
\* (the loop of DispatchScheduledDigest).
FailingSendStopsNobody ==
    \A d \in Digests : pc[d] = "done" => \A row \in listed[d] :
        Content(d, row) # {} /\ Sentinel \notin Content(d, row) => row.email \in attempted[d]

\* Whatever the ranking holds, and even if it is empty, a dispatch that ran to
\* its end wrote to all listed subscribers of Gem Guard whose digest can be
\* rendered: the sample list always has a stock to warn of (main.go:335-461,
\* notifier.go:343-370).
WarningsReachSubscribers ==
    \A d \in Digests : pc[d] = "done" => \A row \in listed[d] :
        Guard \in row.prefs /\ Sentinel \notin Content(d, row) => row.email \in attempted[d]

\* Said by the README of the digests: gems, high-risk and critical Gem Sentinel
\* sections are sent.  A dispatch that ran to its end then wrote to everybody
\* who was due something.
DueDigestsAreSent ==
    \A d \in Digests : pc[d] = "done" => \A row \in listed[d] :
        Content(d, row) # {} => row.email \in attempted[d]
=============================================================================
