------------------------------ MODULE RunFeed ------------------------------
(***************************************************************************)
(* What repository.Store promises those who read runs: a feed to which a   *)
(* run is added whole, once, and only when the archive on disk already     *)
(* holds all of it; an archive that only grows; and a restart, after which *)
(* the feed starts empty over the archive as it was.                       *)
(***************************************************************************)
EXTENDS RunData

VARIABLES rows,     \* archived runs: [id, count]
          results,  \* archived results: [run, ticker]
          feed      \* runs shown to readers since the start, oldest first

Archived(r) ==
    /\ [id |-> r.id, count |-> Count(r)] \in rows
    /\ \A i \in 1..Count(r) : [run |-> r.id, ticker |-> r.stocks[i]] \in results

Shown(r) == \E i \in DOMAIN feed : feed[i].id = r.id

Init == rows = {} /\ results = {} /\ feed = <<>>

Archive ==
    /\ rows \subseteq rows' /\ results \subseteq results'
    /\ UNCHANGED feed

Show ==
    /\ \E r \in RunResult :
          Archived(r) /\ ~Shown(r) /\ feed' = Append(feed, r)
    /\ UNCHANGED <<rows, results>>

Restart == feed' = <<>> /\ UNCHANGED <<rows, results>>

Next == Archive \/ Show \/ Restart

Spec == Init /\ [][Next]_<<rows, results, feed>>
=============================================================================
