------------------------------ MODULE RunData ------------------------------
(***************************************************************************)
(* The value every other component passes around: service.RunResult, one  *)
(* finished ranking cycle.                                                 *)
(*                                                                         *)
(*   id      RunID, a fresh uuid per run: uuids are numbered in the order  *)
(*           they are drawn, which is all that telling them apart needs    *)
(*   at      CalculatedAt (and DataAsOf, the same reading of the clock),   *)
(*           truncated to the minute                                       *)
(*   gen     not a field of the Go struct: which universe of snapshots the *)
(*           run was ranked from, 0 for service.MockUniverse and n for the *)
(*           n-th universe the provider handed out                         *)
(*   stocks  Stocks, the ranked tickers, best first; Count is its length   *)
(*                                                                         *)
(* Stale is not here: no code under cmd/ or internal/ ever sets it.        *)
(***************************************************************************)
EXTENDS Naturals, Sequences

CONSTANTS Tickers,    \* the issuers of the universe
          Rankings,   \* the rankings service.Rank may return
          RunIds,     \* the uuids this instance may draw: a set of numbers
          Minutes,    \* the readings of the wall clock
          Gens        \* the universes of snapshots, 0 the mock one

ASSUME RunDataAssumption ==
    /\ RunIds \subseteq Nat \ {0}
    /\ Minutes \subseteq Nat
    /\ Gens \subseteq Nat
    /\ Rankings \subseteq Seq(Tickers)
    /\ \A s \in Rankings : \A i, j \in DOMAIN s : s[i] = s[j] => i = j

RunResult == [id : RunIds, at : Minutes, gen : Gens, stocks : Rankings]

\* The zero RunResult of Go: no RunID and no Stocks.
NoRun == [id |-> 0, at |-> 0, gen |-> 0, stocks |-> <<>>]

RunOrNone == RunResult \cup {NoRun}

Count(r) == Len(r.stocks)
=============================================================================
