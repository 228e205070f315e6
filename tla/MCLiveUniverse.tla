--------------------------- MODULE MCLiveUniverse ---------------------------
(***************************************************************************)
(* Bounds: two symbols, a limit of two stocks and up to three screener     *)
(* rows, so that pages repeat symbols and exceed the limit; two attempts   *)
(* per request, so that both the retry and the last failure happen; rows   *)
(* live one hour and the clock knows two, so that rows expire.             *)
(***************************************************************************)
EXTENDS LiveUniverse
=============================================================================
