------------------------------ MODULE MCScheduler ------------------------------
(***************************************************************************)
(* Bounds: a quarter of two minutes of two units, so that a minute can     *)
(* begin before, at and after a slot, and a day plus a bit, so that the    *)
(* last slot of a day is passed from every side; the clock is set back     *)
(* once and jumps ahead any number of times, by any number of units.       *)
(***************************************************************************)
EXTENDS Scheduler
===============================================================================
