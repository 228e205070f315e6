------------------------------- MODULE Scheduler -------------------------------
(***************************************************************************)
(* When ranking cycles run: nextScheduleSlot and the scheduler goroutine   *)
(* of main.go, which sleeps to the next of the slots 00:00, 06:00, 12:00   *)
(* and 18:00 WIB, refreshes, runs a cycle and plans again; and the         *)
(* dashboard, which computes "next update" from the minute of the run that *)
(* it shows.                                                               *)
(*                                                                         *)
(* Kept: every reading of the clock is a step of its own, because a slot   *)
(* may pass between two of them.  time.Sleep counts down by itself (left): *)
(* a wall clock that is set back does not lengthen a sleep, and one that   *)
(* jumps ahead, or a machine that was suspended, does not shorten it.  A   *)
(* cycle is here its reading of the clock and its Save; RankingServer has  *)
(* the rest.                                                               *)
(***************************************************************************)
EXTENDS Integers

CONSTANTS
    Quarter,     \* six hours, in units of the clock
    Minute,      \* one minute
    MaxClock,    \* bound of the clock
    MaxSetBacks  \* bound: how often the clock is set back

ASSUME SchedulerAssumption ==
    /\ Quarter \in Nat \ {0} /\ Minute \in Nat \ {0}
    /\ Quarter % Minute = 0
    /\ MaxClock \in Nat /\ MaxSetBacks \in Nat

VARIABLES
    clock,    \* the wall clock, in units since some midnight WIB
    stage,    \* where the scheduler is
    next,     \* the slot it planned last, 0 before the first
    left,     \* what is left of its sleep
    nowAt,    \* nowWIB of its latest cycle
    serving,  \* app.Listen was reached
    manual,   \* nowWIB of a cycle that a request started, Never if none
    latest,   \* CalculatedAt of the run the dashboard shows, Never if none
    setBack,  \* history: the clock was set back since the last plan
    setBacks, \* counted against MaxSetBacks
    setAhead  \* history: the clock jumped ahead during the present sleep

scheduleVars ==
    <<clock, stage, next, left, nowAt, serving, manual, latest, setBack, setBacks, setAhead>>

Never == -1
Day == 4 * Quarter
Midnight(t) == t - (t % Day)

\* Mutant: the slot that is just beginning counts as the next one.
NextSlotNotBefore(now) ==
    LET slot(k) == Midnight(now) + k * Quarter
        later == {k \in 0 .. 3 : slot(k) >= now}
    IN IF later = {} THEN Midnight(now) + Day
       ELSE slot(CHOOSE k \in later : \A j \in later : k <= j)

\* Mutant: 18:00 is forgotten.
NextSlotOfThree(now) ==
    LET slot(k) == Midnight(now) + k * Quarter
        later == {k \in 0 .. 2 : slot(k) > now}
    IN IF later = {} THEN Midnight(now) + Day
       ELSE slot(CHOOSE k \in later : \A j \in later : k <= j)

\* The first of today's slots that is after now, or tomorrow's midnight.
NextSlot(now) ==
    LET slot(k) == Midnight(now) + k * Quarter
        later == {k \in 0 .. 3 : slot(k) > now}
    IN IF later = {} THEN Midnight(now) + Day
       ELSE slot(CHOOSE k \in later : \A j \in later : k <= j)

\* Mutant: the minute is rounded, not cut off.
RoundedMinute(t) == LET r == t + Minute \div 2 IN r - (r % Minute)

\* Format("2006-01-02 15:04"), read back by dashboardData.
CalculatedAt(t) == t - (t % Minute)

\* dashboardData's NextUpdate, with its date.
NextUpdate == NextSlot(latest)

-----------------------------------------------------------------------------
\* main starts with refreshLive and run, as every cycle does.
SchedulerInit ==
    /\ clock \in 0 .. MaxClock
    /\ stage = "refresh"
    /\ next = 0 /\ left = 0 /\ nowAt = 0
    /\ serving = FALSE
    /\ manual = Never /\ latest = Never
    /\ setBack = FALSE /\ setBacks = 0 /\ setAhead = FALSE

\* refreshLive has returned, however long it took; run reads the clock.
ReadClock ==
    /\ stage = "refresh"
    /\ stage' = "save"
    /\ nowAt' = clock
    /\ UNCHANGED <<clock, next, left, serving, manual, latest, setBack, setBacks, setAhead>>

\* Mutant: the loop ends when a run could not be saved.
EndCycleOrStop ==
    /\ stage = "save"
    /\ \/ stage' = "plan" /\ latest' = CalculatedAt(nowAt)
       \/ stage' = "stopped" /\ UNCHANGED latest
    /\ serving' = TRUE
    /\ UNCHANGED <<clock, next, left, nowAt, manual, setBack, setBacks, setAhead>>

\* The run is saved, and shown from now on, or it is not; run returns.  The
\* first time main goes on to listen.
EndCycle ==
    /\ stage = "save"
    /\ stage' = "plan"
    /\ latest' \in {CalculatedAt(nowAt), latest}
    /\ serving' = TRUE
    /\ UNCHANGED <<clock, next, left, nowAt, manual, setBack, setBacks, setAhead>>

\* next := nextScheduleSlot(time.Now())
Plan ==
    /\ stage = "plan"
    /\ stage' = "arm"
    /\ next' = NextSlot(clock)
    /\ setBack' = FALSE
    /\ UNCHANGED <<clock, left, nowAt, serving, manual, latest, setBacks, setAhead>>

\* time.Sleep(time.Until(next)), which reads the clock again and returns at
\* once when the slot has passed in between.
Sleep ==
    /\ stage = "arm"
    /\ stage' = "sleep"
    /\ left' = IF next > clock THEN next - clock ELSE 0
    /\ UNCHANGED <<clock, next, nowAt, serving, manual, latest, setBack, setBacks, setAhead>>

\* The sleep is over; the goroutine may be scheduled later.
WakeUp ==
    /\ stage = "sleep" /\ left = 0
    /\ stage' = "refresh"
    /\ setAhead' = FALSE
    /\ UNCHANGED <<clock, next, left, nowAt, serving, manual, latest, setBack, setBacks>>

\* A request runs a cycle of its own: it reads the clock ...
BeginManual ==
    /\ serving
    /\ manual = Never
    /\ manual' = clock
    /\ UNCHANGED <<clock, stage, next, left, nowAt, serving, latest, setBack, setBacks, setAhead>>

\* ... and saves, or fails to save, its run some time later.
EndManual ==
    /\ manual # Never
    /\ latest' \in {CalculatedAt(manual), latest}
    /\ manual' = Never
    /\ UNCHANGED <<clock, stage, next, left, nowAt, serving, setBack, setBacks, setAhead>>

Tick ==
    /\ clock < MaxClock
    /\ clock' = clock + 1
    /\ left' = IF left > 0 THEN left - 1 ELSE 0
    /\ UNCHANGED <<stage, next, nowAt, serving, manual, latest, setBack, setBacks, setAhead>>

\* The wall clock is corrected; sleeps go on as they were.
SetClockBack ==
    /\ setBacks < MaxSetBacks
    /\ clock > 0
    /\ clock' = clock - 1
    /\ setBack' = TRUE
    /\ setBacks' = setBacks + 1
    /\ UNCHANGED <<stage, next, left, nowAt, serving, manual, latest, setAhead>>

\* The wall clock is corrected the other way, or the machine was suspended,
\* which stops the clock of the sleeps only.  MaxClock leaves the sleep time to
\* end.
SetClockAhead ==
    /\ \E t \in clock + 1 .. MaxClock - left : clock' = t
    /\ setAhead' = (stage = "sleep")
    /\ UNCHANGED <<stage, next, left, nowAt, serving, manual, latest, setBack, setBacks>>

\* The process dies and is started again.
Restart ==
    /\ stage' = "refresh"
    /\ next' = 0 /\ left' = 0 /\ nowAt' = 0
    /\ serving' = FALSE
    /\ manual' = Never /\ latest' = Never
    /\ setBack' = FALSE /\ setAhead' = FALSE
    /\ UNCHANGED <<clock, setBacks>>

Loop == ReadClock \/ EndCycle \/ Plan \/ Sleep \/ WakeUp

SchedulerNext == \/ Loop \/ BeginManual \/ EndManual
                 \/ Tick \/ SetClockBack \/ SetClockAhead \/ Restart

SchedulerSpec == SchedulerInit /\ [][SchedulerNext]_scheduleVars

\* Time passes, and the scheduler goroutine runs: cycles return (CyclesReturn
\* of RankingServer).  Nothing obliges requests to arrive or to finish.
FairSchedulerSpec == SchedulerSpec /\ WF_scheduleVars(Tick) /\ WF_scheduleVars(Loop)
-----------------------------------------------------------------------------
SchedulerTypeOK ==
    /\ clock \in 0 .. MaxClock
    /\ stage \in {"refresh", "save", "plan", "arm", "sleep"}
    /\ next \in Nat /\ left \in Nat
    /\ nowAt \in 0 .. MaxClock
    /\ serving \in BOOLEAN
    /\ manual \in (0 .. MaxClock) \cup {Never}
    /\ latest \in (0 .. MaxClock) \cup {Never}
    /\ setBack \in BOOLEAN /\ setBacks \in 0 .. MaxSetBacks /\ setAhead \in BOOLEAN

\* The scheduler never runs two cycles for one slot, nor goes back to an
\* earlier one, unless the clock was set back meanwhile: each plan is for a
\* later slot (main.go:126-137).  A cycle that ends within its slot's first
\* instant is the case that is easy to get wrong.
OneCyclePerSlot ==
    [][stage = "plan" /\ stage' = "arm" /\ ~setBack => next' > next]_scheduleVars

\* Asleep, the scheduler wakes when the slot it planned begins (at once, when
\* that has happened already): never before, and late only by what the clock
\* jumped ahead meanwhile.  Every earlier slot had begun by then.  So a slot has
\* no cycle of its own only if the cycle before it was still running or the
\* clock jumped over it (main.go:128-133).
NoSlotIsSleptThrough ==
    stage = "sleep" /\ ~setBack =>
        /\ clock + left >= next
        /\ ~setAhead => clock + left = next \/ left = 0
        /\ \A s \in 0 .. next - 1 : s % Quarter = 0 => s <= clock

\* While the scheduler sleeps, the dashboard never announces an update that is
\* not coming: what it shows is the slot the scheduler sleeps to, or it is
\* past (the run shown was calculated before the last slot, by a cycle that
\* was overtaken or whose successor could not be saved).  The dashboard knows
\* the run's minute only, and anybody's run may be the one shown.  Where the
\* clock is set back, the run shown may be from the future.
NoOtherUpdateIsAnnounced ==
    stage = "sleep" /\ clock < next /\ setBacks = 0 /\ latest # Never =>
        NextUpdate = next \/ NextUpdate <= clock

\* After every slot there comes a cycle that is at least that new, whatever
\* overruns, is set back, jumped over or restarted, and whether or not anything can be
\* saved; only the bound of the clock may cut the wait short.
SlotsAreServed ==
    \A s \in 1 .. MaxClock :
        s % Quarter = 0 => (clock >= s ~> nowAt >= s \/ next > MaxClock)
===============================================================================
