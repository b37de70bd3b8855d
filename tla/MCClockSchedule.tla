-------------------------- MODULE MCClockSchedule --------------------------
(***************************************************************************)
(* Instances of ClockSchedule for TLC: the timers of main.c.               *)
(***************************************************************************)
EXTENDS ClockSchedule

CONSTANTS sched, loader, executor

MainFreq == [t \in Timers |-> CASE t = sched -> 2
                                [] t = loader -> 4
                                [] OTHER -> 1]

ClockSpurious == [p \in Timers \cup {ClockThread} |-> IF p = ClockThread THEN 1 ELSE 0]
=============================================================================
