------------------------------ MODULE MCClock ------------------------------
(***************************************************************************)
(* Instances of Clock for TLC.                                             *)
(***************************************************************************)
EXTENDS Clock

CONSTANTS sched, loader, executor, debug

(* The timers of main.c and their frequencies: SCHEDULER_FREQ,             *)
(* PROCESS_GENERATOR_FREQ, 1 and EGOERA_PRINT_FREQ.                        *)
MainFreq == [t \in Timers |-> CASE t = sched -> 2
                                [] t = loader -> 4
                                [] OTHER -> 1]

NoSpurious == [p \in Timers \cup {ClockThread} |-> 0]
ExecutorSpurious == [p \in Timers \cup {ClockThread} |-> IF p = executor THEN 1 ELSE 0]
=============================================================================
