--------------------------- MODULE ClockSchedule ---------------------------
(***************************************************************************)
(* When the timers of Clock fire, in cycles of the clock.  Two history     *)
(* variables record what no variable of clock.c does: how many cycles the  *)
(* clock has broadcast and in which cycle each timer came on the clock.    *)
(***************************************************************************)
EXTENDS Clock

CONSTANT Period    \* bound: cycles are counted modulo a multiple of every frequency

ASSUME PeriodAssumption ==
  /\ Period \in Nat \ {0}
  /\ \A t \in Timers : Freq[t] \in Nat \ {0} /\ Period % Freq[t] = 0

VARIABLES
  cycle,     \* broadcasts of cond_clk_cycle, modulo Period
  joined     \* the value of cycle when each timer registered

hvars == <<vars, cycle, joined>>

HInit ==
  /\ Init
  /\ cycle = 0
  /\ joined = [t \in Timers |-> 0]

HNext ==
  /\ Next
  /\ cycle' = IF consumed' < consumed THEN (cycle + 1) % Period ELSE cycle
  /\ joined' = [t \in Timers |-> IF total' > total /\ pc[t] # pc'[t] THEN cycle ELSE joined[t]]

HSpec == HInit /\ [][HNext]_hvars

(* The fairness of Clock, of steps that the history variables follow. *)
HFairSpec ==
  /\ HSpec
  /\ WF_hvars(HNext /\ ClockStep)
  /\ \A t \in Timers : WF_hvars(HNext /\ TimerStep(t))
-----------------------------------------------------------------------------
(* The cycle in which timer t is taking part is a multiple of its          *)
(* frequency, counted from the one in which it registered.                 *)
Due(t) == (cycle - joined[t] + 1) % Freq[t] = 0

(* A timer of frequency f runs its TickAction in every f-th clock cycle    *)
(* since it registered, never in another and never skipping one - however  *)
(* the threads that share the mutex are interleaved.                       *)
FiresOnSchedule ==
  \A t \in Registered :
    /\ pc[t] = "fire" => Due(t)
    /\ pc[t] = "cycle" => (Due(t) <=> count[t] = Freq[t])
=============================================================================
