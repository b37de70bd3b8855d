---------------------------- MODULE TickBarrier ----------------------------
(***************************************************************************)
(* What clock.c promises its timers, without threads, mutex or condition   *)
(* variables: a cyclic barrier.  Every timer that takes part ticks exactly *)
(* once per clock cycle, and a cycle ends only when all of them ticked.    *)
(***************************************************************************)
CONSTANT Timers

VARIABLES members,   \* the timers that take part
          ticked     \* those that have ticked in the current cycle

vars == <<members, ticked>>

Init == members = {} /\ ticked = {}

(* A timer joins in the middle of a cycle and still owes that cycle a tick. *)
Join(t) ==
  /\ t \notin members
  /\ members' = members \cup {t}
  /\ UNCHANGED ticked

Tick(t) ==
  /\ t \in members \ ticked
  /\ ticked' = ticked \cup {t}
  /\ UNCHANGED members

(* A timer leaves at the start of a cycle, instead of ticking. *)
Leave(t) ==
  /\ t \in members \ ticked
  /\ members' = members \ {t}
  /\ UNCHANGED ticked

NextCycle ==
  /\ members # {}
  /\ ticked = members
  /\ ticked' = {}
  /\ UNCHANGED members

Next ==
  \/ \E t \in Timers : Join(t) \/ Tick(t) \/ Leave(t)
  \/ NextCycle

Spec == Init /\ [][Next]_vars

FairSpec ==
  /\ Spec
  /\ \A t \in Timers : WF_vars(Tick(t) \/ Leave(t))
  /\ WF_vars(NextCycle)
=============================================================================
