----------------------------- MODULE MCScheduler -----------------------------
(***************************************************************************)
(* Instances of Scheduler for TLC.                                         *)
(***************************************************************************)
EXTENDS Scheduler

CONSTANTS p1, p2, p3

Priorities == [x \in Pcbs |-> IF x = p1 THEN 1 ELSE 0]
=============================================================================
