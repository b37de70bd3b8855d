--------------------------- MODULE SimpleRunQueue ---------------------------
(***************************************************************************)
(* The run queue of src/scheduler_simple_fifo.c: one list.  The list is a  *)
(* sequence here, which is what LinkedListProofs shows of it.              *)
(***************************************************************************)
EXTENDS Integers, Sequences

CONSTANTS Pcbs, Null

VARIABLES
  list,               \* rq->active
  nr_running,
  returned            \* what the last call returned

vars == <<list, nr_running, returned>>

(* rq_simple_fifo_init. *)
Init == list = <<>> /\ nr_running = 0 /\ returned = Null

Queued == {list[i] : i \in DOMAIN list}

(* rq_simple_fifo_in.  Who calls it has a new pcb or one that is not queued. *)
In(x) ==
  /\ x \notin Queued
  /\ list' = Append(list, x)
  /\ nr_running' = nr_running + 1
  /\ UNCHANGED returned

(* What linkedlist_pop leaves: it takes the last node. *)
Left == SubSeq(list, 1, Len(list) - 1)

(* rq_simple_fifo_out. *)
Out ==
  /\ nr_running # 0
  /\ nr_running' = nr_running - 1
  /\ list' = Left
  /\ returned' = list[Len(list)]

(* rq_simple_fifo_peek. *)
Peek ==
  /\ nr_running # 0
  /\ returned' = list[1]
  /\ UNCHANGED <<list, nr_running>>

(* Both calls on an empty queue. *)
NoneRunning ==
  /\ nr_running = 0
  /\ returned' = Null
  /\ UNCHANGED <<list, nr_running>>

Next == (\E x \in Pcbs : In(x)) \/ Out \/ Peek \/ NoneRunning

Spec == Init /\ [][Next]_vars
-----------------------------------------------------------------------------
(* rq_simple_fifo_print says "SCHEDULER: Simple FIFO": the pcb that leaves *)
(* the queue is the one that has waited longest.                           *)
FirstInFirstOut ==
  [][Len(list') < Len(list) => returned' = list[1]]_vars
=============================================================================
