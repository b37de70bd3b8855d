---------------------------- MODULE PrioRunQueue ----------------------------
(***************************************************************************)
(* The priority run queue of src/scheduler_priority_fifo.c: two arrays of  *)
(* lists, one list per priority.  Pcbs come into the expired array and     *)
(* leave from the active one; every call that looks at the active array    *)
(* first exchanges the arrays or moves one pcb from expired to active.     *)
(*                                                                         *)
(* A list is a sequence here, which is what LinkedListProofs shows of it.  *)
(***************************************************************************)
EXTENDS Integers, Sequences, FiniteSets

CONSTANTS
  Pcbs,               \* the processes
  Null,
  Unset,              \* a pointer that nobody has assigned
  MAX_PRIO,           \* the lists of an array
  current_priority,   \* of each pcb; it may be too large for the array
  IntLimit            \* an int ranges over -IntLimit .. IntLimit - 1

ASSUME RunQueueAssumption ==
  /\ MAX_PRIO \in Nat \ {0}
  /\ current_priority \in [Pcbs -> Nat]
  /\ IsFiniteSet(Pcbs)
  /\ Null \notin Pcbs
  /\ Unset \notin {0, 1}
  /\ IntLimit \in Nat \ {0}

VARIABLES
  active, expired,    \* which of the two arrays is which
  queue,              \* array[a].queue[p]
  nr_active,          \* array[a].nr_active
  nr_running,
  returned,           \* what the last call returned
  wrong               \* the unassigned pointer has been followed

vars == <<active, expired, queue, nr_active, nr_running, returned, wrong>>

Arrays == {0, 1}
Prios == 0 .. MAX_PRIO - 1

(* rq_prio_fifo_init; it assigns active only if runqueue_init went before, *)
(* which i_sched_configure does not call.                                  *)
Init ==
  /\ active \in {0, Unset}
  /\ expired = 1
  /\ queue = [a \in Arrays |-> [p \in Prios |-> <<>>]]
  /\ nr_active = [a \in Arrays |-> 0]
  /\ nr_running = 0
  /\ returned = Null
  /\ wrong = FALSE

Newest(s) == s[Len(s)]
Oldest(s) == s[1]

(* linkedlist_push and linkedlist_pop on list p of array a. *)
Pushed(q, a, p, x) == [q EXCEPT ![a][p] = Append(@, x)]
Popped(q, a, p) == [q EXCEPT ![a][p] = SubSeq(@, 1, Len(@) - 1)]

(* The pcbs in array a of q, and in the run queue. *)
Held(q, a) == {x \in Pcbs : \E p \in Prios : \E i \in DOMAIN q[a][p] : q[a][p][i] = x}
Waiting == Held(queue, 0) \cup Held(queue, 1)

(* Fault: the least urgent list. *)
LastNotEmpty(lists) ==
  CHOOSE p \in Prios : lists[p] # <<>> /\ \A r \in Prios : lists[r] # <<>> => r <= p

Level(x) == IF MAX_PRIO <= current_priority[x] THEN MAX_PRIO - 1 ELSE current_priority[x]

(* get_first_not_empty_list_index, of lists that are not all empty. *)
FirstNotEmpty(lists) ==
  CHOOSE p \in Prios : lists[p] # <<>> /\ \A r \in Prios : lists[r] # <<>> => p <= r
-----------------------------------------------------------------------------
(* _rq_prio_fifo_update_sched: the queue as it leaves it. *)

(* Fault: the arrays are exchanged although pcbs are still active. *)
ExchangeEarly == nr_active[expired] # 0

Exchange == nr_active[expired] # 0 /\ nr_active[active] = 0
Migrate == nr_active[expired] # 0 /\ nr_active[active] # 0

NewActive == IF Exchange THEN expired ELSE active

(* Fault: only active is assigned. *)
ExpiredKept == expired

NewExpired == IF Exchange THEN active ELSE expired

(* Fault: the migrated pcb is not taken out. *)
Copied ==
  IF Migrate
  THEN LET p == FirstNotEmpty(queue[expired]) IN
       Pushed(queue, active, p, Newest(queue[expired][p]))
  ELSE queue

NewQueue ==
  IF Migrate
  THEN LET p == FirstNotEmpty(queue[expired]) IN
       Pushed(Popped(queue, expired, p), active, p, Newest(queue[expired][p]))
  ELSE queue

(* Fault: the migrated pcb is still counted where it was. *)
MigratedTwice == IF Migrate THEN [nr_active EXCEPT ![active] = @ + 1] ELSE nr_active

NewNrActive ==
  IF Migrate THEN [nr_active EXCEPT ![expired] = @ - 1, ![active] = @ + 1] ELSE nr_active

Update ==
  /\ active # Unset
  /\ active' = NewActive
  /\ expired' = NewExpired
  /\ UNCHANGED wrong

NextList == FirstNotEmpty(NewQueue[NewActive])
-----------------------------------------------------------------------------
(* rq_prio_fifo_in.  Who calls it has a new pcb or one that is not queued. *)
In(x) ==
  /\ ~wrong
  /\ x \notin Waiting
  /\ queue' = Pushed(queue, expired, Level(x), x)
  /\ nr_active' = [nr_active EXCEPT ![expired] = @ + 1]
  /\ UNCHANGED <<active, expired, nr_running, returned, wrong>>

OneLess(n) == IF n = -IntLimit THEN IntLimit - 1 ELSE n - 1

(* rq_prio_fifo_out. *)
Out ==
  /\ Update
  /\ NewNrActive[NewActive] # 0
  /\ returned' = Newest(NewQueue[NewActive][NextList])
  /\ queue' = Popped(NewQueue, NewActive, NextList)
  /\ nr_active' = [NewNrActive EXCEPT ![NewActive] = @ - 1]
  /\ nr_running' = OneLess(nr_running)

(* rq_prio_fifo_peek. *)
Peek ==
  /\ Update
  /\ NewNrActive[NewActive] # 0
  /\ returned' = Oldest(NewQueue[NewActive][NextList])
  /\ queue' = NewQueue
  /\ nr_active' = NewNrActive
  /\ UNCHANGED nr_running

(* Both calls when no pcb is active. *)
NoneActive ==
  /\ Update
  /\ NewNrActive[NewActive] = 0
  /\ returned' = Null
  /\ queue' = NewQueue
  /\ nr_active' = NewNrActive
  /\ UNCHANGED nr_running

(* Both calls follow the active pointer. *)
GoWrong ==
  /\ active = Unset
  /\ wrong' = TRUE
  /\ UNCHANGED <<active, expired, queue, nr_active, nr_running, returned>>

Next == (\E x \in Pcbs : In(x)) \/ Out \/ Peek \/ NoneActive \/ GoWrong

Spec == Init /\ [][Next]_vars
-----------------------------------------------------------------------------
TypeOK ==
  /\ active \in Arrays \cup {Unset}
  /\ expired \in Arrays \ {active}
  /\ queue \in [Arrays -> [Prios -> Seq(Pcbs)]]
  /\ nr_active \in [Arrays -> Int]
  /\ nr_running \in -IntLimit .. IntLimit - 1
  /\ returned \in Pcbs \cup {Null}
  /\ wrong \in BOOLEAN

Counted(q, n) == \A a \in Arrays : n[a] = Cardinality(Held(q, a))

(* nr_active says how many pcbs the lists of an array hold, so that no     *)
(* call looks for a list that is not empty where there is none.            *)
CountsAgree == Counted(queue, nr_active)

Placed(q) ==
  \A a, b \in Arrays, p, r \in Prios :
    \A i \in DOMAIN q[a][p], j \in DOMAIN q[b][r] :
      q[a][p][i] = q[b][r][j] => a = b /\ p = r /\ i = j /\ p = Level(q[a][p][i])

(* A pcb is in one place, in the list of its priority. *)
OnePlace == Placed(queue)

(* A pcb that has become active is not overtaken by an exchange: as long   *)
(* as it is in the run queue, it is in the active array.                   *)
ActiveStaysActive ==
  [][active # Unset =>
       \A x \in Held(queue, active) : x \in Waiting' => x \in Held(queue, active)']_vars

(* The two arrays do not show: what comes out is always one of the most    *)
(* urgent pcbs of both.                                                    *)
Bag == INSTANCE PriorityBag WITH waiting <- Waiting

ImplementsBag == Bag!Spec

(* rq_prio_fifo_print calls nr_running the "Process total list length". *)
TotalListLength == nr_running = Cardinality(Waiting)
=============================================================================
