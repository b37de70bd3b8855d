------------------------------ MODULE Scheduler ------------------------------
(***************************************************************************)
(* The scheduler and the dispatcher of src/scheduler.c for one hardware    *)
(* thread, with the loader that adds processes and the executor that runs  *)
(* the process on the thread.  The timers' actions run under the clock's   *)
(* mutex, so that each of them is one step.                                *)
(*                                                                         *)
(* A CPU context - PC, IR, cc and registers - is abstracted to the process *)
(* it belongs to and how far that has come.                                *)
(***************************************************************************)
EXTENDS Integers, Sequences

CONSTANTS
  Pcbs,                 \* what the loader's malloc returns
  null_process,
  Null,
  prio,                 \* the list of the priority run queue a pcb is in
  timer_tick_freq,      \* of the scheduler's timer
  BaseQuantum,          \* SCHEDULER_BASE_PROCESS_RR_FREQ
  Steps                 \* bound: how far a process comes before it repeats itself

ASSUME SchedulerAssumption ==
  /\ null_process \notin Pcbs
  /\ Null \notin Pcbs \cup {null_process}
  /\ prio \in [Pcbs -> Nat]
  /\ timer_tick_freq \in Nat \ {0}
  /\ BaseQuantum \in Nat
  /\ Steps \in Nat \ {0}

VARIABLES
  current_policy,
  current_process,      \* struct sched_cpu_thread_control
  quantum,
  sched_status,
  queue,                \* the run queue, in the order of the inserts
  status,               \* of every pcb
  snapshot,             \* pcb->cpu_snapshot
  thread,               \* the context on the hardware thread
  PTBR,                 \* whose page table it uses
  freed,                \* the pcbs that were destroyed
  wrong                 \* NULL or a freed pcb has been used

control == <<current_process, quantum, sched_status>>
cpu == <<thread, PTBR>>
vars == <<current_policy, control, queue, status, snapshot, cpu, freed, wrong>>

SimplePolicies == {"SCHED_FIFO", "SCHED_RR"}
PrioPolicies == {"SCHED_PRIO_FIFO", "SCHED_PRIO_RR"}

Processes == Pcbs \cup {null_process}
Context(x, k) == [of |-> x, at |-> k]

NULL_PROCESS_RUN == 1
PROCESS_RUN == 2
SCHEDULER_NULL_PROCESS_RR_FREQ == 4

(* Fault: the thread starts as one that runs a process. *)
RunningAtFirst == PROCESS_RUN

(* What sched_init passes to sched_cpu_thread_control_init. *)
AtFirst == NULL_PROCESS_RUN

(* sched_init with any policy, and thread_t_init for the CPU. *)
Init ==
  /\ current_policy \in SimplePolicies \cup PrioPolicies
  /\ current_process = Null
  /\ quantum = 0
  /\ sched_status = AtFirst
  /\ queue = <<>>
  /\ status = [x \in Processes |-> "PR_UNDEFINED"]
  /\ snapshot = [x \in Processes |-> Context(x, 0)]
  /\ thread = Context(Null, 0)
  /\ PTBR = Null
  /\ freed = {}
  /\ wrong = FALSE
-----------------------------------------------------------------------------
(* Fault: the new process goes to the front. *)
JoinedInFront(x) == <<x>> \o queue

Joined(x) == Append(queue, x)

(* sched_add_to_process_queue, of a process that the loader has loaded. *)
Load(x) ==
  /\ ~wrong
  /\ status[x] = "PR_UNDEFINED"
  /\ status' = [status EXCEPT ![x] = "PR_READY"]
  /\ queue' = Joined(x)
  /\ UNCHANGED <<current_policy, control, snapshot, cpu, freed, wrong>>

(* executor_exec: an instruction of whatever is on the thread. *)
Execute ==
  /\ ~wrong
  /\ thread' = [thread EXCEPT !.at = (@ + 1) % Steps]
  /\ UNCHANGED <<current_policy, control, queue, status, snapshot, PTBR, freed, wrong>>

(* i_sched_peek.  The simple queue shows its oldest pcb; the priority      *)
(* queue, which swaps peek with out, takes out one of the most urgent.     *)
TakenOut(i) == SubSeq(queue, 1, i - 1) \o SubSeq(queue, i + 1, Len(queue))

MostUrgent(i) == \A j \in DOMAIN queue : prio[queue[i]] <= prio[queue[j]]

Peeked ==
  IF queue = <<>> THEN {<<Null, queue>>}
  ELSE IF current_policy \in SimplePolicies THEN {<<queue[1], queue>>}
  ELSE {<<queue[i], TakenOut(i)>> : i \in {i \in DOMAIN queue : MostUrgent(i)}}

(* Fault: the run queue is asked first. *)
QueueFirst == IF queue = <<>> THEN {<<null_process, queue>>} ELSE Peeked

(* __sched_get_next_process_clean_queue: the process, and the queue then. *)
NextProcess == IF sched_status = NULL_PROCESS_RUN THEN {<<null_process, queue>>} ELSE Peeked
-----------------------------------------------------------------------------
(* sched_dispatcher in place of the process old, when next and rest are    *)
(* what NextProcess gave.                                                  *)

(* Fault: the old process's context is not saved. *)
NotUnloaded(old) == snapshot

(* __disp_unload. *)
Unloaded(old) == IF old = Null THEN snapshot ELSE [snapshot EXCEPT ![old] = thread]

(* __disp_load and PR_FINI from __disp_unload before it. *)
Switched(old, next) ==
  [x \in Processes |-> IF x = next THEN "PR_EXEC"
                       ELSE IF x = old THEN "PR_FINI" ELSE status[x]]

(* Fault: the page table stays that of the old process. *)
TableKept(next) == PTBR

(* What __disp_load assigns to thread_s->PTBR. *)
Table(next) == IF next = Null THEN PTBR ELSE next

(* Fault: the quantum runs on. *)
QuantumKept(next) == quantum

NewQuantum(next) == IF next = Null THEN quantum ELSE BaseQuantum

(* The null process takes over when the old one has finished. *)
Idle(old, next) == next = Null /\ old \notin {Null, null_process} /\ status[old] = "PR_FINI"
Chosen(old, next) == IF Idle(old, next) THEN null_process ELSE next

RunsProcess(old, next) == sched_status # NULL_PROCESS_RUN \/ Idle(old, next)

Invalid(old, next) ==
  \/ next = Null /\ old = Null
  \/ next # Null /\ RunsProcess(old, next) /\ old = Null
  \/ {old, next} \cap freed # {}

Dispatch(old) ==
  \E nq \in NextProcess :
    LET next == Chosen(old, nq[1])
        snapshots == Unloaded(old)
        statuses == Switched(old, next)
        (* After the switch the old process is destroyed, or queued again. *)
        retired == next # Null /\ RunsProcess(old, nq[1]) /\ statuses[old] = "PR_FINI"
        requeued == next # Null /\ RunsProcess(old, nq[1]) /\ statuses[old] # "PR_FINI"
    IN IF Invalid(old, nq[1])
       THEN wrong' = TRUE /\ UNCHANGED <<control, queue, status, snapshot, cpu, freed>>
       ELSE
         /\ current_process' = IF next = Null THEN old ELSE next
         /\ quantum' = NewQuantum(nq[1])
         /\ sched_status' = IF next = Null THEN sched_status
                            ELSE IF next = null_process THEN NULL_PROCESS_RUN ELSE PROCESS_RUN
         /\ queue' = IF requeued THEN Append(nq[2], old) ELSE nq[2]
         /\ status' = IF next = Null THEN status
                      ELSE IF requeued THEN [statuses EXCEPT ![old] = "PR_READY"] ELSE statuses
         /\ thread' = IF next = Null THEN thread ELSE snapshots[next]
         /\ PTBR' = Table(next)
         /\ snapshot' = IF next = Null THEN snapshot
                        ELSE IF retired THEN [snapshots EXCEPT ![old] = snapshots[next]]
                        ELSE snapshots
         /\ freed' = IF retired THEN freed \cup {old} ELSE freed
         /\ UNCHANGED wrong

(* __sched_update_running_pcb. *)
Running ==
  IF current_process # Null /\ status[current_process] = "PR_FINI" THEN Null
  ELSE current_process

RoundRobin == current_policy \in {"SCHED_RR", "SCHED_PRIO_RR"}

(* Fault: the quantum is used up a tick later. *)
UsedUpLate == quantum < 0

UsedUp == quantum <= 0

(* sched_execute, under round robin. *)
RoundRobinDispatch ==
  /\ ~wrong
  /\ RoundRobin
  /\ UsedUp
  /\ Dispatch(Running)

CountDown ==
  /\ ~wrong
  /\ RoundRobin
  /\ ~UsedUp
  /\ quantum' = quantum - timer_tick_freq
  /\ current_process' = Running
  /\ UNCHANGED <<sched_status, queue, status, snapshot, cpu, freed, wrong>>

(* Otherwise: the null process is replaced, or a process that has finished *)
(* - but Running has made that one NULL, and its status is then read.      *)
FifoDispatch ==
  /\ ~wrong
  /\ ~RoundRobin
  /\ IF sched_status = NULL_PROCESS_RUN THEN Dispatch(Running)
     ELSE /\ current_process' = Running
          /\ wrong' = (Running = Null)
          /\ UNCHANGED <<quantum, sched_status, queue, status, snapshot, cpu, freed>>

sched_execute ==
  /\ RoundRobinDispatch \/ CountDown \/ FifoDispatch
  /\ UNCHANGED current_policy

Next == (\E x \in Pcbs : Load(x)) \/ Execute \/ sched_execute

Spec == Init /\ [][Next]_vars

(* The scheduler's timer and the executor's keep firing: see Clock. *)
FairSpec == Spec /\ WF_vars(sched_execute) /\ WF_vars(Execute)
-----------------------------------------------------------------------------
Statuses == {"PR_UNDEFINED", "PR_READY", "PR_EXEC", "PR_FINI"}
Contexts == [of : Processes \cup {Null}, at : 0 .. Steps - 1]

(* The quantum never falls below zero by a whole tick of the timer.        *)
TypeOK ==
  /\ current_policy \in SimplePolicies \cup PrioPolicies
  /\ current_process \in Processes \cup {Null}
  /\ quantum \in 1 - timer_tick_freq .. BaseQuantum
  /\ sched_status \in {NULL_PROCESS_RUN, PROCESS_RUN}
  /\ queue \in Seq(Processes)
  /\ status \in [Processes -> Statuses]
  /\ snapshot \in [Processes -> Contexts]
  /\ thread \in Contexts
  /\ PTBR \in Processes \cup {Null}
  /\ freed \subseteq Processes
  /\ wrong \in BOOLEAN

(* Whatever is loaded, only the null process is ever dispatched.           *)
OnlyNullProcess == current_process \in {Null, null_process}

(* The dispatcher never reads the status of no process, or of one that it  *)
(* has destroyed.                                                          *)
NeverWrong == ~wrong

(* Loaded processes wait in the order in which they came, whatever is      *)
(* dispatched: none moves in the run queue or leaves it, each stays ready  *)
(* and is not destroyed, and only one that has never been loaded joins, at *)
(* the end.                                                                *)
LoadedWaits ==
  [][/\ \A i \in DOMAIN queue : i \in DOMAIN queue' /\ queue'[i] = queue[i]
     /\ \A i \in DOMAIN queue' : status'[queue'[i]] = "PR_READY" /\ queue'[i] \notin freed'
     /\ \A i \in DOMAIN queue' \ DOMAIN queue : status[queue'[i]] = "PR_UNDEFINED"]_vars

(* The process that was dispatched is the one on the thread, with its own  *)
(* context and page table.                                                 *)
RunsItself ==
  current_process # Null => thread.of = current_process /\ PTBR = current_process

(* Dispatching a process again does not set it back.                       *)
ContextContinues ==
  [][current_process # Null /\ current_process' = current_process =>
       thread'.at \in {thread.at, (thread.at + 1) % Steps}]_vars

(* Round robin does not stop: quanta are used up and handed out.           *)
QuantaHandedOut == RoundRobin => []<>UsedUp /\ []<>~UsedUp
=============================================================================
