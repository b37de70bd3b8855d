--------------------------- MODULE SchedulerProofs ---------------------------
(***************************************************************************)
(* Theorems about Scheduler: for every policy, every set of processes and  *)
(* every order of loads, ticks and instructions, the null process is the   *)
(* only one that runs, and what waits keeps waiting.                       *)
(*                                                                         *)
(* No property is inductive alone.  The thread starts as one that runs the *)
(* null process (Idling), and as long as it does the dispatcher never asks *)
(* the run queue; that the null process never counts as finished is what   *)
(* keeps current_process on it.                                            *)
(***************************************************************************)
EXTENDS Scheduler, SequenceTheorems, TLAPS

Idling ==
  /\ sched_status = NULL_PROCESS_RUN
  /\ OnlyNullProcess
  /\ NeverWrong
  /\ freed = {}

(* The thread and the snapshots belong to whom they should; a context that *)
(* is not on the thread has not begun.                                     *)
InPlace ==
  /\ status[null_process] # "PR_FINI"
  /\ \A x \in Processes : snapshot[x].of = x
  /\ RunsItself

(* What is loaded is ready and in the run queue, once.                     *)
InQueue ==
  /\ \A i \in DOMAIN queue : queue[i] \in Pcbs
  /\ \A x \in Pcbs : status[x] = "PR_READY" <=> \E i \in DOMAIN queue : queue[i] = x
  /\ \A x \in Pcbs : status[x] \in {"PR_UNDEFINED", "PR_READY"} /\ x \notin freed
  /\ \A i, j \in DOMAIN queue : queue[i] = queue[j] => i = j

Inv == TypeOK /\ Idling /\ InPlace /\ InQueue

LEMMA Distinct == null_process \in Processes /\ null_process \notin Pcbs /\ Null \notin Processes
  BY SchedulerAssumption DEF Processes

(* What the dispatcher does on such a thread.                              *)
LEMMA DispatchFacts ==
  ASSUME Inv, Dispatch(Running)
  PROVE  /\ Running = current_process
         /\ current_process' = null_process
         /\ quantum' = BaseQuantum
         /\ UNCHANGED <<sched_status, queue, freed, wrong>>
         /\ status' = [status EXCEPT ![null_process] = "PR_EXEC"]
         /\ snapshot' = Unloaded(current_process)
         /\ thread' = snapshot'[null_process]
         /\ PTBR' = null_process
<1>1. Running = current_process
  BY Distinct DEF Inv, Idling, InPlace, OnlyNullProcess, Running
<1>2. current_process \in {Null, null_process}
  BY DEF Inv, Idling, OnlyNullProcess
<1>3. NextProcess = {<<null_process, queue>>}
  BY DEF Inv, Idling, NextProcess
<1>4. ~ Idle(current_process, null_process) /\ Chosen(current_process, null_process) = null_process
  BY Distinct DEF Idle, Chosen
<1>5. ~ RunsProcess(current_process, null_process)
  BY <1>4 DEF RunsProcess, Inv, Idling
<1>6. ~ Invalid(current_process, null_process)
  BY <1>5, Distinct DEF Invalid, Inv, Idling
<1>7. Switched(current_process, null_process) = [status EXCEPT ![null_process] = "PR_EXEC"]
  BY <1>2, Distinct DEF Switched, Inv, TypeOK
<1>8. null_process # Null
  BY Distinct
<1> QED
  BY <1>1, <1>3, <1>4, <1>5, <1>6, <1>7, <1>8
  DEF Dispatch, Table, NewQuantum, Inv, Idling
-----------------------------------------------------------------------------
LEMMA InitInv == Init => Inv
<1> SUFFICES ASSUME Init PROVE Inv
  OBVIOUS
<1>1. \A x \in Processes \cup {Null} : Context(x, 0) \in Contexts /\ Context(x, 0).of = x
  BY SchedulerAssumption DEF Context, Contexts
<1>2. /\ snapshot \in [Processes -> Contexts]
      /\ \A x \in Processes : snapshot[x].of = x
      /\ thread \in Contexts
  BY <1>1 DEF Init
<1>3. status \in [Processes -> Statuses] /\ \A x \in Processes : status[x] = "PR_UNDEFINED"
  BY DEF Init, Statuses
<1>4. TypeOK
  <2>1. quantum \in 1 - timer_tick_freq .. BaseQuantum
    BY SchedulerAssumption DEF Init
  <2>2. queue \in Seq(Processes)
    BY EmptySeq DEF Init
  <2>3. wrong \in BOOLEAN /\ freed \subseteq Processes
    BY Zenon DEF Init
  <2> QED BY <1>2, <1>3, <2>1, <2>2, <2>3 DEF Init, TypeOK, AtFirst
<1>5. Idling /\ InPlace
  BY <1>2, <1>3, Distinct
  DEF Init, Idling, InPlace, OnlyNullProcess, NeverWrong, RunsItself, AtFirst
<1>6. InQueue
  <2>1. DOMAIN queue = {}
    BY DEF Init
  <2> QED BY <1>3, <2>1 DEF Init, InQueue, Processes
<1> QED BY <1>4, <1>5, <1>6 DEF Inv

LEMMA LoadInv ==
  ASSUME Inv, NEW x \in Pcbs, Load(x)
  PROVE  Inv'
<1>1. x \in Processes /\ x # null_process
  BY Distinct DEF Processes
<1>2. /\ queue' \in Seq(Processes)
      /\ Len(queue') = Len(queue) + 1
      /\ queue'[Len(queue) + 1] = x
      /\ \A i \in 1 .. Len(queue) : queue'[i] = queue[i]
      /\ DOMAIN queue = 1 .. Len(queue) /\ DOMAIN queue' = 1 .. Len(queue) + 1
      /\ Len(queue) \in Nat
  BY <1>1, AppendProperties DEF Load, Joined, Inv, TypeOK
<1>3. status' = [status EXCEPT ![x] = "PR_READY"]
  BY DEF Load
<1>4. TypeOK'
  BY <1>1, <1>2, <1>3 DEF Load, Inv, TypeOK, control, cpu, Statuses
<1>5. Idling' /\ InPlace'
  BY <1>1, <1>3, Distinct
  DEF Load, Inv, TypeOK, Idling, InPlace, OnlyNullProcess, NeverWrong, RunsItself, control, cpu
<1>6. x \notin {queue[i] : i \in DOMAIN queue}
  BY DEF Load, Inv, InQueue
<1>7. \A y \in Pcbs : status'[y] = "PR_READY" <=> \E i \in DOMAIN queue' : queue'[i] = y
  BY <1>1, <1>2, <1>3 DEF Inv, InQueue, TypeOK, Processes
<1>8. \A y \in Pcbs : status'[y] \in {"PR_UNDEFINED", "PR_READY"} /\ y \notin freed'
  BY <1>1, <1>3 DEF Load, Inv, InQueue, TypeOK, Processes
<1>9. \A i, j \in DOMAIN queue' : queue'[i] = queue'[j] => i = j
  BY <1>2, <1>6 DEF Inv, InQueue
<1>10. \A i \in DOMAIN queue' : queue'[i] \in Pcbs
  BY <1>2 DEF Inv, InQueue
<1> QED BY <1>4, <1>5, <1>7, <1>8, <1>9, <1>10 DEF Inv, InQueue

LEMMA ExecuteInv ==
  ASSUME Inv, Execute
  PROVE  Inv'
<1>1. thread' \in Contexts /\ thread'.of = thread.of
  <2>1. (thread.at + 1) % Steps \in 0 .. Steps - 1
    BY SchedulerAssumption DEF Inv, TypeOK, Contexts
  <2> QED BY <2>1 DEF Execute, Inv, TypeOK, Contexts
<1> QED
  BY <1>1
  DEF Execute, Inv, TypeOK, Idling, InPlace, OnlyNullProcess, NeverWrong, RunsItself,
      InQueue, control

LEMMA DispatchInv ==
  ASSUME Inv, Dispatch(Running), UNCHANGED current_policy
  PROVE  Inv'
<1>1. /\ snapshot' \in [Processes -> Contexts]
      /\ \A x \in Processes : snapshot'[x].of = x
  BY DispatchFacts, Distinct
  DEF Unloaded, Inv, TypeOK, Idling, InPlace, OnlyNullProcess, RunsItself
<1>2. TypeOK'
  <2>1. /\ current_process' = null_process /\ PTBR' = null_process
        /\ quantum' = BaseQuantum /\ thread' = snapshot'[null_process]
        /\ status' = [status EXCEPT ![null_process] = "PR_EXEC"]
        /\ UNCHANGED <<current_policy, sched_status, queue, freed, wrong>>
    BY DispatchFacts
  <2>2. quantum' \in 1 - timer_tick_freq .. BaseQuantum
    BY <2>1, SchedulerAssumption
  <2>3. status' \in [Processes -> Statuses]
    BY <2>1 DEF Inv, TypeOK, Statuses
  <2> QED BY <1>1, <2>1, <2>2, <2>3, Distinct DEF Inv, TypeOK
<1>3. Idling' /\ InPlace'
  BY <1>1, DispatchFacts, Distinct
  DEF Inv, TypeOK, Idling, InPlace, OnlyNullProcess, NeverWrong, RunsItself
<1>4. \A x \in Pcbs : status'[x] = status[x]
  BY DispatchFacts, Distinct DEF Inv, TypeOK, Processes
<1>5. InQueue'
  BY <1>4, DispatchFacts DEF Inv, InQueue
<1> QED BY <1>2, <1>3, <1>5 DEF Inv

LEMMA CountDownInv ==
  ASSUME Inv, CountDown, UNCHANGED current_policy
  PROVE  Inv'
<1>1. current_process' = current_process
  BY Distinct DEF CountDown, Running, Inv, Idling, InPlace, OnlyNullProcess
<1>2. quantum' \in 1 - timer_tick_freq .. BaseQuantum
  BY SchedulerAssumption DEF CountDown, UsedUp, Inv, TypeOK
<1> QED
  BY <1>1, <1>2
  DEF CountDown, Inv, TypeOK, Idling, InPlace, OnlyNullProcess, NeverWrong, RunsItself,
      InQueue, cpu

(* Whichever the policy, a tick of the scheduler that does not count down  *)
(* dispatches the process that is running.                                 *)
LEMMA ExecuteCases ==
  ASSUME Inv, sched_execute
  PROVE  (CountDown \/ Dispatch(Running)) /\ UNCHANGED current_policy
  BY DEF sched_execute, RoundRobinDispatch, FifoDispatch, Inv, Idling

LEMMA NextInv ==
  ASSUME Inv, [Next]_vars
  PROVE  Inv'
<1>1. CASE \E x \in Pcbs : Load(x)
  BY <1>1, LoadInv
<1>2. CASE Execute
  BY <1>2, ExecuteInv
<1>3. CASE sched_execute
  BY <1>3, ExecuteCases, CountDownInv, DispatchInv
<1>4. CASE UNCHANGED vars
  BY <1>4
  DEF vars, control, cpu, Inv, TypeOK, Idling, InPlace, OnlyNullProcess, NeverWrong,
      RunsItself, InQueue
<1> QED BY <1>1, <1>2, <1>3, <1>4 DEF Next

LEMMA Invariance == Spec => []Inv
<1>1. Inv /\ [Next]_vars => Inv'
  BY NextInv
<1> QED BY <1>1, InitInv, PTL DEF Spec
-----------------------------------------------------------------------------
(* Every variable keeps its type; the quantum, from which a whole tick is  *)
(* subtracted, stays above minus one tick.                                 *)
THEOREM SchedulerTypeCorrect == Spec => []TypeOK
<1>1. Inv => TypeOK
  BY DEF Inv
<1> QED BY <1>1, Invariance, PTL

(* No process that the loader adds is ever dispatched, under any policy.   *)
THEOREM SchedulerOnlyNullProcess == Spec => []OnlyNullProcess
<1>1. Inv => OnlyNullProcess
  BY DEF Inv, Idling
<1> QED BY <1>1, Invariance, PTL

(* The NULL dereferences of sched_execute and sched_dispatcher are out of  *)
(* reach.                                                                  *)
THEOREM SchedulerNeverWrong == Spec => []NeverWrong
<1>1. Inv => NeverWrong
  BY DEF Inv, Idling
<1> QED BY <1>1, Invariance, PTL

(* The thread runs the process that was dispatched, in its own context and *)
(* with its own page table.                                                *)
THEOREM SchedulerRunsItself == Spec => []RunsItself
<1>1. Inv => RunsItself
  BY DEF Inv, InPlace
<1> QED BY <1>1, Invariance, PTL

(* What was loaded waits in the run queue in the order in which it came,   *)
(* ready and once, under every policy: no tick moves it or takes it out.   *)
THEOREM SchedulerLoadedWaits == Spec => LoadedWaits
<1> DEFINE Stays == \A i \in DOMAIN queue : i \in DOMAIN queue' /\ queue'[i] = queue[i]
           Ready == \A i \in DOMAIN queue' : status'[queue'[i]] = "PR_READY" /\ queue'[i] \notin freed'
           Joins == \A i \in DOMAIN queue' \ DOMAIN queue : status[queue'[i]] = "PR_UNDEFINED"
<1>1. ASSUME Inv, [Next]_vars PROVE Stays /\ Joins
  <2>1. ASSUME NEW x \in Pcbs, Load(x) PROVE Stays /\ Joins
    <3>1. /\ DOMAIN queue = 1 .. Len(queue) /\ DOMAIN queue' = 1 .. Len(queue) + 1
          /\ Len(queue) \in Nat
          /\ queue'[Len(queue) + 1] = x
          /\ \A i \in 1 .. Len(queue) : queue'[i] = queue[i]
      BY <1>1, <2>1, AppendProperties DEF Load, Joined, Processes, Inv, TypeOK
    <3>2. status[x] = "PR_UNDEFINED"
      BY <2>1 DEF Load
    <3> QED BY <3>1, <3>2
  <2>2. CASE Execute \/ sched_execute \/ UNCHANGED vars
    BY <1>1, <2>2, ExecuteCases, DispatchFacts DEF Execute, CountDown, vars
  <2> QED BY <1>1, <2>1, <2>2 DEF Next
<1>2. ASSUME Inv' PROVE Ready
  <2>1. \A i \in DOMAIN queue' : queue'[i] \in Pcbs
    BY <1>2 DEF Inv, InQueue
  <2> QED BY <1>2, <2>1 DEF Inv, InQueue
<1>3. Inv /\ Inv' /\ [Next]_vars => [Stays /\ Ready /\ Joins]_vars
  BY <1>1, <1>2
<1> QED BY <1>3, Invariance, PTL DEF Spec, LoadedWaits

(* A dispatch of the process that is running goes on where it was.         *)
THEOREM SchedulerContextContinues == Spec => ContextContinues
<1> DEFINE Continues ==
      current_process # Null /\ current_process' = current_process =>
        thread'.at \in {thread.at, (thread.at + 1) % Steps}
<1>1. ASSUME Inv, [Next]_vars PROVE [Continues]_vars
  <2>1. CASE Execute
    BY <1>1, <2>1 DEF Execute, Inv, TypeOK, Contexts
  <2>2. CASE (\E x \in Pcbs : Load(x)) \/ CountDown \/ UNCHANGED vars
    BY <2>2 DEF Load, CountDown, vars, cpu
  <2>3. CASE Dispatch(Running)
    BY <1>1, <2>3, DispatchFacts, Distinct
    DEF Unloaded, Inv, TypeOK, Idling, OnlyNullProcess
  <2> QED BY <1>1, <2>1, <2>2, <2>3, ExecuteCases DEF Next
<1>2. Inv /\ [Next]_vars => [Continues]_vars
  BY <1>1
<1> QED BY <1>2, Invariance, PTL DEF Spec, ContextContinues
=============================================================================
