------------------------------- MODULE Machine -------------------------------
(***************************************************************************)
(* The hardware threads of src/cpu.c, the executor that runs an            *)
(* instruction on each of them in every tick (src/executor_s.c), each      *)
(* thread's MMU (src/memory_s.c) and the dispatcher that loads and saves   *)
(* contexts (src/scheduler.c).                                             *)
(*                                                                         *)
(* Where the tables and frames of the processes lie is left open: each     *)
(* process may have its own, and they may share them, as they do where     *)
(* pm_memory_allocation_request and the loader give every process the same *)
(* addresses.  The executor and the scheduler are timer actions, so that a *)
(* dispatch comes before or after all threads' turns.                      *)
(***************************************************************************)
EXTENDS Mmu, Instructions

CONSTANTS
  Processes,
  null_process,
  Null,
  ThreadTotal,      \* THREAD_TOTAL
  Pages,            \* of each process: how many it has
  Table,            \* memory_map.pgb of each process
  Frames,           \* of each process: the frame of each page
  Images,           \* what the memory may hold once the programs are loaded
  Codes             \* where the processes' code may start

Threads == 0 .. ThreadTotal - 1

(* mem holds the processes' page tables. *)
LaidOut(mem) ==
  /\ mem \in [0 .. MemWords - 1 -> Words]
  /\ \A x \in Processes :
       /\ mem[Table[x]] = Pages[x]
       /\ \A p \in 0 .. Pages[x] - 1 : FrameStart(mem[Table[x] + 1 + p]) = Frames[x][p]

(* Tables lie in the kernel's zone and frames in the other one, so that no *)
(* frame holds a word of a table.  load_null_pcb is given table 0.         *)
ASSUME LayoutAssumption ==
  /\ ThreadTotal \in Nat \ {0}
  /\ null_process \in Processes
  /\ (Processes \cup {Null}) \cap Threads = {}
  /\ Null \notin Processes
  /\ Pages \in [Processes -> Nat]
  /\ Table \in [Processes -> Nat]
  /\ Table[null_process] = 0
  /\ \A x \in Processes :
       /\ Table[x] + Pages[x] < MemWords
       /\ Frames[x] \in [0 .. Pages[x] - 1 -> Nat]
       /\ \A p \in 0 .. Pages[x] - 1 :
            /\ Frames[x][p] + FrameWords <= MemWords
            /\ \A y \in Processes : \A i \in 0 .. Pages[y] :
                 Table[y] + i \notin Frames[x][p] .. Frames[x][p] + FrameWords - 1
  /\ \A mem \in Images : LaidOut(mem)
  /\ Codes \subseteq [Processes -> Words]

VARIABLES
  memory,
  tlb, PTBR,        \* of each thread
  thread,           \* PC, IR, R and cc of each thread
  snapshot,         \* pcb->cpu_snapshot
  current_process,  \* of thread 0, the only one the scheduler knows
  turn,             \* the thread the executor comes to next
  used,             \* history: the pages of each process each thread has used
  trusted,          \* history: no use was doubtful
  ended             \* the program has ended

history == <<used, trusted>>
vars == <<memory, tlb, PTBR, thread, snapshot, current_process, turn, history, ended>>

(* thread_t_init; the processes' contexts are those of cpu_snapshot_init.  *)
Init ==
  /\ memory \in Images
  /\ tlb = [t \in Threads |-> Flushed]
  /\ PTBR = [t \in Threads |-> 0]
  /\ thread = [t \in Threads |-> FreshContext(0)]
  /\ \E code \in Codes : snapshot = [x \in Processes |-> FreshContext(code[x])]
  /\ current_process = Null
  /\ turn = 0
  /\ used = [t \in Threads |-> {}]
  /\ trusted = TRUE
  /\ ended = FALSE
-----------------------------------------------------------------------------
(* Whose page table thread t uses: at first it is that of the null process.  *)
Owner(t) == IF t = 0 /\ current_process # Null THEN current_process ELSE null_process

(* A use is doubtful if the page is the one behind the table, or if the    *)
(* thread has used a page of that number for a process that has it in      *)
(* another frame.                                                          *)
SameFrame(x, y, va) == Page(va) < Pages[x] /\ Frames[x][Page(va)] = Frames[y][Page(va)]

Doubtful(t, va) ==
  LET x == Owner(t) IN
  \/ Page(va) = Pages[x]
  \/ \E y \in Processes \ {x} : <<y, Page(va)>> \in used[t] /\ ~SameFrame(x, y, va)

Trusts(t, vas) == trusted' = (trusted /\ \A va \in vas : ~Doubtful(t, va))

Uses(t, vas) ==
  /\ Trusts(t, vas)
  /\ used' = [used EXCEPT ![t] = @ \cup {<<Owner(t), Page(va)>> : va \in vas}]
-----------------------------------------------------------------------------
(* Bound: what a doubtful use leads to is not followed, since no property   *)
(* is about it.                                                            *)
Runs == ~ended /\ trusted

(* execute_all comes to thread t; execute_current fetches the word at PC. *)
Turn(t) == Runs /\ turn = t

(* Fault: the executor goes one thread too far. *)
NextTurnPast == turn' = (turn + 1) % (ThreadTotal + 1)

NextTurn == turn' = (turn + 1) % ThreadTotal

PC(t) == thread[t].PC
Fetches(t) == Resolves(memory, tlb[t], PTBR[t], PC(t))
Fetched(t) == pm_read_word(memory, mmu_resolve(memory, tlb[t], PTBR[t], PC(t)))
TlbThen(t) == TlbAfter(memory, tlb[t], PTBR[t], PC(t))

(* The address in the instruction, resolved after the fetch. *)
Operand(t) == Address(Fetched(t))
Reaches(t) == Resolves(memory, TlbThen(t), PTBR[t], Operand(t))
Reached(t) == mmu_resolve(memory, TlbThen(t), PTBR[t], Operand(t))
TlbAtLast(t) == TlbAfter(memory, TlbThen(t), PTBR[t], Operand(t))

Ready(t, ops) == Turn(t) /\ Fetches(t) /\ Op(Fetched(t)) \in ops

(* __ex_LD *)
Load(t) ==
  /\ Ready(t, {"LD"})
  /\ Reaches(t)
  /\ thread' = [thread EXCEPT ![t] =
                  Loaded(@, Fetched(t), pm_read_word(memory, Reached(t)))]
  /\ tlb' = [tlb EXCEPT ![t] = TlbAtLast(t)]
  /\ NextTurn
  /\ Uses(t, {PC(t), Operand(t)})
  /\ UNCHANGED <<memory, PTBR, snapshot, current_process, ended>>

(* __ex_ST *)
Store(t) ==
  /\ Ready(t, {"ST"})
  /\ Reaches(t)
  /\ memory' = pm_write_word(memory, Reached(t), Unsigned(thread[t].R[Target(Fetched(t))]))
  /\ thread' = [thread EXCEPT ![t] = Advanced(@, Fetched(t))]
  /\ tlb' = [tlb EXCEPT ![t] = TlbAtLast(t)]
  /\ NextTurn
  /\ Uses(t, {PC(t), Operand(t)})
  /\ UNCHANGED <<PTBR, snapshot, current_process, ended>>

(* __ex_ALU *)
Calculate(t) ==
  /\ Ready(t, AluOps)
  /\ ~Traps(thread[t], Fetched(t))
  /\ thread' = [thread EXCEPT ![t] = Calculated(@, Fetched(t))]
  /\ tlb' = [tlb EXCEPT ![t] = TlbThen(t)]
  /\ NextTurn
  /\ Uses(t, {PC(t)})
  /\ UNCHANGED <<memory, PTBR, snapshot, current_process, ended>>

(* __ex_CU *)
Jump(t) ==
  /\ Ready(t, ControlOps)
  /\ thread' = [thread EXCEPT ![t] = Jumped(@, Fetched(t))]
  /\ tlb' = [tlb EXCEPT ![t] = TlbThen(t)]
  /\ NextTurn
  /\ Uses(t, {PC(t)})
  /\ UNCHANGED <<memory, PTBR, snapshot, current_process, ended>>

(* err() in the MMU or a trap of the processor: the whole program ends. *)
Fault(t) ==
  /\ Turn(t)
  /\ \/ /\ ~Fetches(t)
        /\ Trusts(t, {PC(t)})
     \/ /\ Ready(t, {"LD", "ST"})
        /\ ~Reaches(t)
        /\ Trusts(t, {PC(t), Operand(t)})
     \/ /\ Ready(t, {"DIV"})
        /\ Traps(thread[t], Fetched(t))
        /\ Trusts(t, {PC(t)})
  /\ ended' = TRUE
  /\ UNCHANGED <<memory, tlb, PTBR, thread, snapshot, current_process, turn, used>>
-----------------------------------------------------------------------------
(* Fault: cc is forgotten. *)
UnloadedBarCc ==
  IF current_process = Null THEN snapshot
  ELSE [snapshot EXCEPT ![current_process] = [thread[0] EXCEPT !.cc = 0]]

(* __disp_unload *)
Unloaded ==
  IF current_process = Null THEN snapshot
  ELSE [snapshot EXCEPT ![current_process] = thread[0]]

(* disp_dispatch: __disp_load leaves the TLB as it is. *)
Dispatch(x) ==
  /\ Runs
  /\ turn = 0
  /\ snapshot' = Unloaded
  /\ thread' = [thread EXCEPT ![0] = Unloaded[x]]
  /\ PTBR' = [PTBR EXCEPT ![0] = Table[x]]
  /\ current_process' = x
  /\ UNCHANGED <<memory, tlb, turn, history, ended>>

Execute(t) == Load(t) \/ Store(t) \/ Calculate(t) \/ Jump(t) \/ Fault(t)

Next == (\E t \in Threads : Execute(t)) \/ \E x \in Processes : Dispatch(x)

Spec == Init /\ [][Next]_vars
-----------------------------------------------------------------------------
Entries == [page : Nat \cup {-1}, frame : Nat]

TypeOK ==
  /\ memory \in [0 .. MemWords - 1 -> Words]
  /\ tlb \in [Threads -> [0 .. tlb_max_space - 1 -> Entries]]
  /\ PTBR \in [Threads -> Nat]
  /\ thread \in [Threads -> Contexts]
  /\ snapshot \in [Processes -> Contexts]
  /\ current_process \in Processes \cup {Null}
  /\ turn \in Threads
  /\ used \in [Threads -> SUBSET (Processes \X Nat)]
  /\ {trusted, ended} \subseteq BOOLEAN

(* As long as no use was doubtful, a TLB entry for a page that the thread  *)
(* has used for a process leads to that process's frame, and the tables    *)
(* are as they were: no store of any process has come near them.           *)
TlbTruthful ==
  trusted =>
    /\ LaidOut(memory)
    /\ \A t \in Threads, s \in 0 .. tlb_max_space - 1 :
         tlb[t][s] # Inactive =>
           \E x \in Processes :
             /\ <<x, tlb[t][s].page>> \in used[t]
             /\ tlb[t][s].frame = Frames[x][tlb[t][s].page]

(* The context of a process is on the thread or in its pcb; that of a      *)
(* thread that was dispatched to is lost.                                  *)
Gone == FreshContext(0)

Contextual ==
  [j \in Processes \cup Threads |->
     IF j \in Processes THEN (IF j = current_process THEN thread[0] ELSE snapshot[j])
     ELSE IF j = 0 /\ current_process # Null THEN Gone ELSE thread[j]]

(* What is in the frames, each counted once.                               *)
Framed ==
  [f \in UNION {{Frames[x][p] : p \in 0 .. Pages[x] - 1} : x \in Processes} |->
     [o \in 0 .. FrameWords - 1 |-> memory[f + o]]]

OnThreads ==
  [t \in Threads |-> IF t = 0 /\ current_process # Null THEN current_process ELSE t]

Abstract == INSTANCE PagedMachine
              WITH ctx <- Contextual, mem <- Framed, on <- OnThreads, Place <- Frames

(* Through the TLB, the page tables, the dispatches and the saved contexts, *)
(* each process computes as on a machine that knows where its pages lie,   *)
(* until it names the page behind its table, or one that the thread has    *)
(* used before for a process that has it in another frame; and only its    *)
(* own instruction ends the program.                                       *)
ImplementsPagedMachine == Abstract!PSpec
=============================================================================
