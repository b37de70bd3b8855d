# Verification of SE_Kernel

SE_Kernel simulates a small kernel. A clock thread paces four timer threads; their actions run the
scheduler, the loader, the executor and a status printer on simulated CPUs with a simulated memory.
This directory holds TLA+ modules of its parts, the TLC configurations that check them on small
instances, and proofs that TLAPS checks for every value of the constants. `PROJECT.json` maps each
definition to the lines it models and lists the hazards with the properties that cover them.

## The state of the code, and what that means for the models

The program does not build as it is: `main.c:66` dereferences a struct, names of the scheduler
policies collide with pthread's macros in `scheduler_data_interface.c`, the parameter `MAX_PRIO` of
`processgenerator.c` collides with the macro, and five functions that are called are defined nowhere
or under another name (`linkedlist_get_first`, `linkedlist_get_first_match_from_rear`,
`unlink_procedure_of_current`, `sched_print_sched_status`, `rq_simple_fifo_i_sched_inplement`).
If it were linked, booting would end in the first memory allocation (see `memory_error`).

Each component is therefore modelled as a unit, through its own functions and with the callers the
code has or plainly intends. Where a unit uses what another would have to set up first, its model
assumes nothing of it that the other's model refutes. The allocator of `memory_s.c` ends the program
in every allocation of a frame or a table (`AllocationEnds`); so in `Loader` `mmu_malloc` ends the
program or returns any of a set of page tables and frames (`Grants`), wherever they lie, and what is
said of the loader holds for all of them. In `Machine` the processes have page tables and frames
anywhere, of their own or shared - one request for a frame returns the same address as the next, and
every process that the loader makes ends up with page table 0 -, except that no frame covers a
table, as the two zones of the memory separate them. A missing function is taken to be what its name
and use say: `linkedlist_get_first` shows the first item, `linkedlist_get_first_match_from_rear` is
`linkedlist_peek_first_match_from_rear`. With that exception nothing is repaired: where a component
misbehaves its model does, and the properties say when.

## Inventory

| Part | State | Operations | Interacts by | What is hard, and what makes it correct |
|---|---|---|---|---|
| Clock (`clock.c`) | two counters, a mutex, two condition variables; per timer a count, a frequency, a status | clock loop, timer loop, `clk_stop_timer`, `clk_change_timer_tickFreq` | callbacks (`TickAction`) under the mutex | Threads interleave; the last two calls take no mutex. Each timer ticks once per cycle, fires as its frequency says; no wakeup is lost. |
| Linked list (`linkedlist.c`) | nodes with `next`/`prev`, `first`, `last`, `length` | push, pop, search, search-and-unlink, merge sort | used by run queues, loader, memory | Long sequences of calls: the pointers stay those of a list, no freed node is used; the sort leaves `prev` stale. |
| Run queues (`scheduler_*_fifo.c`, `runqueues.c`, `scheduler_data_interface.c`) | lists by priority, in two arrays; counters | in, out, peek, through function pointers | called by the scheduler | Arrays change roles within a call; the most urgent pcb must come first, and the counts must agree with the lists. |
| Scheduler, dispatcher (`scheduler.c`, `pcb_s.c`) | current process, quantum, status, per pcb a status and a context | `sched_execute`, `sched_add_to_process_queue` | run queue, hardware thread, loader | NULL and destroyed pcbs; saved contexts; fairness among processes. |
| Physical memory (`memory_s.c`) | list of free blocks, words | request, frame and page table alloc/free | called by the MMU | Blocks are split and given back: an address has one owner. |
| MMU, TLB (`memory_s.c`) | TLB entries | resolve, add, flush | executor, loader | Entries go stale when the page table changes; a resolved address leads to the page of the process that uses it. |
| Executor, CPU (`executor_s.c`, `cpu.c`) | PC, IR, registers, cc | one instruction per tick | MMU, scheduler's contexts | Words of 32 bits; division; what a jump does to PC. |
| Loader (`loader_s.c`) | list of files, pid counter | load the next file | list, MMU, scheduler | A load that ends half way; aliasing of the pcb's fields. |
| Process generator (`processgenerator.c`) | – | – | – | Superseded by the loader; nothing calls it. |
| Boot (`main.c`) | – | sets the parts up in order | all | The loader is set up before the memory it uses. |

## Modules

| Module | Models | Notes |
|---|---|---|
| `TickBarrier` | what the clock promises: a cyclic barrier | abstract |
| `Clock` | `clock.c` | a step is what a thread does between two points where another can act on what it uses |
| `ClockSchedule` | `Clock` with a cycle counter as history | for the firing schedule |
| `ItemSequence` | what an unsorted list promises: a sequence of items | abstract |
| `LinkedList` | `linkedlist.c` without the sort, pointer by pointer | an invalid pointer sets `wrong` and ends the behaviour |
| `LinkedListChain` | `LinkedList` with the order of the nodes as history | for `Linked` and the refinement |
| `SortedList` | `LinkedList` with `merge_sort` | the sort is a recursive function on sequences of nodes |
| `FileList` | the loader's list of files: read, sorted, popped | composed into `Loader` |
| `PriorityBag` | what the priority run queue promises: the most urgent first | abstract |
| `PrioRunQueue`, `SimpleRunQueue` | the two run queues | lists are sequences: `LinkedListProofs` justifies it, since run queues never sort |
| `Scheduler` | `scheduler.c` for one hardware thread, under each of the four policies, with the loader's inserts and the executor's steps | run queues reduced to what peek gives: the simple queue shows its oldest, the priority queue takes out a most urgent (its interface swaps peek and out) |
| `PhysicalMemory` | the allocator of `memory_s.c` | lists are sequences; a bulk call is a function of its rounds (`after`); the words in memory are left out but for the length of the last page table |
| `Mmu` | words of the memory, page tables, the TLB: pure operators of `memory_s.c` | shared by `Machine` and `Loader` |
| `Instructions` | what each instruction of `executor_s.c` makes of a context: pure operators | for every size of word |
| `PagedMachine` | what executor, MMU and dispatcher promise: each process computes on the places of its pages | abstract |
| `Machine` | `executor_s.c`, `cpu.c`, the MMU and the dispatcher's loads and saves, on every hardware thread | composes `Mmu` and `Instructions`; starts with programs loaded, wherever tables and frames lie |
| `Loader` | `loader_s.c` and `cpu_snapshot_init` | composes `FileList` and `Mmu`; `mmu_malloc` ends the program or grants any of `Grants` |
| `Induction` | nothing of the code: induction, recursion and loops over the naturals as lemmas | for the proofs about recursive functions |
| `ClockProofs`, `LinkedListProofs`, `PrioRunQueueProofs`, `SchedulerProofs`, `PhysicalMemoryProofs`, `MachineProofs`, `LoaderProofs` | theorems | |
| `MC*` | values for TLC | |

A definition whose comment begins with "Fault" is a plausible slip in the definition after it. No
next-state relation uses one; each shows that some property would notice that slip.

### How the state corresponds

`Clock`'s `clk` and `pc` say where the clock and each timer thread are; `total` and `consumed` are
`timer_total_cont` and `timer_tick_consumed_cont`; the mutex is held by whoever is in `Critical`.
`loaded` is the value of `tick_count` between its load and its store, since
`clk_change_timer_tickFreq` can write in between. In `LinkedList`, `next`, `prev` and `data` are the
fields of the node at each address, and `live` is what malloc has handed out and free not taken back.
A CPU context in `Scheduler` is whose it is and how far that has come; in `Machine` it is PC, IR, the
registers and cc themselves. A timer's action is one step because `clock.c` runs it inside the mutex;
`Machine` takes an instruction of one hardware thread as a step, as `execute_all` goes through them,
and `turn` keeps dispatches between two rounds. In `PhysicalMemory` a call that reaches `err()` sets
`ended`; in `Machine` and `Loader` so does whatever else ends the program, a division that the
processor traps or a file that cannot be opened.

Memory in `Mmu` is an array of words: `pm_read_word` and `pm_write_word` drop the bits that tell the
bytes of a word apart, and so an address here is one in the code divided by four. `Machine`'s `used`
and `trusted` are history: which pages of which process each thread has used, and whether none of
these uses was doubtful. In `Loader`, a pcb is its words from `status` on, in the order of
`struct pcb_t`, since `__load_file` hands the address of the status to a function that expects that of
the snapshot; `read` is history.

## Runs

| Run | Question and result | Bounds |
|---|---|---|
| `clock_main` | main's timers of frequencies 1, 2, 4 under every interleaving implement a barrier that keeps turning; each fires exactly when due | 3 timers (the fourth, the printer, has the executor's frequency 1), cycles modulo 4, one spurious wakeup of the clock |
| `clock_stop` | any timers stopped at any time: leaving is between cycles, counters agree, the clock misses a full cycle only after a timer left | 3 timers |
| `clock_retune` | frequency changes racing with a timer's own count-down, and a timer that wakes spuriously: no count is left used up, every timer keeps firing | 2 timers, 2 changes, to 1 or 3 |
| `list_linked` | pushes, pops and searches in any order keep a proper list and implement a sequence | 3 nodes: the removals at the front, in the middle, at the end and of the only node |
| `loader` | from the directory to the last load: the sort sorts, the list loses its files where a sort left `prev` stale, every pcb loses the page table made for it, every program goes where page table 0 leads | 4 files in every order, each gone, short, with a bad line, or a program of one frame or of two; tables at 0 or elsewhere, for the same frame or another; 12 words of memory, frames of 3, 2 TLB entries |
| `machine` | two hardware threads run three processes while the dispatcher switches at any time: each process computes as on a machine that knows where its pages lie, until a use of an address is doubtful | words of 8 bits, 2 registers, 12 words of memory, frames of 2, 2 TLB entries; 2 pages per process; two processes with one page table, all three with one first page; 100 program images |
| `rq_prio` | every order of in, out and peek: arrays, counts and lists agree; a most urgent pcb comes first | 4 pcbs, 3 priorities, one priority past the end, an int of -2..1 so that the counter wraps |
| `rq_prio_total` | *violated*: `nr_running` does not count insertions | as above |
| `rq_simple_fifo` | *violated*: the queue named FIFO hands out the newest first | 4 pcbs |
| `scheduler` | all four policies: only the null process is ever dispatched, loaded processes wait in order, contexts are kept, the round robin goes on | 3 pcbs, quantum 10 by ticks of 4, 3 steps of a process |
| `memory` | every order of requests and frees: free blocks never overlap or cross zones; an address has one holder and is not free, until a request takes a block other than the one it found; an allocation of frames or a table never returns | memory of 48 addresses, frames of 8, tables of up to 2 entries, up to 3 holders of an address |
| `memory_error` | *violated*: a frame request that succeeded is reported as failed | as above |

Notes on the bounds. `MaxSpurious` and `MaxChanges` bound what the environment does, not the code;
`Period` wraps the cycle counter at a multiple of every frequency, so nothing is cut off. `IntLimit`
is the width of `nr_running`; the code's is 2^31. `Steps` is how far a process comes before its
contexts repeat. Three nodes are the least in which an unlinked node has two neighbours.
`PhysicalMemory` keeps the proportions the code depends on: a zone is longer than a frame and
than any table, and uint32_t (`Modulus`) holds twice the memory, which makes the unsigned
underflow of `__search_space` as large as a block can be. `MaxHeld` stops the requests that would
hand out one address for ever; the first doubling is at 2.

`Machine` keeps the layout of an instruction - operation, register, address, with two more registers
at the top of the address - in 8 bits instead of 32. Two TLB entries and processes of two pages make
entries of two processes meet in one slot. Two processes share the page table at 0, as the loader
leaves them, so that one executes and stores into what the other is in the middle of; the third has
its first page in the same frame and its second page elsewhere, so that both kinds of use - of a page
another process has in the same place, and of one it has elsewhere - occur. The programs load and
store within their pages, on the page just behind their table and past it, and use every operation. `Machine` stops following a
behaviour once a use was doubtful (`Runs`): nothing is promised from there on. In `Loader`, four
files are the least in which the file that sorts last can have two before it and one behind it in the
directory. A file that follows one with a bad line meets the entry that this one has left in the TLB.
`MCGrants` has what memory_s.c would answer, the first address of each zone, and a page table that is
not at 0: then the null process's table, which all programs go through, leads elsewhere than the
grant says, or has never been written. A program of two frames goes through the whole of that table.

Deadlock is checked in every run except where the system may stop: stopped timers leave the clock
asleep (`clock_stop`); an invalid pointer, `err()` or the end of the files ends `loader`; `err()`, a
trap or a doubtful use ends `machine`; and `err()` ends the program in `memory` and `memory_error`.

### What the runs found

- `scheduler_priority_fifo.c:17` is a statement without effect where an increment belongs: the total is 0 or below (`rq_prio_total`).
- `scheduler_simple_fifo.c:18` pops the newest pcb of a queue that prints itself as a FIFO (`rq_simple_fifo`).
- `memory_s.c:64` reads the 0 of success as a failure, and so do lines 90, 111 and 116 (`memory_error`).

The passing runs state further consequences as properties:

- The clock can sleep for good after a timer leaves (the exception in `NoLostWakeup`).
- The loader's list yields files back through the directory from the one that sorts last, and then
  follows a NULL pointer if any are left (`LoadsBackThroughDirectory`, `LoadingEnds`).
- Every allocation of a frame, of several or of a page table ends the program: in the request if that
  fails, and in its caller if it succeeds (`AllocationEnds`).
- `loader_s.c:105` initialises the snapshot at the address of the status: the page table pointer of the
  pcb is overwritten by 0, which is where the null process's page table should be (`TableLost`). A program of one page
  therefore goes, line by line, into the frame that the word at address 1 names - or into the one in
  the TLB entry of a load that ended half way -, whatever was granted for it (`ProgramGoesThroughTable0`). The comment of that line says that PC is initialised to the
  address of the code; it is 0, as `SnapshotInit` shows. No property repeats that, since it is one
  assignment.
- A load that stops at a bad line leaves its file open and its TLB entries behind, and its pcb in the
  run queue (`FlushedUnlessHalf`).
- TLB entries are not tagged with a page table and a dispatch does not flush them: `TlbTruthful` and
  `ImplementsPagedMachine` hold only while no thread uses a page of a number that it has used for
  another process which has that page in another frame, and no process names the page just behind its
  table, which the bounds test lets pass. Processes number their pages from 0: if they have frames of
  their own, trust is soon lost once a second one runs on a thread; with the one table the loader
  gives them it is kept, but then they share their memory.
- The dispatcher never leaves the null process (`OnlyNullProcess`), because `sched_init` starts the
  thread in a status in which the run queue is never asked.
- An address gets a second owner only once a request has popped a block it had not found
  (`ExclusiveUntilStray`).

## Fairness

`Clock!FairSpec` has weak fairness for the clock thread and for each timer thread: they are ordinary
pthreads, so one that can run does. It has none for stops, changes or spurious wakeups, which may never
happen. `LinkedList!FairSpec` is fair to a search that has begun, a loop in one thread. `Loader!LSpec` is
fair to the loader, whose timer keeps firing by `TimersKeepFiring`, and `Scheduler` to the scheduler's
and the executor's timers, for the same reason; nothing is assumed of the loader there. `Machine`
states safety only and needs no fairness.

## Proofs

Seven proof modules and one of lemmas (`Induction`); all of their theorems are for every value of the
constants that satisfies the named ASSUMEs (`ClockAssumption`, `PeriodAssumption`, `ListAssumption`,
`KeyAssumption`, `PathAssumption`, `RunQueueAssumption`, `SchedulerAssumption`, `MemoryAssumption`,
`MmuAssumption`, `InstructionsAssumption`, `BitsAssumption`, `LayoutAssumption`, `LoaderAssumption`),
which TLC evaluates in the runs. Every safety property, action property and safety refinement that a
passing run checks is the statement of a theorem.

- **`ClockProofs`**: `TypeOK`, `CountsAgree`, `NoLostWakeup`, and that `Clock` implements `TickBarrier`
  when timers do not wake spuriously. Every step is one of six kinds (stays, joins, leaves, arrives,
  opens, slips), and the invariant is shown per kind. `CountsAgree` alone is not inductive: that
  spurious wakeups are bounded and that ticks have timers are needed (`SpuriousBounded`,
  `TicksHaveTimers`). Also `NeverOverdue`, for frequencies of at least 1: `TicksToGo` excepts a timer
  whose count a call has changed and not yet tested, and no longer than that.
  Of `ClockSchedule`, `FiresOnSchedule`, when no frequency changes and no timer wakes spuriously: the
  invariant `OnTime` is that the cycles since a timer registered, its count and the tick it may have
  taken in this cycle add up to a multiple of its frequency; a new cycle keeps it because the barrier
  has every timer tick first.
- **`LinkedListProofs`**: `TypeOK`, `NeverWrong`, `Linked`, and that the list implements
  `ItemSequence`. `Linked` is inductive only with a statement about the search in progress (`ScanOK`):
  its two pointers are neighbours in the chain, and nothing before them matched.
- **`PrioRunQueueProofs`**: `TypeOK`, `CountsAgree`, `OnePlace`, `ActiveStaysActive`, and that the two
  arrays implement `PriorityBag`. The invariant is that the lists, the counts and the places are
  right together (`Good`); `UpdateFacts` shows that the migration or exchange that precedes every look
  keeps it and leaves nothing expired that is more urgent than all that is active.
- **`SchedulerProofs`**: `TypeOK`, `OnlyNullProcess`, `NeverWrong`, `LoadedWaits`, `RunsItself` and
  `ContextContinues`. The invariant that carries them is that the thread's status stays that of the
  null process (`Idling`) and contexts are where they belong (`InPlace`). `LoadedWaits` is an action
  property: the queue before a step is a prefix of the queue after it, so that those who wait keep
  their order.
- **`PhysicalMemoryProofs`**: `TypeOK`, `Disjoint`, `OneZone`, `ExclusiveUntilStray` and `AllocationEnds`, for every size
  of memory, frames and tables and every number of frames in a request. None of `Disjoint`, `OneZone` and `ExclusiveUntilStray` is
  inductive: a free block could end beyond its zone, or two could start alike. What holds is that a
  list from which something was taken has only blocks that start where a zone starts and end in it,
  and no two with the same start (`Split`); as there are two zones, there are at most two blocks. A
  bulk request or a bulk free is a loop over its frames, and its invariant (`OutcomesOf`,
  `TakenOf`) says what its rounds leave of `Split`.
- **`MachineProofs`**: of `Instructions`, that every instruction makes a context of a context, for every
  size of word, and that after `CMP` the branches tell the order of two registers, exactly if their
  difference does not overflow (`CompareTellsOrder`). Of `Machine`, `TypeOK` and `TlbTruthful`, for
  every number of hardware threads, all programs, and every layout in which no frame covers a word of a page table;
  tables may coincide or overlap, and so may frames that start alike.
  `TlbTruthful` is inductive with two more facts: a thread's `PTBR` is that of the process whose
  context it has (`OwnTables`), and the pages used exist (`Exist`). From these, an address that is not
  doubtful is resolved rightly (`ResolvedRight`), and a store through such an address misses every
  page table (`StoreKeepsTables`). Then, `Machine` implements `PagedMachine`: the initial states map,
  an instruction maps to the process's own (`PStep`), to the end of the program by its own instruction
  (`PFault`), or to the loss of trust (`Distrust`), and a dispatch to `PSwitch`.
- **`LoaderProofs`**: every safety property of the run `loader`, for any number of files, whatever they
  hold, and every size of memory, frames and TLB. In four parts:
  - The sort. `merge_sorted` returns its nodes in order, and each of them once, by induction on the
    number of nodes; `SortSorts` follows, and that what sorts last is `last` after it.
  - The list. What is linked from `first` on is one sequence without repetitions (`Chain`), which `Front`
    is; from it, `CompleteUntilStray`. Whatever the sort has done to `next`, `prev` still tells the order of the
    directory (`FileInv`); so what has been popped is the
    directory backwards from the file that sorts last (`LoadsBackThroughDirectory`). This needs that
    no two files have the same path (`PathAssumption`).
  - A load. Copying a program is a loop over its lines. `CopyOutcome` says where it can end in any case;
    `PageCopied`, what the lines of one page become: the first looks its frame up, or finds it in the
    TLB, and the others find it there, even if the first has written over the table.
  - The loading. `TableLost` needs what each pcb holds in its first words (`PcbsOK`);
    `FlushedUnlessHalf`, which files count as open (`LeftOpen`). `ProgramGoesThroughTable0` follows for a
    step from `PageCopied` and the types of memory and TLB (`LoaderTypes`).

`Induction` is what makes the recursive functions and loops of the models provable: a function that is
defined by its values for smaller arguments has these values (`Recursion`), a loop has after `i` rounds
what its body makes of what it had after `i - 1` (`Loop`), and keeps what its body keeps (`LoopKeeps`).
The lemmas are stated with sets and functions in place of operators, and proved from the
well-foundedness of < on the naturals.

Only model-checked: the liveness properties and the fair refinement (`ImplementsFairBarrier`,
`TimersKeepFiring`, `SearchEnds`, `LoadingEnds`, `QuantaHandedOut`), since TLAPS does not reason about
ENABLED; and the three statements that the code violates.

## Not modelled

- `__pm_memory_allocation_procedure` and `__optimize_free_block_list`: nothing calls them, and the second calls a function that does not exist.
- Several hardware threads in the scheduler: nothing initialises the second entry of its table. `Machine` has the second thread run on with the null process's table, as `thread_t_init` leaves it.
- The process generator: nothing calls it and it does not compile.
- Boot beyond the order in which `Loader` and `Machine` find things set up: the choice of the policy, and the use of parts that main has not set up yet, which is undefined.
- Pids and priorities, which nothing above decides by but the run queue, where they are arbitrary.
- The bytes of a word: the code reads and writes whole words, at addresses whose last two bits it drops.
- The library's calls on files and strings: a line is a word or is not, and a file can be read or not.
- Signed overflow and the division's traps are taken as the processor the build is for has them: sums wrap, a division by zero or of the least number by -1 ends the program.
- Exhaustion of the host's memory, and all printing.

## Plan

Done, in this order: clock, linked list, run queues, scheduler, allocator, executor with MMU and
dispatcher, loader; the theorems about each. What could still be added:

1. The free-list clean-up beside `PhysicalMemory`, checked against the set of free addresses, if it is ever called.
2. That `SortedList` implements a sequence that can also be sorted, until a pop strays; its chain is
   that of `LoaderProofs`.
3. What the three violated statements should say instead, as theorems: what the run queue's total
   counts, in which order the simple queue hands out, and when a frame request that succeeded is
   reported as failed.
