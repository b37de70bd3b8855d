-------------------------------- MODULE Loader --------------------------------
(***************************************************************************)
(* src/loader_s.c: what becomes of the memory, of the loader's MMU and of  *)
(* the pcbs when the null process is set up and then one program file      *)
(* after the other is loaded.  Each load is a timer action, one step.      *)
(*                                                                         *)
(* Nothing is assumed of what mmu_malloc returns: it ends the program, as  *)
(* the mmu_malloc of memory_s.c does each time (PhysicalMemory,            *)
(* AllocationEnds), or returns any of Grants, wherever they are.  Pids and *)
(* priorities are left out.                                                *)
(***************************************************************************)
EXTENDS FileList, Mmu

CONSTANTS
  Grants,           \* what mmu_malloc may return: a page table and frames for it
  Registers,        \* CPU_REGISTERS
  Contents,         \* what a file may hold
  Headers,          \* the numbers in its first two lines, times 4
  EXIT_CODE,
  Unset             \* what malloc left in a field

(* A line that is not a word of 8 hexadecimal digits. *)
Bad == -1

(* A file can be gone, or have no two lines, or have a program, the lines  *)
(* behind the two of the header.                                           *)
Gone == [kind |-> "gone", lines |-> <<>>]
Short == [kind |-> "short", lines |-> <<>>]
Program(lines) == [kind |-> "program", lines |-> lines]

ASSUME LoaderAssumption ==
  /\ {Registers, EXIT_CODE} \subseteq Nat
  /\ Registers > 4
  /\ FrameWords <= MemWords
  /\ \A g \in Grants : /\ g \in [table : Nat, frames : Seq(Nat)]
                       /\ g.table + Len(g.frames) < MemWords
  /\ \A c \in Contents : c \in {Gone, Short} \/ (c = Program(c.lines) /\ c.lines \in Seq(Nat \cup {Bad}))
  /\ Headers \in [code : Nat, data : Nat]

VARIABLES
  memory,
  tlb,              \* of the loader's MMU
  null_pcb,
  queue,            \* the pcbs in the run queue
  read,             \* history: what each file held that was taken
  open,             \* how many files are open
  ended             \* the program has ended

memvars == <<memory, tlb>>
lvars == <<fvars, memvars, null_pcb, queue, read, open, ended>>
-----------------------------------------------------------------------------
(* The words of a pcb from its status on, as struct pcb_t lays them out.   *)
status == 0
memory_map_data == 1
memory_map_code == 2
pgb == 3
cpu_snapshot_PC == 4
PcbWords == 7 + Registers
SnapshotWords == 3 + Registers

NoPcb == <<>>
NewPcb == [i \in 0 .. PcbWords - 1 |-> IF i = status THEN 0 ELSE Unset]    \* pcb_init
PR_READY == 3

(* Fault: the snapshot is where it belongs. *)
SnapshotInPlace == cpu_snapshot_PC

(* The address that is given to cpu_snapshot_init: &pcb->status. *)
SnapshotAt == status

(* cpu_snapshot_init: PC at the front, zeroes behind it. *)
SnapshotInit(pcb, PC) ==
  [i \in DOMAIN pcb |-> IF i = SnapshotAt THEN PC
                        ELSE IF i \in SnapshotAt + 1 .. SnapshotAt + SnapshotWords - 1 THEN 0
                        ELSE pcb[i]]
-----------------------------------------------------------------------------
(* mmu_malloc for a program of so many words: how many frames it needs,    *)
(* what it may be granted, and the memory when the table is written.       *)
FramesNeeded(words) == (words + FrameWords - 1) \div FrameWords

Granted(n) == {g \in Grants : Len(g.frames) = n}

TableWritten(mem, g) ==
  [a \in DOMAIN mem |-> IF a = g.table THEN Len(g.frames)
                        ELSE IF a - g.table \in DOMAIN g.frames THEN g.frames[a - g.table]
                        ELSE mem[a]]

LInit ==
  /\ FInit
  /\ memory = [a \in 0 .. MemWords - 1 |-> 0]
  /\ tlb = Flushed
  /\ null_pcb = NoPcb
  /\ queue = <<>>
  /\ read = <<>>
  /\ open = 0
  /\ ended = FALSE

(* loader_init *)
Initialise ==
  /\ ReadFile \/ SortFiles
  /\ UNCHANGED <<memvars, null_pcb, queue, read, open, ended>>

(* load_null_pcb, with a thread's MMU, which it leaves flushed. *)
LoadNull ==
  /\ phase = "load"
  /\ null_pcb = NoPcb
  /\ ~ended
  /\ \/ ended' = TRUE /\ UNCHANGED <<memory, null_pcb>>        \* in mmu_malloc
     \/ \E g \in Granted(1) :
          LET mem == TableWritten(memory, g)
              pcb == SnapshotInit([NewPcb EXCEPT ![pgb] = g.table, ![memory_map_data] = 0,
                                                 ![memory_map_code] = 0], 0)
          IN  /\ memory' = pm_write_word(mem, mmu_resolve(mem, Flushed, pcb[pgb], 0), EXIT_CODE)
              /\ null_pcb' = pcb
              /\ UNCHANGED ended
  /\ UNCHANGED <<fvars, tlb, queue, read, open>>
-----------------------------------------------------------------------------
NextAddress(va) == va + 1

(* What the loop of __load_file makes of a line, through the table at      *)
(* ptbr: it stops at a bad line, and err() in the MMU ends the program.    *)
LineCopied(o, ptbr, line) ==
  CASE o.how # "done" -> o
    [] o.how = "done" /\ line = Bad -> [o EXCEPT !.how = "half"]
    [] o.how = "done" /\ line # Bad /\ ~Resolves(o.mem, o.tlb, ptbr, o.va) ->
         [o EXCEPT !.how = "ended"]
    [] OTHER ->
         [mem |-> pm_write_word(o.mem, mmu_resolve(o.mem, o.tlb, ptbr, o.va), line),
          tlb |-> TlbAfter(o.mem, o.tlb, ptbr, o.va),
          va |-> NextAddress(o.va),
          how |-> "done"]

Copied(mem, ptbr, lines) ==
  LET after[i \in 0 .. Len(lines)] ==
        IF i = 0 THEN [mem |-> mem, tlb |-> tlb, va |-> 0, how |-> "done"]
        ELSE LineCopied(after[i - 1], ptbr, lines[i])
  IN  after[Len(lines)]

(* Fault: the TLB is not flushed. *)
TlbKept(o) == o.tlb

(* Only a load that comes to its end flushes the TLB and closes the file. *)
TlbLeft(o) == IF o.how = "done" THEN Flushed ELSE o.tlb

Queued(pcb) == queue' = Append(queue, [pcb EXCEPT ![status] = PR_READY])

LoadGone ==
  /\ ended' = TRUE
  /\ UNCHANGED <<memvars, queue, open>>

LoadShort ==
  /\ Queued(NewPcb)
  /\ open' = open + 1
  /\ UNCHANGED <<memvars, ended>>

(* mmu_malloc ends the program, while the file is open. *)
LoadRefused ==
  /\ ended' = TRUE
  /\ open' = open + 1
  /\ UNCHANGED <<memvars, queue>>

LoadProgram(lines) ==
  \E g \in Granted(FramesNeeded(Len(lines))) :
    LET pcb == [SnapshotInit([NewPcb EXCEPT ![pgb] = g.table, ![memory_map_code] = Headers.code],
                             Headers.code) EXCEPT ![memory_map_data] = Headers.data]
        o == Copied(TableWritten(memory, g), pcb[pgb], lines)
    IN  /\ memory' = o.mem
        /\ tlb' = TlbLeft(o)
        /\ open' = IF o.how = "done" THEN open ELSE open + 1
        /\ ended' = (o.how = "ended")
        /\ IF o.how = "ended" THEN UNCHANGED queue ELSE Queued(pcb)

(* loader_load_next_process, with __load_file. *)
LoadNext ==
  /\ null_pcb # NoPcb
  /\ ~ended
  /\ PopFile
  /\ UNCHANGED null_pcb
  /\ IF length = 0 \/ wrong' THEN UNCHANGED <<memvars, queue, read, open, ended>>
     ELSE \E file \in Contents :
            /\ read' = Append(read, file)
            /\ CASE file.kind = "gone" -> LoadGone
                 [] file.kind = "short" -> LoadShort
                 [] file.kind = "program" -> LoadRefused \/ LoadProgram(file.lines)

LNext == Initialise \/ LoadNull \/ LoadNext

(* The loader's timer fires again and again: see Clock. *)
LSpec == LInit /\ [][LNext]_lvars /\ WF_lvars(LNext)
-----------------------------------------------------------------------------
(* What was read of the i-th file before a bad line. *)
Good(i) ==
  LET l == read[i].lines IN
  {k \in DOMAIN l : \A j \in 1 .. k : l[j] # Bad}

(* Wherever mmu_malloc puts the page table that it makes for a process,    *)
(* the pcb loses it: every process that is loaded, and the null process,   *)
(* has the page table at address 0, and a short file leaves a pcb that     *)
(* nobody has given any.                                                   *)
TableLost ==
  /\ null_pcb # NoPcb => null_pcb[pgb] = 0
  /\ \A i \in DOMAIN queue : queue[i][pgb] = IF read[i].kind = "short" THEN Unset ELSE 0

(* So a program of one page does not go to the frame that was granted for  *)
(* it, but to the one of which the word at address 1 holds the address     *)
(* once the table is written - or, after a load that ended half way, to    *)
(* the one that the TLB still holds.  All its lines up to the first bad    *)
(* one go there, one behind the other, even where they write over the word *)
(* that has led there; nothing else in the memory changes but the table.   *)
ProgramGoesThroughTable0 ==
  [][LET file == read'[Len(read')]
         good == Good(Len(read))'
     IN  read' # read /\ file.kind = "program" /\ ~ended' /\ good \subseteq 1 .. FrameWords =>
           \E g \in Granted(FramesNeeded(Len(file.lines))) :
             LET mem == TableWritten(memory, g)
                 frame == IF tlb[0].page = 0 THEN tlb[0].frame ELSE FrameStart(mem[1 % MemWords])
             IN  memory' = [a \in 0 .. MemWords - 1 |->
                              LET k == ((a - frame) % MemWords) + 1
                              IN  IF k \in good THEN file.lines[k] ELSE mem[a]]]_lvars

(* The loader's TLB keeps entries only of a load that ended half way, and  *)
(* only until the next program is loaded; every file stays open that was   *)
(* not loaded to its end.                                                  *)
FlushedUnlessHalf ==
  LET half == {i \in DOMAIN read : Good(i) # DOMAIN read[i].lines}
      short == {i \in DOMAIN read : read[i].kind = "short"}
      dead == {i \in DOMAIN read : ended /\ i = Len(read) /\ read[i] # Gone}
  IN  /\ open = Cardinality(half \cup short \cup dead)
      /\ tlb # Flushed =>
           \E i \in half \cup dead : \A j \in i + 1 .. Len(read) : read[j].kind # "program"

(* Unless the directory ends with the file that sorts last, loading ends   *)
(* with a NULL pointer, and otherwise all files are loaded; but a file may *)
(* end the program before.                                                 *)
LoadingEnds ==
  phase = "load" ~> \/ found # <<>> /\ Greatest # Len(found) /\ wrong
                    \/ (found # <<>> => Greatest = Len(found)) /\ Len(loaded) = Len(found)
                    \/ ended
=============================================================================
