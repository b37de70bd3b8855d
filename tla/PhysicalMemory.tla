--------------------------- MODULE PhysicalMemory ---------------------------
(***************************************************************************)
(* The allocator of src/memory_s.c: the list of free blocks, the requests  *)
(* that take from it, and the calls that give frames and page tables back. *)
(* err() and exit() end the program.                                       *)
(*                                                                         *)
(* The list is a sequence of its blocks, which is what LinkedListProofs    *)
(* shows of it; linkedlist_get_first_match_from_rear, which no file        *)
(* defines, is taken to be linkedlist_peek_first_match_from_rear.  The     *)
(* bytes of the memory are left out.                                       *)
(***************************************************************************)
EXTENDS Integers, Sequences, SequencesExt

CONSTANTS
  MemStart,         \* MEM_SPACE_START_ADDRESS; below it is the kernel's space
  MemEnd,           \* MEM_SPACE_END_ADDRESS
  FRAME_SIZE,
  WordSize,         \* PAGETABLE_CORE_ADDRESS_KOP and PAGETABLE_ENTRY_ADDRESS_KOP
  Modulus,          \* of uint32_t
  MaxEntries,       \* bound: entries of a page table
  MaxHeld           \* bound: holders of an address

ASSUME MemoryAssumption ==
  /\ {MemStart, MemEnd, FRAME_SIZE, WordSize, Modulus, MaxEntries, MaxHeld} \subseteq Nat
  /\ WordSize > 2
  /\ FRAME_SIZE > 2
  /\ WordSize * (MaxEntries + 1) <= MemStart
  /\ MemStart + FRAME_SIZE <= MemEnd + 1
  /\ 2 * (MemEnd + 1) <= Modulus

VARIABLES
  free,             \* ps->free_blocks
  held,             \* history: how many hold the first address of each zone
  table,            \* the entries of the page table that was written last
  strayed,          \* history: a request took another block than it found
  granted,          \* history: the last request of a call returned 0
  ended             \* the function in which the program has ended, or "no"

vars == <<free, held, table, strayed, granted, ended>>

Block(from, to) == [start |-> from, end |-> to]

(* The two zones of the memory, and what is requested of them. *)
Zones == {"kernel", "mem"}
Start(z) == IF z = "kernel" THEN 0 ELSE MemStart
End(z) == IF z = "kernel" THEN MemStart - 1 ELSE MemEnd
TableSize(n) == WordSize * (n + 1)

Init ==
  /\ free = <<Block(0, MemEnd)>>
  /\ held = [z \in Zones |-> 0]
  /\ table = 0
  /\ strayed = FALSE
  /\ granted = FALSE
  /\ ended = "no"

Max2(a, b) == IF a < b THEN b ELSE a
Min2(a, b) == IF a < b THEN a ELSE b
-----------------------------------------------------------------------------
(* __search_space: the part of b in zone z, its length in uint32_t. *)
Fits(b, z, least) ==
  /\ b.end >= Start(z)
  /\ b.start <= End(z)
  /\ (Max2(b.start, Start(z)) - Min2(b.end, End(z)) + 1) % Modulus >= least

(* Fault: there is always something to put back behind the zone. *)
RemainderBehind(b, z) ==
  (IF b.start < Start(z) THEN <<Block(b.start, Start(z) - 1)>> ELSE <<>>)
  \o <<Block(End(z) + 1, b.end)>>

(* Fault: the part before the zone ends at the first address of the zone. *)
RemainderInto(b, z) ==
  (IF b.start < Start(z) THEN <<Block(b.start, Start(z))>> ELSE <<>>)
  \o (IF b.end > End(z) THEN <<Block(End(z) + 1, b.end)>> ELSE <<>>)

(* What is put back of a block that was taken for zone z. *)
Remainder(b, z) ==
  (IF b.start < Start(z) THEN <<Block(b.start, Start(z) - 1)>> ELSE <<>>)
  \o (IF b.end > End(z) THEN <<Block(End(z) + 1, b.end)>> ELSE <<>>)

(* linkedlist_pop: not the block that was found, but the last one. *)
TakenBlock(f) == Last(f)

(* A call as it leaves the list: what it returns, where it has ended the   *)
(* program, and whether its last request succeeded.                        *)
Outcome(f, code, at, got) == [free |-> f, code |-> code, ended |-> at, granted |-> got]
Untouched(f) == Outcome(f, 0, "no", FALSE)

(* Where a program can end. *)
Functions ==
  {"pm_memory_allocation_request", "pm_m_frame_malloc", "pm_m_frame_malloc_bulk",
   "pm_pt_page_table_malloc", "pm_m_frame_free", "pm_pt_page_table_free"}

(* pm_memory_allocation_request: it hands out the first address of z. *)
Requested(f, z, least) ==
  IF \E i \in DOMAIN f : Fits(f[i], z, least)
  THEN Outcome(Front(f) \o Remainder(TakenBlock(f), z), 0, "no", TRUE)
  ELSE Outcome(f, -1, "pm_memory_allocation_request", FALSE)

(* The search, from first along next, finds the block that fits - there is *)
(* never a second one in a zone -, and the pop takes the last block.       *)
Strays(f, z, least) ==
  /\ \E i \in DOMAIN f : Fits(f[i], z, least)
  /\ ~Fits(Last(f), z, least)

(* The test !code that follows an allocation. *)
TakenAsFailure(code) == code = 0

Checked(o, caller) ==
  IF o.ended # "no" THEN o
  ELSE IF TakenAsFailure(o.code) THEN Outcome(o.free, -1, caller, o.granted)
  ELSE Outcome(o.free, 0, "no", o.granted)

FrameMalloc(f) == Checked(Requested(f, "mem", FRAME_SIZE), "pm_m_frame_malloc")

BulkRound(o) ==
  IF o.ended # "no" THEN o
  ELSE Checked(FrameMalloc(o.free), "pm_m_frame_malloc_bulk")

(* Fault: the loop stops one frame early. *)
BulkShort(f, n) ==
  LET after[i \in 0 .. n] == IF i = 0 THEN Untouched(f) ELSE BulkRound(after[i - 1])
  IN  after[IF n = 0 THEN 0 ELSE n - 1]

FrameMallocBulk(f, n) ==
  LET after[i \in 0 .. n] == IF i = 0 THEN Untouched(f) ELSE BulkRound(after[i - 1])
  IN  after[n]

(* Without its writes to the memory. *)
PageTableMalloc(f, n) ==
  LET t == Checked(Requested(f, "kernel", TableSize(n)), "pm_pt_page_table_malloc")
  IN  IF t.ended # "no" THEN t
      ELSE Checked(FrameMallocBulk(t.free, n), "pm_pt_page_table_malloc")
-----------------------------------------------------------------------------
(* pm_m_frame_free of a frame, and the frames of a page table in turn. *)
Covers(b, a) == b.start <= a /\ a <= b.end
IsFree(f, a) == \E i \in DOMAIN f : Covers(f[i], a)

(* Fault: what is free already is freed again. *)
FreedAgain(o, a, size, caller) ==
  IF o.ended # "no" THEN o
  ELSE Outcome(Append(o.free, Block(a, a + size - 1)), 0, "no", FALSE)

Freed(o, a, size, caller) ==
  IF o.ended # "no" THEN o
  ELSE IF IsFree(o.free, a) THEN Outcome(o.free, -1, caller, FALSE)
  ELSE Outcome(Append(o.free, Block(a, a + size - 1)), 0, "no", FALSE)

FrameFreed(o) == Freed(o, MemStart, FRAME_SIZE, "pm_m_frame_free")

TableFreed(f, n) ==
  LET after[i \in 0 .. n] ==
        IF i = 0 THEN Freed(Untouched(f), 0, TableSize(n), "pm_pt_page_table_free")
        ELSE FrameFreed(after[i - 1])
  IN  after[n]
-----------------------------------------------------------------------------
(* A call returns, or ends the program. *)
Call(o) ==
  /\ ended = "no"
  /\ free' = o.free
  /\ ended' = o.ended
  /\ granted' = o.granted

(* pm_memory_allocation_request by a caller that does not test for !0.     *)
Request(z, least) ==
  /\ held[z] < MaxHeld
  /\ Call(Requested(free, z, least))
  /\ held' = IF granted' THEN [held EXCEPT ![z] = @ + 1] ELSE held
  /\ strayed' = (strayed \/ Strays(free, z, least))

RequestFrame == Request("mem", FRAME_SIZE) /\ UNCHANGED table

(* The holder of a page table writes it, as pm_pt_page_table_malloc would. *)
RequestTable(n) ==
  /\ Request("kernel", TableSize(n))
  /\ table' = IF granted' THEN n ELSE table

(* pm_m_frame_malloc *)
MallocFrame ==
  /\ Call(FrameMalloc(free))
  /\ UNCHANGED <<held, table, strayed>>

(* pm_m_frame_malloc_bulk *)
MallocFrames(n) ==
  /\ Call(FrameMallocBulk(free, n))
  /\ UNCHANGED <<held, table, strayed>>

(* mmu_malloc for a process of n pages: pm_pt_page_table_malloc *)
MallocTable(n) ==
  /\ Call(PageTableMalloc(free, n))
  /\ UNCHANGED <<held, table, strayed>>

(* pm_m_frame_free, by a holder. *)
FreeFrame ==
  /\ held["mem"] > 0
  /\ Call(FrameFreed(Untouched(free)))
  /\ held' = [held EXCEPT !["mem"] = @ - 1]
  /\ UNCHANGED <<table, strayed>>

(* pm_pt_page_table_free and mmu_free, by a holder who holds its frames. *)
FreeTable ==
  /\ held["kernel"] > 0
  /\ held["mem"] >= table
  /\ Call(TableFreed(free, table))
  /\ held' = [held EXCEPT !["kernel"] = @ - 1, !["mem"] = @ - table]
  /\ UNCHANGED <<table, strayed>>

Next ==
  \/ RequestFrame
  \/ \E n \in 0 .. MaxEntries : RequestTable(n)
  \/ MallocFrame
  \/ \E n \in 0 .. MaxEntries : MallocFrames(n)
  \/ \E n \in 0 .. MaxEntries : MallocTable(n)
  \/ FreeFrame
  \/ FreeTable

Spec == Init /\ [][Next]_vars
-----------------------------------------------------------------------------
(* The free blocks lie in the memory, nobody holds more than there are     *)
(* holders, and the program ends in a function of the allocator.           *)
TypeOK ==
  /\ free \in Seq([start : 0 .. MemEnd, end : 0 .. MemEnd])
  /\ held \in [Zones -> 0 .. MaxHeld]
  /\ table \in 0 .. MaxEntries
  /\ {strayed, granted} \subseteq BOOLEAN
  /\ ended \in Functions \cup {"no"}

(* No address is in two free blocks, whatever was taken, split and given   *)
(* back, by whoever held it.                                               *)
Disjoint ==
  \A i, j \in DOMAIN free :
    i # j => free[i].end < free[j].start \/ free[j].end < free[i].start

(* From the first request on, no free block crosses from the kernel's zone *)
(* into that of the processes: a frame is never cut from kernel space.     *)
OneZone ==
  held # [z \in Zones |-> 0] =>
    \A i \in DOMAIN free : \E z \in Zones :
      Start(z) <= free[i].start /\ free[i].end <= End(z)

(* As long as every request took the block it had found, an address that   *)
(* is handed out has one holder and is in no free block.                   *)
ExclusiveUntilStray ==
  ~strayed => \A z \in Zones :
    /\ held[z] <= 1
    /\ held[z] = 1 => ~IsFree(free, Start(z))

(* Nobody is ever given a frame or a page table: whatever is free, each    *)
(* call that allocates at least a frame or a page table ends the program,  *)
(* here or in a function that it calls.  Only no frames at all are granted *)
(* by pm_m_frame_malloc_bulk, and for that mmu_malloc ends it.             *)
AllocationEnds ==
  [][(\/ MallocFrame
      \/ \E n \in 1 .. MaxEntries : MallocFrames(n)
      \/ \E n \in 0 .. MaxEntries : MallocTable(n)) => ended' # "no"]_vars

(* "pm_m_frame_malloc: pm_memory_allocation_request failed": the program   *)
(* ends with these words only if the request has failed.                   *)
ErrorMeansFailure == ended = "pm_m_frame_malloc" => ~granted
=============================================================================
