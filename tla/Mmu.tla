--------------------------------- MODULE Mmu ---------------------------------
(***************************************************************************)
(* The words of the memory and the MMU of src/memory_s.c: pure operators   *)
(* on a memory, a TLB and a page table register.  Addresses count words    *)
(* instead of bytes: pm_read_word and pm_write_word drop the two bits that *)
(* tell the bytes of a word apart.                                         *)
(*                                                                         *)
(* A page table is a word with the number of its entries and the entries,  *)
(* each of which holds the address of a frame.                             *)
(***************************************************************************)
EXTENDS Integers

CONSTANTS
  MemWords,         \* BUS_ADDRESS_SPACE
  FrameWords,       \* FRAME_SIZE
  tlb_max_space

ASSUME MmuAssumption == {MemWords, FrameWords, tlb_max_space} \subseteq Nat \ {0}

pm_read_word(mem, a) == mem[a % MemWords]

pm_write_word(mem, a, word) == [mem EXCEPT ![a % MemWords] = word]

Page(va) == va \div FrameWords
Offset(va) == va % FrameWords

(* w & ~FRAME_OFFSET_MASK *)
FrameStart(w) == w - (w % FrameWords)
-----------------------------------------------------------------------------
(* An entry of the TLB; no page has the number -1.                         *)
Inactive == [page |-> -1, frame |-> 0]

(* tlb_flush, and the entries that thread_t_init sets up. *)
Flushed == [s \in 0 .. tlb_max_space - 1 |-> Inactive]

Slot(va) == Page(va) % tlb_max_space

(* tlb_get_match: the page table the entry came from is not asked for. *)
Match(tlb, va) == tlb[Slot(va)].page = Page(va)

(* Fault: the address of the frame is not stored. *)
EntryFrameKept(tlb, va, frame) == [tlb EXCEPT ![Slot(va)].page = Page(va)]

(* tlb_add_entry *)
Entered(tlb, va, frame) ==
  [tlb EXCEPT ![Slot(va)] = [page |-> Page(va), frame |-> frame]]
-----------------------------------------------------------------------------
(* The test of mmu_resolve_frame_root_address_from_mem: the page just      *)
(* behind the table passes.                                                *)
Refused(mem, ptbr, va) == pm_read_word(mem, ptbr) < Page(va)

FrameFromMemory(mem, ptbr, va) == FrameStart(pm_read_word(mem, ptbr + 1 + Page(va)))

(* mmu_resolve: whether it returns - otherwise err() ends the program -,   *)
(* the address, and the TLB then.                                          *)
Resolves(mem, tlb, ptbr, va) == Match(tlb, va) \/ ~Refused(mem, ptbr, va)

mmu_resolve(mem, tlb, ptbr, va) ==
  Offset(va) + IF Match(tlb, va) THEN tlb[Slot(va)].frame ELSE FrameFromMemory(mem, ptbr, va)

(* Fault: the frame that was looked up in the memory is not kept. *)
TlbNotFilled(mem, tlb, ptbr, va) == tlb

TlbAfter(mem, tlb, ptbr, va) ==
  IF Match(tlb, va) THEN tlb ELSE Entered(tlb, va, FrameFromMemory(mem, ptbr, va))
=============================================================================
