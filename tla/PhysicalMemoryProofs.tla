------------------------ MODULE PhysicalMemoryProofs ------------------------
(***************************************************************************)
(* Proofs about PhysicalMemory.  Why the free blocks stay apart: every one *)
(* starts where a zone starts, and no two start at the same address.       *)
(***************************************************************************)
EXTENDS PhysicalMemory, SequenceTheorems, Induction

Blocks == [start : 0 .. MemEnd, end : 0 .. MemEnd]

Outcomes ==
  [free : Seq(Blocks), code : {0, -1}, ended : Functions \cup {"no"}, granted : BOOLEAN]

(* The list before anything was taken from it.                             *)
Whole(f) == f = <<Block(0, MemEnd)>>

(* The list since: a block starts where a zone starts, and ends in it.     *)
InZone(b, z) == b.start = Start(z) /\ b.start <= b.end /\ b.end <= End(z)

Split(f) ==
  /\ f \in Seq(Blocks)
  /\ \A i \in DOMAIN f : \E z \in Zones : InZone(f[i], z)
  /\ \A i, j \in DOMAIN f : i # j => f[i].start # f[j].start

IInv ==
  /\ TypeOK
  /\ Split(free) \/ (Whole(free) /\ held = [z \in Zones |-> 0])
  /\ ExclusiveUntilStray
-----------------------------------------------------------------------------
(* The assumptions in the form in which they are used.                     *)
LEMMA Constants ==
  /\ MemStart \in Nat /\ MemEnd \in Nat /\ FRAME_SIZE \in Nat /\ WordSize \in Nat
  /\ MaxEntries \in Nat /\ MaxHeld \in Nat
  /\ WordSize > 2 /\ FRAME_SIZE > 2
  /\ 0 < MemStart /\ MemStart + FRAME_SIZE <= MemEnd + 1
  /\ \A n \in 0 .. MaxEntries : TableSize(n) \in 1 .. MemStart
<1>1. /\ MemStart \in Nat /\ MemEnd \in Nat /\ FRAME_SIZE \in Nat /\ WordSize \in Nat
      /\ MaxEntries \in Nat /\ MaxHeld \in Nat
      /\ WordSize > 2 /\ FRAME_SIZE > 2
      /\ MemStart + FRAME_SIZE <= MemEnd + 1
      /\ WordSize * (MaxEntries + 1) <= MemStart
  BY MemoryAssumption
<1>2. \A a, b, c \in Nat : b <= c /\ a > 0 => 0 < a * (b + 1) /\ a * (b + 1) <= a * (c + 1)
  OBVIOUS
<1>3. ASSUME NEW n \in 0 .. MaxEntries PROVE TableSize(n) \in 1 .. MemStart
  <2>1. 0 < WordSize * (n + 1) /\ WordSize * (n + 1) <= WordSize * (MaxEntries + 1)
    BY <1>1, <1>2
  <2>2. WordSize * (n + 1) \in Int
    BY <1>1
  <2> QED
    BY <1>1, <2>1, <2>2 DEF TableSize
<1>4. 0 < MemStart
  BY <1>1, <1>3 DEF TableSize
<1> QED
  BY <1>1, <1>3, <1>4

LEMMA ZoneBounds ==
  /\ Zones = {"kernel", "mem"}
  /\ Start("kernel") = 0 /\ End("kernel") = MemStart - 1
  /\ Start("mem") = MemStart /\ End("mem") = MemEnd
BY DEF Zones, Start, End

(* The list without its last block, and with at most one block instead.    *)
LEMMA LastReplaced ==
  ASSUME NEW B, NEW f \in Seq(B), f # <<>>, NEW r \in Seq(B), r = <<>> \/ \E b \in B : r = <<b>>
  PROVE  LET g == Front(f) \o r IN
         /\ g \in Seq(B)
         /\ Len(f) \in DOMAIN f /\ Last(f) = f[Len(f)]
         /\ DOMAIN g \subseteq DOMAIN f
         /\ \A i \in DOMAIN g : g[i] = IF i = Len(f) THEN r[1] ELSE f[i]
         /\ r = <<>> => Len(f) \notin DOMAIN g
<1> DEFINE n == Len(f) - 1
           h == SubSeq(f, 1, n)
<1>1. n \in Nat /\ Len(f) = n + 1 /\ Len(f) \in DOMAIN f
  OBVIOUS
<1>2. h \in Seq(B) /\ Len(h) = n /\ \A i \in 1 .. n : h[i] = f[i]
  BY <1>1
<1>3. Front(f) = h /\ Last(f) = f[Len(f)]
  BY DEF Front, Last
<1> DEFINE m == Len(r)
<1>4. m \in 0 .. 1 /\ (r = <<>> => m = 0)
  OBVIOUS
<1> HIDE DEF n, h, m
<1>5. /\ h \o r \in Seq(B) /\ Len(h \o r) = n + m
      /\ \A i \in 1 .. n + m : (h \o r)[i] = IF i <= n THEN h[i] ELSE r[i - n]
  BY <1>1, <1>2, <1>4 DEF m
<1>6. DOMAIN (h \o r) = 1 .. n + m /\ DOMAIN f = 1 .. n + 1
  BY <1>1, <1>5
<1>7. ASSUME NEW i \in 1 .. n + m
      PROVE  (h \o r)[i] = IF i = Len(f) THEN r[1] ELSE f[i]
  <2>1. CASE i <= n
    BY <1>1, <1>2, <1>5, <2>1
  <2>2. CASE i = n + 1
    BY <1>1, <1>4, <1>5, <2>2
  <2>3. i <= n \/ i = n + 1
    BY <1>1, <1>4
  <2> QED
    BY <2>1, <2>2, <2>3
<1>8. DOMAIN (h \o r) \subseteq DOMAIN f /\ (r = <<>> => Len(f) \notin DOMAIN (h \o r))
  BY <1>1, <1>4, <1>6
<1> QED
  BY <1>1, <1>3, <1>5, <1>6, <1>7, <1>8

LEMMA OneBlock ==
  \A b \in Blocks : <<b>> \in Seq(Blocks)
OBVIOUS

LEMMA EmptyAndOne ==
  ASSUME NEW x
  PROVE  <<>> \o <<x>> = <<x>> /\ <<x>> \o <<>> = <<x>> /\ <<>> \o <<>> = <<>>
<1>1. <<x>> \in Seq({x}) /\ <<>> \in Seq({x})
  OBVIOUS
<1> QED
  BY <1>1, ConcatEmptySeq

LEMMA RemainderParts ==
  ASSUME NEW b, NEW z
  PROVE  /\ ~(b.start < Start(z)) /\ ~(b.end > End(z)) => Remainder(b, z) = <<>>
         /\ b.start < Start(z) /\ ~(b.end > End(z)) =>
              Remainder(b, z) = <<Block(b.start, Start(z) - 1)>>
         /\ ~(b.start < Start(z)) /\ b.end > End(z) =>
              Remainder(b, z) = <<Block(End(z) + 1, b.end)>>
BY EmptyAndOne, Zenon DEF Remainder

(* What is put back starts where the block that was taken has started.     *)
LEMMA RemainderSplit ==
  ASSUME NEW z \in Zones, NEW y \in Zones, NEW b \in Blocks, InZone(b, y)
  PROVE  IF y = z THEN Remainder(b, z) = <<>>
         ELSE \E c \in Blocks : Remainder(b, z) = <<c>> /\ InZone(c, y)
<1> USE Constants, ZoneBounds
<1>1. CASE y = z
  BY <1>1, RemainderParts DEF InZone, Blocks
<1>2. CASE y = "kernel" /\ z = "mem"
  <2>1. Remainder(b, z) = <<Block(0, MemStart - 1)>>
    BY <1>2, RemainderParts DEF InZone, Blocks
  <2>2. Block(0, MemStart - 1) \in Blocks /\ InZone(Block(0, MemStart - 1), y)
    BY <1>2 DEF Block, Blocks, InZone
  <2> QED
    BY <1>2, <2>1, <2>2
<1>3. CASE y = "mem" /\ z = "kernel"
  <2>1. Remainder(b, z) = <<Block(MemStart, b.end)>>
    BY <1>3, RemainderParts DEF InZone, Blocks
  <2>2. Block(MemStart, b.end) \in Blocks /\ InZone(Block(MemStart, b.end), y)
    BY <1>3 DEF Block, Blocks, InZone
  <2> QED
    BY <1>3, <2>1, <2>2
<1> QED
  BY <1>1, <1>2, <1>3

LEMMA RemainderWhole ==
  ASSUME NEW z \in Zones
  PROVE  \E c \in Blocks, y \in Zones :
           y # z /\ InZone(c, y) /\ Remainder(Block(0, MemEnd), z) = <<c>>
<1> USE Constants, ZoneBounds
<1>1. CASE z = "mem"
  <2>1. Remainder(Block(0, MemEnd), z) = <<Block(0, MemStart - 1)>>
    BY <1>1, RemainderParts DEF Block
  <2>2. Block(0, MemStart - 1) \in Blocks /\ InZone(Block(0, MemStart - 1), "kernel")
    BY DEF Block, Blocks, InZone
  <2> QED
    BY <1>1, <2>1, <2>2
<1>2. CASE z = "kernel"
  <2>1. Remainder(Block(0, MemEnd), z) = <<Block(MemStart, MemEnd)>>
    BY <1>2, RemainderParts DEF Block
  <2>2. Block(MemStart, MemEnd) \in Blocks /\ InZone(Block(MemStart, MemEnd), "mem")
    BY DEF Block, Blocks, InZone
  <2> QED
    BY <1>2, <2>1, <2>2
<1> QED
  BY <1>1, <1>2
-----------------------------------------------------------------------------
(* The first address of a zone is free if a block starts there.            *)
LEMMA SplitIsFree ==
  ASSUME NEW f, Split(f), NEW z \in Zones
  PROVE  IsFree(f, Start(z)) <=> \E i \in DOMAIN f : f[i].start = Start(z)
<1>1. ASSUME NEW i \in DOMAIN f PROVE Covers(f[i], Start(z)) <=> f[i].start = Start(z)
  <2>1. PICK y \in Zones : InZone(f[i], y)
    BY DEF Split
  <2>2. f[i] \in Blocks
    BY DEF Split
  <2> QED
    BY <2>1, <2>2, Constants, ZoneBounds DEF Covers, InZone, Blocks
<1> QED
  BY <1>1 DEF IsFree

LEMMA WholeIsFree ==
  ASSUME NEW f, Whole(f), NEW z \in Zones
  PROVE  IsFree(f, Start(z))
<1>1. f = <<Block(0, MemEnd)>>
  BY DEF Whole
<1>2. Covers(Block(0, MemEnd), Start(z))
  BY Constants, ZoneBounds DEF Block, Covers
<1> QED
  BY <1>1, <1>2 DEF IsFree

(* What a request leaves of the list, whatever block it has taken.         *)
LEMMA RequestedSplit ==
  ASSUME NEW f, Split(f) \/ Whole(f), NEW z \in Zones, NEW least
  PROVE  LET o == Requested(f, z, least) IN
         /\ o \in Outcomes
         /\ o.granted <=> \E i \in DOMAIN f : Fits(f[i], z, least)
         /\ o.ended = "no" <=> o.granted
         /\ IF o.granted THEN Split(o.free) ELSE o.free = f
         /\ \A y \in Zones : IsFree(o.free, Start(y)) => IsFree(f, Start(y))
<1> DEFINE o == Requested(f, z, least)
           found == \E i \in DOMAIN f : Fits(f[i], z, least)
           g == Front(f) \o Remainder(Last(f), z)
<1>1. f \in Seq(Blocks)
  <2>1. Block(0, MemEnd) \in Blocks
    BY Constants DEF Block, Blocks
  <2> QED
    BY <2>1, OneBlock DEF Split, Whole
<1>2. o = IF found THEN Outcome(g, 0, "no", TRUE)
          ELSE Outcome(f, -1, "pm_memory_allocation_request", FALSE)
  BY DEF Requested, TakenBlock
<1>3. ASSUME found
      PROVE  Split(g) /\ \A y \in Zones : IsFree(g, Start(y)) => IsFree(f, Start(y))
  <2>1. f # <<>>
    BY <1>3
  <2>2. CASE Split(f)
    <3>1. Len(f) \in DOMAIN f /\ Last(f) = f[Len(f)] /\ f[Len(f)] \in Blocks
      BY <1>1, <2>1 DEF Last
    <3>2. PICK y \in Zones : InZone(Last(f), y)
      BY <2>2, <3>1 DEF Split
    <3> DEFINE r == Remainder(Last(f), z)
    <3>3. IF y = z THEN r = <<>> ELSE \E c \in Blocks : r = <<c>> /\ InZone(c, y)
      BY <3>1, <3>2, RemainderSplit, Zenon
    <3> HIDE DEF r
    <3>4. r \in Seq(Blocks) /\ (r = <<>> \/ \E c \in Blocks : r = <<c>>)
      <4>1. <<>> \in Seq(Blocks)
        OBVIOUS
      <4> QED
        BY <3>3, <4>1, OneBlock, Zenon
    <3>5. /\ g \in Seq(Blocks)
          /\ DOMAIN g \subseteq DOMAIN f
          /\ \A i \in DOMAIN g : g[i] = IF i = Len(f) THEN r[1] ELSE f[i]
          /\ r = <<>> => Len(f) \notin DOMAIN g
      BY <1>1, <2>1, <3>4, LastReplaced DEF r
    <3>6. Len(f) \in DOMAIN g => InZone(r[1], y)
      BY <3>3, <3>5
    <3> HIDE DEF g
    <3>7. \A i \in DOMAIN g : \E x \in Zones : InZone(g[i], x)
      BY <2>2, <3>5, <3>6 DEF Split
    <3>8. \A i \in DOMAIN g : g[i].start = f[i].start
      BY <3>1, <3>2, <3>5, <3>6 DEF InZone
    <3>9. \A i, j \in DOMAIN g : i # j => g[i].start # g[j].start
      BY <2>2, <3>5, <3>8 DEF Split
    <3>10. Split(g)
      BY <3>5, <3>7, <3>9 DEF Split
    <3> QED
      BY <2>2, <3>5, <3>8, <3>10, SplitIsFree
  <2>3. CASE Whole(f)
    <3>1. f = <<Block(0, MemEnd)>>
      BY <2>3 DEF Whole
    <3>2. PICK c \in Blocks, y \in Zones : InZone(c, y) /\ Remainder(Block(0, MemEnd), z) = <<c>>
      BY RemainderWhole
    <3>3. Front(f) = <<>> /\ Last(f) = Block(0, MemEnd)
      BY <3>1 DEF Front, Last
    <3>4. g = <<c>>
      BY <3>2, <3>3, EmptyAndOne
    <3> QED
      BY <2>3, <3>2, <3>4, WholeIsFree DEF Split
  <2> QED
    BY <2>2, <2>3
<1> HIDE DEF found, g, o
<1>4. CASE found
  <2>1. o = [free |-> g, code |-> 0, ended |-> "no", granted |-> TRUE]
    BY <1>2, <1>4 DEF Outcome
  <2>2. /\ Split(g) /\ g \in Seq(Blocks)
        /\ \A y \in Zones : IsFree(g, Start(y)) => IsFree(f, Start(y))
    BY <1>3, <1>4 DEF Split
  <2>3. o \in Outcomes
    BY <2>1, <2>2 DEF Outcomes
  <2>4. o.granted /\ o.ended = "no" /\ o.free = g
    BY <2>1
  <2> QED
    BY <1>4, <2>2, <2>3, <2>4 DEF o, found
<1>5. CASE ~found
  <2>1. o = [free |-> f, code |-> -1, ended |-> "pm_memory_allocation_request", granted |-> FALSE]
    BY <1>2, <1>5 DEF Outcome
  <2>2. o \in Outcomes
    BY <1>1, <2>1 DEF Outcomes, Functions
  <2>3. ~o.granted /\ o.ended # "no" /\ o.free = f
    BY <2>1
  <2> QED
    BY <1>5, <2>2, <2>3 DEF o, found
<1> QED
  BY <1>4, <1>5

(* The outcomes of the calls of the allocator on a list f.                 *)
OutcomesOf(f) == {o \in Outcomes : o.free = f \/ Split(o.free)}

(* Of those that take: no zone's first address becomes free.               *)
TakenOf(f) ==
  {o \in OutcomesOf(f) : \A y \in Zones : IsFree(o.free, Start(y)) => IsFree(f, Start(y))}

LEMMA CheckedOutcome ==
  ASSUME NEW f, NEW o \in TakenOf(f), NEW caller \in Functions
  PROVE  Checked(o, caller) \in TakenOf(f)
BY DEF Checked, Outcome, Outcomes, OutcomesOf, TakenOf, TakenAsFailure

LEMMA UntouchedOutcome ==
  ASSUME NEW f, Split(f) \/ Whole(f)
  PROVE  Untouched(f) \in TakenOf(f)
<1>1. Block(0, MemEnd) \in Blocks
  BY Constants DEF Block, Blocks
<1>2. f \in Seq(Blocks)
  BY <1>1, OneBlock DEF Split, Whole
<1> QED
  BY <1>2 DEF Untouched, Outcome, Outcomes, OutcomesOf, TakenOf

LEMMA RequestedOutcome ==
  ASSUME NEW f, Split(f) \/ Whole(f), NEW z \in Zones, NEW least
  PROVE  Requested(f, z, least) \in TakenOf(f)
BY RequestedSplit DEF OutcomesOf, TakenOf

(* The test that follows an allocation ends the program in any case: the   *)
(* request has ended it, or returns 0.                                     *)
LEMMA RequestChecked ==
  ASSUME NEW f, NEW z, NEW least, NEW caller \in Functions
  PROVE  Checked(Requested(f, z, least), caller).ended # "no"
<1> DEFINE found == \E i \in DOMAIN f : Fits(f[i], z, least)
           g == Front(f) \o Remainder(TakenBlock(f), z)
<1>1. Requested(f, z, least) = IF found THEN Outcome(g, 0, "no", TRUE)
                               ELSE Outcome(f, -1, "pm_memory_allocation_request", FALSE)
  BY DEF Requested
<1> HIDE DEF found, g
<1>2. caller # "no"
  BY DEF Functions
<1> QED
  BY <1>1, <1>2 DEF Checked, Outcome, TakenAsFailure

LEMMA FrameMallocEnds ==
  ASSUME NEW f
  PROVE  FrameMalloc(f).ended # "no"
BY RequestChecked DEF FrameMalloc, Functions

LEMMA FrameMallocOutcome ==
  ASSUME NEW f, Split(f) \/ Whole(f)
  PROVE  FrameMalloc(f) \in TakenOf(f)
<1>1. "mem" \in Zones /\ "pm_m_frame_malloc" \in Functions
  BY DEF Zones, Functions
<1> QED
  BY <1>1, RequestedOutcome, CheckedOutcome DEF FrameMalloc

(* What a later call makes of the list that an earlier one has left.       *)
LEMMA LaterOutcome ==
  ASSUME NEW f, Split(f) \/ Whole(f), NEW o \in OutcomesOf(f)
  PROVE  Split(o.free) \/ Whole(o.free)
BY DEF OutcomesOf

LEMMA LaterTaken ==
  ASSUME NEW f, Split(f) \/ Whole(f), NEW o \in TakenOf(f)
  PROVE  /\ Split(o.free) \/ Whole(o.free)
         /\ TakenOf(o.free) \subseteq TakenOf(f)
BY DEF OutcomesOf, TakenOf

LEMMA BulkOutcome ==
  ASSUME NEW f, Split(f) \/ Whole(f), NEW n \in Nat
  PROVE  /\ FrameMallocBulk(f, n) \in TakenOf(f)
         /\ n > 0 => FrameMallocBulk(f, n).ended # "no"
<1> DEFINE X == TakenOf(f)
           Body(h) == [i \in 0 .. n |-> IF i = 0 THEN Untouched(f) ELSE BulkRound(h[i - 1])]
           after == CHOOSE h : h = Body(h)
           round == [p \in (1 .. n) \X X |-> BulkRound(p[2])]
<1>1. \A o \in X : BulkRound(o) \in X
  <2>1. ASSUME NEW o \in X PROVE BulkRound(o) \in X
    <3>1. FrameMalloc(o.free) \in X
      BY LaterTaken, FrameMallocOutcome
    <3>2. "pm_m_frame_malloc_bulk" \in Functions
      BY DEF Functions
    <3> QED
      BY <3>1, <3>2, CheckedOutcome DEF BulkRound
  <2> QED
    BY <2>1
<1>2. Untouched(f) \in X
  BY UntouchedOutcome
<1> HIDE DEF X
<1>3. IsLoop(n, X, Untouched(f), round)
  BY <1>1, <1>2 DEF IsLoop
<1>4. \A i \in 1 .. n, o \in X : round[<<i, o>>] = BulkRound(o)
  OBVIOUS
<1> HIDE DEF round
<1>5. PICK h : Left(n, X, Untouched(f), round, h)
  BY <1>3, Loop, Zenon
<1>6. h = Body(h)
  <2>1. h \in [0 .. n -> X]
    BY <1>5 DEF Left
  <2>2. \A i \in 1 .. n : h[i - 1] \in X
    BY <2>1
  <2> QED
    BY <1>4, <1>5, <2>2 DEF Left
<1>7. after = Body(after)
  BY <1>6, Zenon
<1>8. FrameMallocBulk(f, n) = after[n]
  BY DEF FrameMallocBulk
<1> HIDE DEF after
<1>9. after[0] = Untouched(f) /\ \A i \in 1 .. n : after[i] = BulkRound(after[i - 1])
  BY <1>7
<1>10. \A i \in 0 .. n : after[i] \in X
  BY <1>1, <1>2, <1>9, LoopKeeps
<1>11. ASSUME NEW i \in 1 .. n PROVE after[i].ended # "no"
  <2> DEFINE o == after[i - 1]
  <2>1. after[i] = BulkRound(o)
    BY <1>9
  <2>2. FrameMalloc(o.free).ended # "no"
    BY FrameMallocEnds
  <2> HIDE DEF o
  <2> QED
    BY <2>1, <2>2 DEF BulkRound, Checked
<1> QED
  BY <1>8, <1>10, <1>11 DEF X

LEMMA PageTableMallocOutcome ==
  ASSUME NEW f, Split(f) \/ Whole(f), NEW n \in Nat
  PROVE  /\ PageTableMalloc(f, n) \in TakenOf(f)
         /\ PageTableMalloc(f, n).ended # "no"
<1> DEFINE t == Checked(Requested(f, "kernel", TableSize(n)), "pm_pt_page_table_malloc")
<1>1. "kernel" \in Zones /\ "pm_pt_page_table_malloc" \in Functions
  BY DEF Zones, Functions
<1>2. t \in TakenOf(f)
  BY <1>1, RequestedOutcome, CheckedOutcome
<1>3. PageTableMalloc(f, n) = IF t.ended # "no" THEN t
                              ELSE Checked(FrameMallocBulk(t.free, n), "pm_pt_page_table_malloc")
  BY DEF PageTableMalloc
<1>4. t.ended # "no"
  BY <1>1, RequestChecked
<1> HIDE DEF t
<1> QED
  BY <1>2, <1>3, <1>4
-----------------------------------------------------------------------------
(* A block that is given back goes where no other block of its zone is.    *)
LEMMA AppendSplit ==
  ASSUME NEW f, Split(f), NEW z \in Zones, NEW size \in Nat \ {0},
         Start(z) + size <= End(z) + 1, ~IsFree(f, Start(z))
  PROVE  LET g == Append(f, Block(Start(z), Start(z) + size - 1)) IN
         /\ Split(g)
         /\ \A y \in Zones : y # z => (IsFree(g, Start(y)) <=> IsFree(f, Start(y)))
<1> DEFINE b == Block(Start(z), Start(z) + size - 1)
           g == Append(f, b)
<1>1. b \in Blocks /\ InZone(b, z) /\ b.start = Start(z) /\ b.end = Start(z) + size - 1
  BY Constants, ZoneBounds DEF Block, Blocks, InZone
<1>2. \A y \in Zones : y # z => ~Covers(b, Start(y))
  BY <1>1, Constants, ZoneBounds DEF Covers
<1> HIDE DEF b
<1>3. f \in Seq(Blocks)
  BY DEF Split
<1>4. /\ g \in Seq(Blocks) /\ DOMAIN g = DOMAIN f \cup {Len(f) + 1}
      /\ g[Len(f) + 1] = b
      /\ \A i \in DOMAIN f : g[i] = f[i] /\ i # Len(f) + 1
  BY <1>1, <1>3
<1> HIDE DEF g
<1>5. \A i \in DOMAIN f : f[i].start # Start(z)
  <2>1. ASSUME NEW i \in DOMAIN f, f[i].start = Start(z) PROVE FALSE
    <3>1. PICK y \in Zones : InZone(f[i], y)
      BY DEF Split
    <3>2. f[i].start \in Int /\ f[i].end \in Int
      <4>1. f[i] \in Blocks
        BY <1>3
      <4> QED
        BY <4>1 DEF Blocks
    <3>3. Covers(f[i], Start(z))
      BY <2>1, <3>1, <3>2 DEF Covers, InZone
    <3> QED
      BY <3>3 DEF IsFree
  <2> QED
    BY <2>1
<1>6. \A i \in DOMAIN g : \E y \in Zones : InZone(g[i], y)
  BY <1>1, <1>4 DEF Split
<1>7. \A i, j \in DOMAIN g : i # j => g[i].start # g[j].start
  BY <1>1, <1>4, <1>5 DEF Split
<1>8. Split(g)
  BY <1>4, <1>6, <1>7 DEF Split
<1>9. ASSUME NEW y \in Zones, y # z
      PROVE  IsFree(g, Start(y)) <=> IsFree(f, Start(y))
  BY <1>2, <1>4, <1>9 DEF IsFree
<1> QED
  BY <1>8, <1>9 DEF g, b

LEMMA FreedOutcome ==
  ASSUME NEW f, Split(f) \/ Whole(f), NEW o \in OutcomesOf(f),
         NEW z \in Zones, NEW size \in Nat \ {0}, Start(z) + size <= End(z) + 1,
         NEW caller \in Functions
  PROVE  Freed(o, Start(z), size, caller) \in OutcomesOf(f)
<1>1. CASE o.ended # "no"
  BY <1>1 DEF Freed
<1>2. CASE o.ended = "no" /\ IsFree(o.free, Start(z))
  BY <1>2 DEF Freed, Outcome, Outcomes, OutcomesOf
<1>3. CASE o.ended = "no" /\ ~IsFree(o.free, Start(z))
  <2>1. Split(o.free) \/ Whole(o.free)
    BY LaterOutcome
  <2>2. ~Whole(o.free)
    BY <1>3, WholeIsFree
  <2> DEFINE g == Append(o.free, Block(Start(z), Start(z) + size - 1))
  <2>3. Split(g)
    BY <1>3, <2>1, <2>2, AppendSplit
  <2>4. Freed(o, Start(z), size, caller) = Outcome(g, 0, "no", FALSE)
    BY <1>3 DEF Freed
  <2> HIDE DEF g
  <2>5. g \in Seq(Blocks)
    BY <2>3 DEF Split
  <2> QED
    BY <2>3, <2>4, <2>5 DEF Outcome, Outcomes, OutcomesOf
<1> QED
  BY <1>1, <1>2, <1>3

LEMMA FrameFreedOutcome ==
  ASSUME NEW f, Split(f) \/ Whole(f), NEW o \in OutcomesOf(f)
  PROVE  FrameFreed(o) \in OutcomesOf(f)
<1>1. /\ "mem" \in Zones /\ Start("mem") = MemStart /\ FRAME_SIZE \in Nat \ {0}
      /\ Start("mem") + FRAME_SIZE <= End("mem") + 1
      /\ "pm_m_frame_free" \in Functions
  BY Constants, ZoneBounds DEF Functions
<1>2. Freed(o, Start("mem"), FRAME_SIZE, "pm_m_frame_free") \in OutcomesOf(f)
  BY <1>1, FreedOutcome
<1> QED
  BY <1>1, <1>2 DEF FrameFreed

LEMMA TableFreedOutcome ==
  ASSUME NEW f, Split(f) \/ Whole(f), NEW n \in 0 .. MaxEntries
  PROVE  /\ TableFreed(f, n) \in OutcomesOf(f)
         /\ n = 0 => TableFreed(f, n) =
                       Freed(Untouched(f), 0, TableSize(n), "pm_pt_page_table_free")
<1> DEFINE X == OutcomesOf(f)
           x == Freed(Untouched(f), 0, TableSize(n), "pm_pt_page_table_free")
           Body(h) == [i \in 0 .. n |-> IF i = 0 THEN x ELSE FrameFreed(h[i - 1])]
           after == CHOOSE h : h = Body(h)
           round == [p \in (1 .. n) \X X |-> FrameFreed(p[2])]
<1>1. \A o \in X : FrameFreed(o) \in X
  BY FrameFreedOutcome
<1>2. x \in X
  <2>1. /\ "kernel" \in Zones /\ Start("kernel") = 0
        /\ TableSize(n) \in Nat \ {0} /\ 0 + TableSize(n) <= End("kernel") + 1
        /\ "pm_pt_page_table_free" \in Functions
    BY Constants, ZoneBounds DEF Functions
  <2> QED
    BY <2>1, UntouchedOutcome, FreedOutcome DEF TakenOf
<1>3. n \in Nat
  BY Constants
<1>4. TableFreed(f, n) = after[n]
  BY DEF TableFreed
<1> HIDE DEF X, x
<1>5. IsLoop(n, X, x, round)
  BY <1>1, <1>2, <1>3 DEF IsLoop
<1>6. \A i \in 1 .. n, o \in X : round[<<i, o>>] = FrameFreed(o)
  OBVIOUS
<1> HIDE DEF round
<1>7. PICK h : Left(n, X, x, round, h)
  BY <1>5, Loop, Zenon
<1>8. h = Body(h)
  <2>1. h \in [0 .. n -> X]
    BY <1>7 DEF Left
  <2>2. \A i \in 1 .. n : h[i - 1] \in X
    BY <1>3, <2>1
  <2> QED
    BY <1>3, <1>6, <1>7, <2>2 DEF Left
<1>9. after = Body(after)
  BY <1>8, Zenon
<1> HIDE DEF after
<1>10. after[0] = x /\ \A i \in 1 .. n : after[i] = FrameFreed(after[i - 1])
  BY <1>3, <1>9
<1>11. \A i \in 0 .. n : after[i] \in X
  BY <1>1, <1>2, <1>3, <1>10, LoopKeeps
<1> QED
  BY <1>3, <1>4, <1>10, <1>11 DEF X, x
-----------------------------------------------------------------------------
(* A request that takes the block it has found takes the one at the first  *)
(* address of the zone, and lets no other address become free.             *)
LEMMA RequestedExclusive ==
  ASSUME NEW f, Split(f) \/ Whole(f), NEW z \in Zones, NEW least,
         Requested(f, z, least).granted, ~Strays(f, z, least)
  PROVE  LET g == Requested(f, z, least).free IN
         /\ IsFree(f, Start(z)) /\ ~IsFree(g, Start(z))
         /\ \A y \in Zones : y # z => (IsFree(g, Start(y)) => IsFree(f, Start(y)))
<1> DEFINE b == Last(f)
           r == Remainder(b, z)
           g == Front(f) \o r
<1>1. (\E i \in DOMAIN f : Fits(f[i], z, least)) /\ Fits(b, z, least)
  BY RequestedSplit DEF Strays
<1>2. Requested(f, z, least).free = g
  BY <1>1 DEF Requested, TakenBlock, Outcome
<1>3. CASE Split(f)
  <2>1. f \in Seq(Blocks) /\ f # <<>>
    BY <1>1, <1>3 DEF Split
  <2>2. Len(f) \in DOMAIN f /\ b = f[Len(f)] /\ b \in Blocks
    BY <2>1 DEF Last
  <2>3. PICK y \in Zones : InZone(b, y)
    BY <1>3, <2>2 DEF Split
  <2>4. y = z /\ Covers(b, Start(z))
    BY <1>1, <2>2, <2>3, Constants, ZoneBounds DEF Fits, InZone, Covers, Blocks
  <2> HIDE DEF b
  <2>5. r = <<>>
    BY <2>2, <2>3, <2>4, RemainderSplit
  <2>6. r \in Seq(Blocks)
    BY <2>5
  <2> HIDE DEF r
  <2>7. /\ DOMAIN g \subseteq DOMAIN f /\ Len(f) \notin DOMAIN g
        /\ \A i \in DOMAIN g : g[i] = IF i = Len(f) THEN r[1] ELSE f[i]
    BY <2>1, <2>5, <2>6, LastReplaced DEF r, b
  <2> HIDE DEF g
  <2>8. \A i \in DOMAIN g : i \in DOMAIN f /\ g[i] = f[i] /\ i # Len(f)
    BY <2>7
  <2>9. ASSUME NEW i \in DOMAIN g PROVE ~Covers(g[i], Start(z))
    <3>1. PICK x \in Zones : InZone(f[i], x)
      BY <1>3, <2>8 DEF Split
    <3>2. f[i].start # b.start
      BY <1>3, <2>2, <2>8 DEF Split
    <3>3. x # z
      BY <2>3, <2>4, <3>1, <3>2 DEF InZone
    <3>4. f[i] \in Blocks
      BY <2>1, <2>8
    <3> QED
      BY <2>8, <3>1, <3>3, <3>4, Constants, ZoneBounds DEF InZone, Covers, Blocks
  <2>10. IsFree(f, Start(z)) /\ ~IsFree(g, Start(z))
    BY <2>2, <2>4, <2>9 DEF IsFree
  <2>11. \A a : IsFree(g, a) => IsFree(f, a)
    BY <2>8 DEF IsFree
  <2> QED
    BY <1>2, <2>10, <2>11
<1>4. CASE Whole(f)
  <2>1. f = <<Block(0, MemEnd)>>
    BY <1>4 DEF Whole
  <2>2. PICK c \in Blocks, y \in Zones :
          y # z /\ InZone(c, y) /\ Remainder(Block(0, MemEnd), z) = <<c>>
    BY RemainderWhole
  <2>3. g = <<c>>
    <3>1. Front(f) = <<>> /\ b = Block(0, MemEnd)
      BY <2>1 DEF Front, Last
    <3> QED
      BY <2>2, <3>1, EmptyAndOne
  <2>4. ~Covers(c, Start(z))
    BY <2>2, Constants, ZoneBounds DEF InZone, Covers, Blocks
  <2>5. \A x \in Zones : Covers(Block(0, MemEnd), Start(x))
    BY Constants, ZoneBounds DEF Block, Covers
  <2> HIDE DEF g
  <2> QED
    BY <1>2, <2>1, <2>3, <2>4, <2>5 DEF IsFree
<1> QED
  BY <1>3, <1>4
-----------------------------------------------------------------------------
LEMMA InitIInv == Init => IInv
<1> SUFFICES ASSUME Init PROVE IInv
  OBVIOUS
<1>1. Block(0, MemEnd) \in Blocks
  BY Constants DEF Block, Blocks
<1>2. free \in Seq(Blocks) /\ Whole(free)
  BY <1>1, OneBlock DEF Init, Whole
<1>3. held = [z \in Zones |-> 0] /\ held \in [Zones -> 0 .. MaxHeld]
  BY Constants DEF Init
<1>4. TypeOK
  <2>1. table \in 0 .. MaxEntries /\ strayed \in BOOLEAN /\ granted \in BOOLEAN /\ ended = "no"
    <3>1. 0 \in 0 .. MaxEntries
      BY Constants
    <3> QED
      BY <3>1 DEF Init
  <2> QED
    BY <1>2, <1>3, <2>1 DEF TypeOK, Blocks
<1>5. ExclusiveUntilStray
  BY <1>3 DEF ExclusiveUntilStray
<1> QED
  BY <1>2, <1>3, <1>4, <1>5 DEF IInv

(* The part of the invariant that is about the list, after a call.         *)
LEMMA CallKeeps ==
  ASSUME IInv, NEW o \in OutcomesOf(free), Call(o)
  PROVE  /\ free' \in Seq(Blocks)
         /\ granted' \in BOOLEAN /\ ended' \in Functions \cup {"no"}
         /\ free' = free \/ Split(free')
BY DEF OutcomesOf, Outcomes, Call

LEMMA RequestKeeps ==
  ASSUME IInv, NEW z \in Zones, NEW least, Request(z, least), table' \in 0 .. MaxEntries
  PROVE  IInv'
<1> DEFINE o == Requested(free, z, least)
<1>1. /\ TypeOK /\ (Split(free) \/ (Whole(free) /\ held = [x \in Zones |-> 0]))
      /\ ExclusiveUntilStray
  BY DEF IInv
<1>2. /\ o \in Outcomes /\ o \in OutcomesOf(free)
      /\ IF o.granted THEN Split(o.free) ELSE o.free = free
  BY <1>1, RequestedSplit, RequestedOutcome DEF TakenOf
<1>3. /\ held[z] < MaxHeld
      /\ free' = o.free /\ ended' = o.ended /\ granted' = o.granted
      /\ held' = IF granted' THEN [held EXCEPT ![z] = @ + 1] ELSE held
      /\ strayed' = (strayed \/ Strays(free, z, least))
  BY DEF Request, Call
<1>4. held \in [Zones -> 0 .. MaxHeld] /\ strayed \in BOOLEAN /\ MaxHeld \in Nat
  BY <1>1, Constants DEF TypeOK
<1>5. TypeOK'
  <2>1. held' \in [Zones -> 0 .. MaxHeld]
    BY <1>3, <1>4
  <2>2. strayed' \in BOOLEAN
    BY <1>3, <1>4 DEF Strays
  <2> HIDE DEF o
  <2>3. /\ free' \in Seq(Blocks) /\ granted' \in BOOLEAN /\ ended' \in Functions \cup {"no"}
    BY <1>2, <1>3 DEF Outcomes
  <2> QED
    BY <2>1, <2>2, <2>3 DEF TypeOK, Blocks
<1>6. CASE ~o.granted
  <2>1. free' = free /\ held' = held
    BY <1>2, <1>3, <1>6
  <2>2. ExclusiveUntilStray'
    BY <1>1, <1>3, <2>1 DEF ExclusiveUntilStray
  <2> QED
    BY <1>1, <1>5, <2>1, <2>2 DEF IInv
<1>7. CASE o.granted
  <2>1. Split(free') /\ held' = [held EXCEPT ![z] = @ + 1]
    BY <1>2, <1>3, <1>7
  <2>2. ASSUME ~strayed', NEW y \in Zones
        PROVE  held'[y] <= 1 /\ (held'[y] = 1 => ~IsFree(free', Start(y)))
    <3>1. ~strayed /\ ~Strays(free, z, least)
      BY <1>3, <2>2
    <3>2. /\ IsFree(free, Start(z)) /\ ~IsFree(free', Start(z))
          /\ y # z => (IsFree(free', Start(y)) => IsFree(free, Start(y)))
      BY <1>1, <1>3, <1>7, <3>1, RequestedExclusive
    <3>3. /\ held[y] <= 1 /\ (held[y] = 1 => ~IsFree(free, Start(y)))
          /\ held[z] <= 1 /\ (held[z] = 1 => ~IsFree(free, Start(z)))
      BY <1>1, <3>1 DEF ExclusiveUntilStray
    <3>4. held[z] = 0
      BY <1>4, <3>2, <3>3
    <3>5. held'[y] = IF y = z THEN 1 ELSE held[y]
      BY <1>4, <2>1, <3>4
    <3> QED
      BY <3>2, <3>3, <3>5
  <2>3. ExclusiveUntilStray'
    BY <2>2 DEF ExclusiveUntilStray
  <2> QED
    BY <1>5, <2>1, <2>3 DEF IInv
<1> QED
  BY <1>6, <1>7

Malloc ==
  \/ MallocFrame
  \/ \E n \in 0 .. MaxEntries : MallocFrames(n)
  \/ \E n \in 0 .. MaxEntries : MallocTable(n)

LEMMA MallocKeeps ==
  ASSUME IInv, Malloc
  PROVE  IInv'
<1>1. /\ TypeOK /\ (Split(free) \/ (Whole(free) /\ held = [z \in Zones |-> 0]))
      /\ ExclusiveUntilStray
  BY DEF IInv
<1>2. UNCHANGED <<held, table, strayed>>
  BY DEF Malloc, MallocFrame, MallocFrames, MallocTable
<1>3. PICK o \in TakenOf(free) : Call(o)
  <2>1. 0 .. MaxEntries \subseteq Nat
    BY Constants
  <2> QED
    BY <1>1, <2>1, FrameMallocOutcome, BulkOutcome, PageTableMallocOutcome
    DEF Malloc, MallocFrame, MallocFrames, MallocTable
<1>4. \A y \in Zones : IsFree(free', Start(y)) => IsFree(free, Start(y))
  BY <1>3 DEF TakenOf, Call
<1>5. o \in OutcomesOf(free)
  BY <1>3 DEF TakenOf
<1>6. TypeOK'
  BY <1>1, <1>2, <1>3, <1>5, CallKeeps DEF TypeOK, Blocks
<1>7. ExclusiveUntilStray'
  BY <1>1, <1>2, <1>4 DEF ExclusiveUntilStray
<1> QED
  BY <1>1, <1>2, <1>3, <1>5, <1>6, <1>7, CallKeeps DEF IInv

LEMMA FreeFrameKeeps ==
  ASSUME IInv, FreeFrame
  PROVE  IInv'
<1>1. /\ TypeOK /\ (Split(free) \/ (Whole(free) /\ held = [z \in Zones |-> 0]))
      /\ ExclusiveUntilStray
  BY DEF IInv
<1> DEFINE o == FrameFreed(Untouched(free))
<1>2. /\ held["mem"] > 0 /\ Call(o)
      /\ held' = [held EXCEPT !["mem"] = @ - 1]
      /\ UNCHANGED <<table, strayed>>
  BY DEF FreeFrame
<1>3. held \in [Zones -> 0 .. MaxHeld] /\ MaxHeld \in Nat
  BY <1>1, Constants DEF TypeOK
<1>4. Split(free)
  BY <1>1, <1>2, ZoneBounds
<1>5. o \in OutcomesOf(free)
  BY <1>4, UntouchedOutcome, FrameFreedOutcome DEF TakenOf
<1>6. held' \in [Zones -> 0 .. MaxHeld]
  BY <1>2, <1>3, ZoneBounds
<1>7. TypeOK'
  BY <1>1, <1>2, <1>5, <1>6, CallKeeps DEF TypeOK, Blocks
<1>8. Split(free')
  BY <1>2, <1>4, <1>5, CallKeeps
<1>9. ASSUME ~strayed PROVE held'["kernel"] = 1 => ~IsFree(free', Start("kernel"))
  <2>1. Start("mem") + FRAME_SIZE <= End("mem") + 1 /\ FRAME_SIZE \in Nat \ {0}
    BY Constants, ZoneBounds
  <2>2. o = IF IsFree(free, Start("mem")) THEN Outcome(free, -1, "pm_m_frame_free", FALSE)
            ELSE Outcome(Append(free, Block(Start("mem"), Start("mem") + FRAME_SIZE - 1)),
                         0, "no", FALSE)
    BY ZoneBounds DEF FrameFreed, Freed, Untouched, Outcome
  <2>3. IsFree(free', Start("kernel")) => IsFree(free, Start("kernel"))
    BY <1>2, <1>4, <2>1, <2>2, AppendSplit, ZoneBounds DEF Call, Outcome
  <2>4. held'["kernel"] = held["kernel"]
    BY <1>2, <1>3, ZoneBounds
  <2> QED
    BY <1>1, <1>9, <2>3, <2>4, ZoneBounds DEF ExclusiveUntilStray
<1>10. ExclusiveUntilStray'
  BY <1>1, <1>2, <1>3, <1>9, ZoneBounds DEF ExclusiveUntilStray
<1> QED
  BY <1>7, <1>8, <1>10 DEF IInv

LEMMA FreeTableKeeps ==
  ASSUME IInv, FreeTable
  PROVE  IInv'
<1>1. /\ TypeOK /\ (Split(free) \/ (Whole(free) /\ held = [z \in Zones |-> 0]))
      /\ ExclusiveUntilStray
  BY DEF IInv
<1> DEFINE o == TableFreed(free, table)
<1>2. /\ held["kernel"] > 0 /\ held["mem"] >= table /\ Call(o)
      /\ held' = [held EXCEPT !["kernel"] = @ - 1, !["mem"] = @ - table]
      /\ UNCHANGED <<table, strayed>>
  BY DEF FreeTable
<1>3. held \in [Zones -> 0 .. MaxHeld] /\ table \in 0 .. MaxEntries
      /\ MaxHeld \in Nat /\ MaxEntries \in Nat
  BY <1>1, Constants DEF TypeOK
<1>4. Split(free)
  BY <1>1, <1>2, ZoneBounds
<1>5. o \in OutcomesOf(free)
  BY <1>3, <1>4, TableFreedOutcome
<1>6. /\ held'["kernel"] = held["kernel"] - 1 /\ held'["mem"] = held["mem"] - table
      /\ held' \in [Zones -> 0 .. MaxHeld]
  BY <1>2, <1>3, ZoneBounds
<1>7. TypeOK'
  BY <1>1, <1>2, <1>5, <1>6, CallKeeps DEF TypeOK, Blocks
<1>8. Split(free')
  BY <1>2, <1>4, <1>5, CallKeeps
<1>9. ASSUME ~strayed PROVE held'["mem"] = 1 => ~IsFree(free', Start("mem"))
  <2> SUFFICES ASSUME held'["mem"] = 1 PROVE ~IsFree(free', Start("mem"))
    OBVIOUS
  <2>1. held["mem"] <= 1 /\ (held["mem"] = 1 => ~IsFree(free, Start("mem")))
    BY <1>1, <1>9, ZoneBounds DEF ExclusiveUntilStray
  <2>2. table = 0 /\ held["mem"] = 1
    BY <1>3, <1>6, <2>1, ZoneBounds
  <2>3. o = Freed(Untouched(free), 0, TableSize(table), "pm_pt_page_table_free")
    BY <1>3, <1>4, <2>2, TableFreedOutcome
  <2>4. Start("kernel") + TableSize(table) <= End("kernel") + 1 /\ TableSize(table) \in Nat \ {0}
    BY <1>3, Constants, ZoneBounds
  <2>5. o = IF IsFree(free, Start("kernel")) THEN Outcome(free, -1, "pm_pt_page_table_free", FALSE)
            ELSE Outcome(Append(free, Block(Start("kernel"), Start("kernel") + TableSize(table) - 1)),
                         0, "no", FALSE)
    BY <2>3, ZoneBounds DEF Freed, Untouched, Outcome
  <2>6. IsFree(free', Start("mem")) => IsFree(free, Start("mem"))
    BY <1>2, <1>4, <2>4, <2>5, AppendSplit, ZoneBounds DEF Call, Outcome
  <2> QED
    BY <2>1, <2>2, <2>6
<1>10. ExclusiveUntilStray'
  BY <1>1, <1>2, <1>3, <1>6, <1>9, ZoneBounds DEF ExclusiveUntilStray
<1> QED
  BY <1>7, <1>8, <1>10 DEF IInv

(* The invariant is inductive.                                             *)
THEOREM MemoryInvariant == Spec => []IInv
<1>1. ASSUME IInv, [Next]_vars PROVE IInv'
  <2>1. CASE RequestFrame
    <3>1. Request("mem", FRAME_SIZE) /\ table' = table /\ "mem" \in Zones
      BY <2>1, ZoneBounds DEF RequestFrame
    <3>2. table' \in 0 .. MaxEntries
      BY <1>1, <3>1 DEF IInv, TypeOK
    <3> QED
      BY <1>1, <3>1, <3>2, RequestKeeps
  <2>2. ASSUME NEW n \in 0 .. MaxEntries, RequestTable(n) PROVE IInv'
    <3>1. /\ Request("kernel", TableSize(n)) /\ "kernel" \in Zones
          /\ table' = IF granted' THEN n ELSE table
      BY <2>2, ZoneBounds DEF RequestTable
    <3>2. table' \in 0 .. MaxEntries
      BY <1>1, <3>1 DEF IInv, TypeOK
    <3> QED
      BY <1>1, <3>1, <3>2, RequestKeeps
  <2>3. CASE Malloc
    BY <1>1, <2>3, MallocKeeps
  <2>4. CASE FreeFrame
    BY <1>1, <2>4, FreeFrameKeeps
  <2>5. CASE FreeTable
    BY <1>1, <2>5, FreeTableKeeps
  <2>6. CASE UNCHANGED vars
    BY <1>1, <2>6 DEF vars, IInv, TypeOK, ExclusiveUntilStray
  <2> QED
    BY <1>1, <2>1, <2>2, <2>3, <2>4, <2>5, <2>6 DEF Next, Malloc
<1> QED
  BY InitIInv, <1>1, PTL DEF Spec

THEOREM TypeCorrect == Spec => []TypeOK
<1>1. IInv => TypeOK
  BY DEF IInv
<1> QED
  BY <1>1, MemoryInvariant, PTL

(* No address is in two free blocks.                                       *)
THEOREM BlocksDisjoint == Spec => []Disjoint
<1>1. ASSUME IInv PROVE Disjoint
  <2>1. CASE Split(free)
    <3>1. ASSUME NEW i \in DOMAIN free, NEW j \in DOMAIN free, i # j
          PROVE  free[i].end < free[j].start \/ free[j].end < free[i].start
      <4>1. PICK x \in Zones, y \in Zones : InZone(free[i], x) /\ InZone(free[j], y)
        BY <2>1 DEF Split
      <4>2. x # y
        BY <2>1, <3>1, <4>1 DEF Split, InZone
      <4>3. free[i] \in Blocks /\ free[j] \in Blocks
        BY <2>1 DEF Split
      <4> QED
        BY <4>1, <4>2, <4>3, Constants, ZoneBounds DEF InZone, Blocks
    <3> QED
      BY <3>1 DEF Disjoint
  <2>2. CASE Whole(free)
    BY <2>2 DEF Whole, Disjoint
  <2> QED
    BY <1>1, <2>1, <2>2 DEF IInv
<1> QED
  BY <1>1, MemoryInvariant, PTL

(* From the first request on, no free block crosses the zones.             *)
THEOREM BlocksInOneZone == Spec => []OneZone
<1>1. ASSUME IInv PROVE OneZone
  <2> SUFFICES ASSUME held # [z \in Zones |-> 0], NEW i \in DOMAIN free
               PROVE  \E z \in Zones : Start(z) <= free[i].start /\ free[i].end <= End(z)
    BY DEF OneZone
  <2>1. PICK z \in Zones : InZone(free[i], z)
    BY <1>1 DEF IInv, Split
  <2>2. Start(z) <= Start(z)
    BY Constants, ZoneBounds
  <2> QED
    BY <2>1, <2>2 DEF InZone
<1> QED
  BY <1>1, MemoryInvariant, PTL

(* Nobody is ever given a frame or a page table: the first call that       *)
(* allocates ends the program.                                             *)
THEOREM AllocationNeverReturns == Spec => AllocationEnds
<1> DEFINE A == (\/ MallocFrame
                 \/ \E n \in 1 .. MaxEntries : MallocFrames(n)
                 \/ \E n \in 0 .. MaxEntries : MallocTable(n)) => ended' # "no"
<1>1. IInv => A
  <2> SUFFICES ASSUME IInv PROVE A
    OBVIOUS
  <2>1. (Split(free) \/ Whole(free)) /\ MaxEntries \in Nat
    BY Constants DEF IInv
  <2>2. ASSUME MallocFrame PROVE ended' # "no"
    BY <2>2, FrameMallocEnds DEF MallocFrame, Call
  <2>3. ASSUME NEW n \in 1 .. MaxEntries, MallocFrames(n) PROVE ended' # "no"
    <3>1. n \in Nat /\ n > 0
      BY <2>1
    <3> QED
      BY <2>1, <2>3, <3>1, BulkOutcome DEF MallocFrames, Call
  <2>4. ASSUME NEW n \in 0 .. MaxEntries, MallocTable(n) PROVE ended' # "no"
    <3>1. n \in Nat
      BY <2>1
    <3> QED
      BY <2>1, <2>4, <3>1, PageTableMallocOutcome DEF MallocTable, Call
  <2> QED
    BY <2>2, <2>3, <2>4
<1> QED
  BY <1>1, MemoryInvariant, PTL DEF AllocationEnds

(* Until a request strays, what is handed out has one holder.              *)
THEOREM HandedOutOnce == Spec => []ExclusiveUntilStray
<1>1. IInv => ExclusiveUntilStray
  BY DEF IInv
<1> QED
  BY <1>1, MemoryInvariant, PTL
=============================================================================
