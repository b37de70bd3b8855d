---------------------------- MODULE MachineProofs ----------------------------
(***************************************************************************)
(* Theorems about Instructions and Machine, for every size of words, every *)
(* layout of the tables and frames, shared ones included, all programs and *)
(* every order of instructions and dispatches: each instruction leaves a   *)
(* context a context (and what a branch after a comparison tells), the     *)
(* TLBs stay truthful as long as no use of an address was doubtful, and    *)
(* the machine with its TLBs, page tables and saved contexts implements    *)
(* PagedMachine.                                                           *)
(***************************************************************************)
EXTENDS Machine, TLAPS

Half == WordSize \div 2

LEMMA ModFacts ==
  ASSUME NEW a \in Int, NEW b \in Nat \ {0}
  PROVE  a % b \in 0 .. b - 1 /\ a \div b \in Int /\ a = b * (a \div b) + (a % b)
  OBVIOUS

LEMMA DivFacts ==
  ASSUME NEW a \in Nat, NEW b \in Nat \ {0}
  PROVE  a \div b \in Nat /\ a \div b <= a /\ (b > 1 => 2 * (a \div b) <= a)
  OBVIOUS

LEMMA MultipleFacts ==
  ASSUME NEW b \in Nat \ {0}, NEW k \in Int
  PROVE  (k <= 0 => b * k <= 0) /\ (k >= 1 => b * k >= b)
  OBVIOUS

LEMMA DivPositive ==
  ASSUME NEW a \in Nat, NEW b \in Nat \ {0}, b <= a
  PROVE  a \div b \in Nat \ {0}
<1> DEFINE k == a \div b
           r == a % b
<1>1. k \in Int /\ r \in Int /\ a = b * k + r /\ r < b
  BY ModFacts
<1> HIDE DEF k, r
<1>2. k >= 1
  <2>1. SUFFICES ASSUME k <= 0 PROVE FALSE
    BY <1>1
  <2>2. b * k <= 0 /\ b * k \in Int
    BY <1>1, <2>1, MultipleFacts
  <2> QED
    BY <1>1, <2>2
<1> QED
  BY <1>2, <1>1 DEF k

LEMMA SizeFacts ==
  /\ WordSize \in Nat \ {0}
  /\ AddressSize <= WordSize
  /\ Half \in Nat \ {0, 1}
  /\ WordSize = 2 * Half
  /\ AddressSize \div Registers \in Nat \ {0}
  /\ AddressSize \div (Registers * Registers) \in Nat \ {0}
<1> USE InstructionsAssumption
<1> DEFINE n == Registers * AddressSize
<1>1. n \in Nat \ {0} /\ n >= AddressSize
  OBVIOUS
<1>2. WordSize = 16 * n
  BY DEF WordSize
<1>3. Registers * Registers \in Nat \ {0} /\ Registers * Registers >= Registers
  OBVIOUS
<1>4. AddressSize >= Registers * Registers
  <2> DEFINE b == Registers * Registers
             k == AddressSize \div b
  <2>1. k \in Int /\ AddressSize = b * k
    <3>1. AddressSize \in Int /\ b \in Nat \ {0} /\ AddressSize % b = 0
      BY <1>3
    <3> HIDE DEF b
    <3>2. k \in Int /\ AddressSize = b * k + (AddressSize % b)
      BY <3>1, ModFacts
    <3>3. b * k \in Int
      BY <3>1, <3>2
    <3> QED
      BY <3>1, <3>2, <3>3
  <2> HIDE DEF b, k
  <2>2. b * k > 0 /\ b \in Nat \ {0}
    BY <1>3, <2>1 DEF b
  <2>3. k >= 1
    BY <2>1, <2>2, MultipleFacts
  <2>4. b * k >= b
    BY <2>1, <2>2, <2>3, MultipleFacts
  <2> QED
    BY <2>1, <2>4 DEF b
<1>5. AddressSize >= Registers
  BY <1>3, <1>4
<1>6. AddressSize \div Registers \in Nat \ {0} /\ AddressSize \div (Registers * Registers) \in Nat \ {0}
  BY <1>3, <1>4, <1>5, DivPositive
<1> HIDE DEF n
<1>7. Half = 8 * n
  BY <1>1, <1>2 DEF Half
<1> QED
  BY <1>1, <1>2, <1>6, <1>7

LEMMA SignedFacts ==
  ASSUME NEW n \in Int
  PROVE  Signed(n) \in Numbers /\ Unsigned(n) \in Words
<1>1. Unsigned(n) \in Words
  BY SizeFacts, ModFacts DEF Unsigned, Words
<1>2. (n + Half) % WordSize \in 0 .. WordSize - 1
  <2>1. n + Half \in Int /\ WordSize \in Nat \ {0}
    BY SizeFacts
  <2> QED
    BY <2>1, ModFacts
<1>3. Signed(n) \in -Half .. Half - 1
  BY <1>2, SizeFacts DEF Signed, Half
<1> QED
  BY <1>1, <1>3 DEF Numbers, Half

LEMMA FieldFacts ==
  ASSUME NEW w \in Words
  PROVE  /\ Target(w) \in 0 .. Registers - 1
         /\ Source1(w) \in 0 .. Registers - 1
         /\ Source2(w) \in 0 .. Registers - 1
         /\ Address(w) \in 0 .. AddressSize - 1
         /\ Address(w) \in Words
<1>1. w \in Nat /\ Registers \in Nat \ {0} /\ AddressSize \in Nat \ {0}
  BY SizeFacts, InstructionsAssumption DEF Words
<1>2. Address(w) \in 0 .. AddressSize - 1
  BY <1>1, ModFacts DEF Address
<1>3. Target(w) \in 0 .. Registers - 1
  BY <1>1, ModFacts DEF Target
<1>4. Source1(w) \in 0 .. Registers - 1
  BY <1>1, SizeFacts, ModFacts DEF Source1
<1>5. Source2(w) \in 0 .. Registers - 1
  BY <1>1, SizeFacts, ModFacts DEF Source2
<1> QED
  BY <1>1, <1>2, <1>3, <1>4, <1>5, SizeFacts DEF Words
-----------------------------------------------------------------------------
LEMMA QuotientInRange ==
  ASSUME NEW m \in Numbers, NEW n \in Numbers, n # 0, ~ (m = -Half /\ n = -1)
  PROVE  Quotient(m, n) \in Numbers
<1>1. Numbers = -Half .. Half - 1 /\ Half \in Nat \ {0, 1}
  BY SizeFacts DEF Numbers, Half
<1> DEFINE a == Magnitude(m)
           b == Magnitude(n)
<1>2. a \in Nat /\ b \in Nat \ {0} /\ a <= Half
  BY <1>1 DEF Magnitude
<1>3. a \div b \in Nat /\ a \div b <= a /\ (b > 1 => 2 * (a \div b) <= a)
  BY <1>2, DivFacts
<1>4. ((m < 0) = (n < 0)) => a \div b <= Half - 1
  <2>1. CASE b > 1
    BY <2>1, <1>1, <1>2, <1>3
  <2>2. CASE b = 1
    BY <2>2, <1>1, <1>2, <1>3 DEF Magnitude
  <2> QED
    BY <1>2, <2>1, <2>2
<1> HIDE DEF a, b
<1> QED
  BY <1>1, <1>2, <1>3, <1>4 DEF Quotient, a, b

LEMMA NumberOfInRange ==
  ASSUME NEW B \in SUBSET (0 .. Width - 1)
  PROVE  NumberOf[B] \in Numbers
  BY BitsAssumption DEF NumberOf

LEMMA ResultInRange ==
  ASSUME NEW op \in {"ADD", "SUB", "MUL", "DIV", "AND", "OR", "XOR", "MOV"},
         NEW m \in Numbers, NEW n \in Numbers,
         op = "DIV" => n # 0 /\ ~ (m = -Half /\ n = -1)
  PROVE  Result(op, m, n) \in Numbers
<1>1. m \in Int /\ n \in Int
  BY SizeFacts DEF Numbers
<1>2. Bits(m) \subseteq 0 .. Width - 1 /\ Bits(n) \subseteq 0 .. Width - 1
  BY DEF Bits
<1>3. CASE op \in {"ADD", "SUB", "MUL"}
  <2>1. m + n \in Int /\ m - n \in Int /\ m * n \in Int
    BY <1>1
  <2> QED
    BY <1>3, <2>1, SignedFacts DEF Result
<1>4. CASE op = "DIV"
  BY <1>4, QuotientInRange DEF Result
<1>5. CASE op = "AND"
  <2>1. Bits(m) \cap Bits(n) \subseteq 0 .. Width - 1
    BY <1>2
  <2> QED
    BY <1>5, <2>1, NumberOfInRange DEF Result
<1>6. CASE op = "OR"
  <2>1. Bits(m) \cup Bits(n) \subseteq 0 .. Width - 1
    BY <1>2
  <2> QED
    BY <1>6, <2>1, NumberOfInRange DEF Result
<1>7. CASE op = "XOR"
  <2>1. (Bits(m) \cup Bits(n)) \ (Bits(m) \cap Bits(n)) \subseteq 0 .. Width - 1
    BY <1>2
  <2> QED
    BY <1>7, <2>1, NumberOfInRange DEF Result
<1>8. CASE op = "MOV"
  BY <1>8 DEF Result
<1> QED
  BY <1>3, <1>4, <1>5, <1>6, <1>7, <1>8
-----------------------------------------------------------------------------
(* Every instruction makes a context of a context.                         *)
LEMMA AdvancedContext ==
  ASSUME NEW c \in Contexts, NEW w \in Words
  PROVE  Advanced(c, w) \in Contexts
<1>1. (c.PC + 1) % WordSize \in Words
  <2>1. c.PC + 1 \in Int /\ WordSize \in Nat \ {0}
    BY SizeFacts DEF Contexts, Words
  <2> QED
    BY <2>1, ModFacts DEF Words
<1> QED
  BY <1>1 DEF Advanced, Contexts

LEMMA WithRegister ==
  ASSUME NEW c \in Contexts, NEW r \in 0 .. Registers - 1, NEW n \in Numbers
  PROVE  [c EXCEPT !.R[r] = n] \in Contexts
  BY DEF Contexts

LEMMA LoadedContext ==
  ASSUME NEW c \in Contexts, NEW w \in Words, NEW v \in Words
  PROVE  Loaded(c, w, v) \in Contexts
<1>1. Signed(v) \in Numbers
  BY SignedFacts, SizeFacts DEF Words
<1> QED
  BY <1>1, AdvancedContext, FieldFacts, WithRegister DEF Loaded

LEMMA CalculatedContext ==
  ASSUME NEW c \in Contexts, NEW w \in Words, Op(w) \in AluOps, ~ Traps(c, w)
  PROVE  Calculated(c, w) \in Contexts
<1> DEFINE m == c.R[Source1(w)]
           n == c.R[Source2(w)]
<1>1. m \in Numbers /\ n \in Numbers
  BY FieldFacts DEF Contexts
<1>2. CASE Op(w) = "CMP"
  <2>1. Signed(m - n) \in Numbers
    <3>1. m - n \in Int
      BY <1>1, SizeFacts DEF Numbers
    <3> QED
      BY <3>1, SignedFacts
  <2> QED
    BY <1>2, <2>1, AdvancedContext DEF Calculated, Compared, Contexts
<1>3. CASE Op(w) # "CMP"
  <2>1. Op(w) \in {"ADD", "SUB", "MUL", "DIV", "AND", "OR", "XOR", "MOV"}
    BY <1>3 DEF AluOps
  <2>2. Op(w) = "DIV" => n # 0 /\ ~ (m = -Half /\ n = -1)
    BY DEF Traps, Half
  <2>3. Result(Op(w), m, n) \in Numbers
    BY <1>1, <2>1, <2>2, ResultInRange
  <2> QED
    BY <1>3, <2>3, AdvancedContext, FieldFacts, WithRegister DEF Calculated
<1> QED
  BY <1>2, <1>3

LEMMA JumpedContext ==
  ASSUME NEW c \in Contexts, NEW w \in Words
  PROVE  Jumped(c, w) \in Contexts
  BY AdvancedContext, FieldFacts DEF Jumped, Contexts

LEMMA FreshIsContext ==
  ASSUME NEW at \in Words
  PROVE  FreshContext(at) \in Contexts
<1>1. 0 \in Words /\ 0 \in Numbers
  BY SizeFacts DEF Words, Numbers, Half
<1> QED
  BY <1>1 DEF FreshContext, Contexts
-----------------------------------------------------------------------------
LEMMA ModNear ==
  ASSUME NEW b \in Nat \ {0}, NEW a \in -b .. 2 * b - 1
  PROVE  a % b = IF a < 0 THEN a + b ELSE IF a < b THEN a ELSE a - b
<1> DEFINE k == a \div b
           r == a % b
<1>1. k \in Int /\ r \in 0 .. b - 1 /\ a = b * k + r
  BY ModFacts
<1> HIDE DEF k, r
<1>2. k >= 2 => b * k >= 2 * b
  <2>1. ASSUME k >= 2 PROVE b * (k - 1) >= b
    BY <1>1, <2>1, MultipleFacts
  <2> QED
    BY <1>1, <2>1
<1>3. k <= -2 => b * k <= -(2 * b)
  <2>1. ASSUME k <= -2 PROVE b * (k + 2) <= 0
    BY <1>1, <2>1, MultipleFacts
  <2> QED
    BY <1>1, <2>1
<1>4. k \in {-1, 0, 1}
  BY <1>1, <1>2, <1>3
<1> QED
  BY <1>1, <1>4 DEF r

LEMMA SignedDifference ==
  ASSUME NEW m \in Numbers, NEW n \in Numbers
  PROVE  Signed(m - n) = IF m - n >= Half THEN m - n - WordSize
                         ELSE IF m - n < -Half THEN m - n + WordSize ELSE m - n
<1>1. Numbers = -Half .. Half - 1 /\ Half \in Nat \ {0, 1} /\ WordSize = 2 * Half
  BY SizeFacts DEF Numbers, Half
<1> DEFINE a == m - n + Half
<1>2. a \in -WordSize .. 2 * WordSize - 1 /\ WordSize \in Nat \ {0}
  BY <1>1
<1>3. Signed(m - n) = (a % WordSize) - Half
  BY DEF Signed, Half
<1> HIDE DEF a
<1>4. a % WordSize = IF a < 0 THEN a + WordSize ELSE IF a < WordSize THEN a ELSE a - WordSize
  BY <1>2, ModNear
<1> QED
  BY <1>1, <1>2, <1>3, <1>4 DEF a

(* A branch after CMP (executor_s.c, __ex_cmp to __ex_blt) tells whether   *)
(* two registers are equal, always, and which is the greater, unless their *)
(* difference is no number of the machine: then it tells the reverse.      *)
THEOREM CompareTellsOrder ==
  ASSUME NEW c \in Contexts, NEW w \in Words
  PROVE  LET m == c.R[Source1(w)]
             n == c.R[Source2(w)]
             cc == Compared(c, w).cc
         IN  /\ Taken("BEQ", cc) <=> m = n
             /\ m - n \in Numbers =>
                  (Taken("BLT", cc) <=> m < n) /\ (Taken("BGT", cc) <=> m > n)
             /\ m - n \notin Numbers =>
                  (Taken("BLT", cc) <=> m > n) /\ (Taken("BGT", cc) <=> m < n)
<1> DEFINE m == c.R[Source1(w)]
           n == c.R[Source2(w)]
           cc == Compared(c, w).cc
<1>1. m \in Numbers /\ n \in Numbers
  BY FieldFacts DEF Contexts
<1>2. cc = Signed(m - n)
  BY DEF Compared, Advanced, Contexts
<1> HIDE DEF m, n, cc
<1>3. cc = IF m - n >= Half THEN m - n - WordSize
           ELSE IF m - n < -Half THEN m - n + WordSize ELSE m - n
  BY <1>1, <1>2, SignedDifference
<1>4. Numbers = -Half .. Half - 1 /\ Half \in Nat \ {0, 1} /\ WordSize = 2 * Half
  BY SizeFacts DEF Numbers, Half
<1>5. /\ Taken("BEQ", cc) <=> cc = 0
      /\ Taken("BGT", cc) <=> cc > 0
      /\ Taken("BLT", cc) <=> cc < 0
  BY DEF Taken
<1>6. /\ cc = 0 <=> m = n
      /\ m - n \in Numbers => (cc < 0 <=> m < n) /\ (cc > 0 <=> m > n)
      /\ m - n \notin Numbers => (cc < 0 <=> m > n) /\ (cc > 0 <=> m < n)
  BY <1>1, <1>3, <1>4
<1> QED
  BY <1>5, <1>6 DEF m, n, cc
-----------------------------------------------------------------------------
(***************************************************************************)
(* The TLBs.  What makes the invariant inductive is that a thread's PTBR   *)
(* is that of the process whose context it has, and that only pages that   *)
(* exist have been used: then an address that is not doubtful is resolved  *)
(* rightly (ResolvedRight), by a TLB entry or by a page table that no      *)
(* store has reached (StoreKeepsTables).                                   *)
(***************************************************************************)

(* Threads and their memories. *)
LEMMA LayoutFacts ==
  /\ MemWords \in Nat \ {0} /\ FrameWords \in Nat \ {0} /\ tlb_max_space \in Nat \ {0}
  /\ 0 \in Threads /\ Threads \subseteq Nat
  /\ null_process \in Processes /\ Null \notin Processes
  /\ \A t \in Threads : t \notin Processes /\ t # Null
  /\ \A x \in Processes : Pages[x] \in Nat /\ Table[x] \in Nat
<1>1. MemWords \in Nat \ {0} /\ FrameWords \in Nat \ {0} /\ tlb_max_space \in Nat \ {0}
  BY MmuAssumption
<1>2. ThreadTotal \in Nat \ {0} /\ null_process \in Processes /\ Null \notin Processes
  BY LayoutAssumption
<1>3. 0 \in Threads /\ Threads \subseteq Nat
  BY <1>2 DEF Threads
<1>4. (Processes \cup {Null}) \cap Threads = {}
  BY LayoutAssumption
<1>5. Pages \in [Processes -> Nat] /\ Table \in [Processes -> Nat]
  BY LayoutAssumption
<1> QED
  BY <1>1, <1>2, <1>3, <1>4, <1>5

LEMMA PageFacts ==
  ASSUME NEW va \in Nat
  PROVE  /\ Page(va) \in Nat
         /\ Offset(va) \in 0 .. FrameWords - 1
         /\ va = FrameWords * Page(va) + Offset(va)
<1>1. FrameWords \in Nat \ {0}
  BY LayoutFacts
<1>2. va \div FrameWords \in Nat
  BY <1>1, DivFacts
<1> QED
  BY <1>1, <1>2, ModFacts DEF Page, Offset

LEMMA FrameFacts ==
  ASSUME NEW w \in Nat
  PROVE  FrameStart(w) \in Nat
<1> DEFINE b == FrameWords
<1>0. b \in Nat \ {0} /\ w \in Int
  BY LayoutFacts
<1> HIDE DEF b
<1>1. /\ w % b \in Nat /\ w \div b \in Nat
      /\ w = b * (w \div b) + (w % b)
  BY <1>0, ModFacts, DivFacts
<1>2. b * (w \div b) \in Nat
  BY <1>0, <1>1
<1>3. w - (w % b) \in Nat
  BY <1>1, <1>2
<1> QED
  BY <1>3 DEF FrameStart, b

Memories == [0 .. MemWords - 1 -> Words]
Tlbs == [0 .. tlb_max_space - 1 -> Entries]

LEMMA ReadFacts ==
  ASSUME NEW mem \in Memories, NEW a \in Int
  PROVE  /\ pm_read_word(mem, a) \in Words
         /\ \A w \in Words : pm_write_word(mem, a, w) \in Memories
<1>1. a % MemWords \in 0 .. MemWords - 1
  BY LayoutFacts, ModFacts
<1> QED
  BY <1>1 DEF pm_read_word, pm_write_word, Memories

LEMMA SlotFacts ==
  ASSUME NEW va \in Nat
  PROVE  Slot(va) \in 0 .. tlb_max_space - 1
<1>1. Page(va) \in Int /\ tlb_max_space \in Nat \ {0}
  BY PageFacts, LayoutFacts
<1> QED
  BY <1>1, ModFacts DEF Slot

(* Whatever is in the TLB and in the page table, an address is resolved to *)
(* some address.                                                           *)
LEMMA ResolveTypes ==
  ASSUME NEW mem \in Memories, NEW tl \in Tlbs, NEW pt \in Nat, NEW va \in Nat
  PROVE  /\ FrameFromMemory(mem, pt, va) \in Nat
         /\ mmu_resolve(mem, tl, pt, va) \in Nat
         /\ TlbAfter(mem, tl, pt, va) \in Tlbs
<1>1. Page(va) \in Nat /\ Offset(va) \in Nat /\ Slot(va) \in 0 .. tlb_max_space - 1
  BY PageFacts, SlotFacts, LayoutFacts
<1>2. pm_read_word(mem, pt + 1 + Page(va)) \in Nat
  <2>1. pt + 1 + Page(va) \in Int
    BY <1>1
  <2>2. pm_read_word(mem, pt + 1 + Page(va)) \in Words
    BY <2>1, ReadFacts
  <2> QED
    BY <2>2, SizeFacts DEF Words
<1>3. FrameFromMemory(mem, pt, va) \in Nat
  BY <1>2, FrameFacts DEF FrameFromMemory
<1>4. tl[Slot(va)].frame \in Nat
  BY <1>1 DEF Tlbs, Entries
<1>5. mmu_resolve(mem, tl, pt, va) \in Nat
  BY <1>1, <1>3, <1>4 DEF mmu_resolve
<1>6. TlbAfter(mem, tl, pt, va) \in Tlbs
  BY <1>1, <1>3 DEF TlbAfter, Entered, Tlbs, Entries
<1> QED
  BY <1>3, <1>5, <1>6
-----------------------------------------------------------------------------
LEMMA ThreadTypes ==
  ASSUME TypeOK, NEW t \in Threads
  PROVE  /\ PC(t) \in Words /\ PC(t) \in Nat
         /\ Fetched(t) \in Words
         /\ TlbThen(t) \in Tlbs
         /\ Operand(t) \in Words /\ Operand(t) \in Nat
         /\ Reached(t) \in Nat
         /\ TlbAtLast(t) \in Tlbs
         /\ Owner(t) \in Processes
<1>1. memory \in Memories /\ tlb[t] \in Tlbs /\ PTBR[t] \in Nat /\ thread[t] \in Contexts
  BY DEF TypeOK, Memories, Tlbs
<1>2. PC(t) \in Words /\ PC(t) \in Nat
  BY <1>1, SizeFacts DEF PC, Contexts, Words
<1>3. mmu_resolve(memory, tlb[t], PTBR[t], PC(t)) \in Nat /\ TlbThen(t) \in Tlbs
  BY <1>1, <1>2, ResolveTypes DEF TlbThen
<1>4. Fetched(t) \in Words
  BY <1>1, <1>3, ReadFacts DEF Fetched
<1>5. Operand(t) \in Words /\ Operand(t) \in Nat
  BY <1>4, FieldFacts, SizeFacts DEF Operand, Words
<1>6. Reached(t) \in Nat /\ TlbAtLast(t) \in Tlbs
  BY <1>1, <1>3, <1>5, ResolveTypes DEF Reached, TlbAtLast
<1>7. Owner(t) \in Processes
  BY LayoutFacts DEF Owner, TypeOK
<1> QED
  BY <1>2, <1>3, <1>4, <1>5, <1>6, <1>7

LEMMA TurnTypes ==
  ASSUME TypeOK, NextTurn
  PROVE  turn' \in Threads
<1>1. turn + 1 \in Int /\ ThreadTotal \in Nat \ {0}
  BY LayoutAssumption, LayoutFacts DEF TypeOK
<1> QED
  BY <1>1, ModFacts DEF NextTurn, Threads

LEMMA UseTypes ==
  ASSUME TypeOK, NEW t \in Threads, NEW vas \in SUBSET Nat, Uses(t, vas)
  PROVE  used' \in [Threads -> SUBSET (Processes \X Nat)] /\ trusted' \in BOOLEAN
<1>1. {<<Owner(t), Page(va)>> : va \in vas} \subseteq Processes \X Nat
  BY ThreadTypes, PageFacts
<1>2. trusted' \in BOOLEAN
  BY DEF Uses, Trusts, TypeOK
<1> QED
  BY <1>1, <1>2 DEF Uses, TypeOK

LEMMA UnloadedTypes ==
  ASSUME TypeOK
  PROVE  Unloaded \in [Processes -> Contexts]
  BY LayoutFacts DEF TypeOK, Unloaded

LEMMA InitTypes == Init => TypeOK
<1> SUFFICES ASSUME Init PROVE TypeOK
  OBVIOUS
<1>1. memory \in [0 .. MemWords - 1 -> Words]
  BY LayoutAssumption DEF Init, LaidOut
<1>2. tlb \in [Threads -> [0 .. tlb_max_space - 1 -> Entries]]
  BY DEF Init, Flushed, Inactive, Entries
<1>3. thread \in [Threads -> Contexts]
  <2>1. 0 \in Words
    BY SizeFacts DEF Words
  <2> QED
    BY <2>1, FreshIsContext DEF Init
<1>4. snapshot \in [Processes -> Contexts]
  <2>1. PICK code \in Codes : snapshot = [x \in Processes |-> FreshContext(code[x])]
    BY DEF Init
  <2>2. code \in [Processes -> Words]
    BY LayoutAssumption
  <2> QED
    BY <2>1, <2>2, FreshIsContext
<1>5. turn \in Threads /\ PTBR \in [Threads -> Nat] /\ used \in [Threads -> SUBSET (Processes \X Nat)]
  BY LayoutFacts DEF Init
<1> QED
  BY <1>1, <1>2, <1>3, <1>4, <1>5 DEF Init, TypeOK

(* What a store writes. *)
LEMMA StoredWord ==
  ASSUME TypeOK, NEW t \in Threads
  PROVE  Unsigned(thread[t].R[Target(Fetched(t))]) \in Words
<1>1. Target(Fetched(t)) \in 0 .. Registers - 1
  BY ThreadTypes, FieldFacts
<1>2. thread[t].R \in [0 .. Registers - 1 -> Numbers]
  BY DEF TypeOK, Contexts
<1>3. Numbers \subseteq Int
  BY SizeFacts DEF Numbers, Half
<1> QED
  BY <1>1, <1>2, <1>3, SignedFacts

LEMMA ExecuteTypes ==
  ASSUME TypeOK, NEW t \in Threads, Execute(t)
  PROVE  TypeOK'
<1>1. /\ memory \in Memories /\ tlb \in [Threads -> Tlbs] /\ thread \in [Threads -> Contexts]
      /\ PTBR \in [Threads -> Nat] /\ snapshot \in [Processes -> Contexts]
      /\ current_process \in Processes \cup {Null} /\ turn \in Threads
      /\ used \in [Threads -> SUBSET (Processes \X Nat)] /\ {trusted, ended} \subseteq BOOLEAN
  BY DEF TypeOK, Memories, Tlbs
<1>2. /\ PC(t) \in Nat /\ Operand(t) \in Nat /\ Fetched(t) \in Words /\ Reached(t) \in Nat
      /\ TlbThen(t) \in Tlbs /\ TlbAtLast(t) \in Tlbs
  BY ThreadTypes
<1>3. CASE Load(t)
  <2>1. thread' \in [Threads -> Contexts]
    <3>1. pm_read_word(memory, Reached(t)) \in Words
      BY <1>1, <1>2, ReadFacts
    <3>2. Loaded(thread[t], Fetched(t), pm_read_word(memory, Reached(t))) \in Contexts
      BY <1>1, <1>2, <3>1, LoadedContext
    <3> QED
      BY <1>1, <1>3, <3>2 DEF Load
  <2>2. tlb' \in [Threads -> Tlbs]
    BY <1>1, <1>2, <1>3 DEF Load
  <2>3. turn' \in Threads
    BY <1>3, TurnTypes DEF Load
  <2>4. used' \in [Threads -> SUBSET (Processes \X Nat)] /\ trusted' \in BOOLEAN
    BY <1>2, <1>3, UseTypes DEF Load
  <2> QED
    BY <1>1, <1>3, <2>1, <2>2, <2>3, <2>4 DEF Load, TypeOK, Memories, Tlbs
<1>4. CASE Store(t)
  <2>1. thread' \in [Threads -> Contexts]
    BY <1>1, <1>2, <1>4, AdvancedContext DEF Store
  <2>2. memory' \in Memories
    BY <1>1, <1>2, <1>4, StoredWord, ReadFacts DEF Store
  <2>3. tlb' \in [Threads -> Tlbs]
    BY <1>1, <1>2, <1>4 DEF Store
  <2>4. turn' \in Threads
    BY <1>4, TurnTypes DEF Store
  <2>5. used' \in [Threads -> SUBSET (Processes \X Nat)] /\ trusted' \in BOOLEAN
    BY <1>2, <1>4, UseTypes DEF Store
  <2> QED
    BY <1>1, <1>4, <2>1, <2>2, <2>3, <2>4, <2>5 DEF Store, TypeOK, Memories, Tlbs
<1>5. CASE Calculate(t)
  <2>1. thread' \in [Threads -> Contexts]
    <3>1. Calculated(thread[t], Fetched(t)) \in Contexts
      BY <1>1, <1>2, <1>5, CalculatedContext DEF Calculate, Ready
    <3> QED
      BY <1>1, <1>5, <3>1 DEF Calculate
  <2>2. tlb' \in [Threads -> Tlbs]
    BY <1>1, <1>2, <1>5 DEF Calculate
  <2>3. turn' \in Threads
    BY <1>5, TurnTypes DEF Calculate
  <2>4. used' \in [Threads -> SUBSET (Processes \X Nat)] /\ trusted' \in BOOLEAN
    BY <1>2, <1>5, UseTypes DEF Calculate
  <2> QED
    BY <1>1, <1>5, <2>1, <2>2, <2>3, <2>4 DEF Calculate, TypeOK, Memories, Tlbs
<1>6. CASE Jump(t)
  <2>1. thread' \in [Threads -> Contexts]
    BY <1>1, <1>2, <1>6, JumpedContext DEF Jump
  <2>2. tlb' \in [Threads -> Tlbs]
    BY <1>1, <1>2, <1>6 DEF Jump
  <2>3. turn' \in Threads
    BY <1>6, TurnTypes DEF Jump
  <2>4. used' \in [Threads -> SUBSET (Processes \X Nat)] /\ trusted' \in BOOLEAN
    BY <1>2, <1>6, UseTypes DEF Jump
  <2> QED
    BY <1>1, <1>6, <2>1, <2>2, <2>3, <2>4 DEF Jump, TypeOK, Memories, Tlbs
<1>7. CASE Fault(t)
  <2>1. trusted' \in BOOLEAN
    BY <1>7 DEF Fault, Trusts
  <2> QED
    BY <1>1, <1>7, <2>1 DEF Fault, TypeOK, Memories, Tlbs
<1> QED
  BY <1>3, <1>4, <1>5, <1>6, <1>7 DEF Execute

LEMMA DispatchTypes ==
  ASSUME TypeOK, NEW x \in Processes, Dispatch(x)
  PROVE  TypeOK'
<1>1. Unloaded \in [Processes -> Contexts]
  BY UnloadedTypes
<1>2. Table[x] \in Nat /\ 0 \in Threads
  BY LayoutFacts
<1> QED
  BY <1>1, <1>2 DEF Dispatch, TypeOK, history

LEMMA NextTypes == TypeOK /\ [Next]_vars => TypeOK'
<1> SUFFICES ASSUME TypeOK, [Next]_vars PROVE TypeOK'
  OBVIOUS
<1>1. CASE UNCHANGED vars
  BY <1>1 DEF vars, history, TypeOK
<1> QED
  BY <1>1, ExecuteTypes, DispatchTypes DEF Next

(* Registers and cc stay numbers of the machine, memory holds words, and   *)
(* addresses stay natural, for every program (executor_s.c, memory_s.c).   *)
THEOREM MachineTypeCorrect == Spec => []TypeOK
  BY InitTypes, NextTypes, PTL DEF Spec
-----------------------------------------------------------------------------
(* What the TLB and the uses of a thread have to do with each other.       *)
TruthfulFor(tl, uses) ==
  \A s \in 0 .. tlb_max_space - 1 :
    tl[s] # Inactive =>
      \E x \in Processes :
        /\ <<x, tl[s].page>> \in uses
        /\ tl[s].frame = Frames[x][tl[s].page]

Exist(uses) == \A u \in uses : u[2] < Pages[u[1]]

OwnTables == \A t \in Threads : PTBR[t] = Table[Owner(t)]

Truth ==
  /\ LaidOut(memory)
  /\ \A t \in Threads : TruthfulFor(tlb[t], used[t]) /\ Exist(used[t])

Inv == TypeOK /\ OwnTables /\ (trusted => Truth)

LEMMA InvTruthful == Inv => TlbTruthful
  BY DEF Inv, Truth, TlbTruthful, TruthfulFor

LEMMA SmallMod ==
  ASSUME NEW a \in 0 .. MemWords - 1
  PROVE  a % MemWords = a
<1>1. MemWords \in Nat \ {0} /\ a \in -MemWords .. 2 * MemWords - 1
  BY LayoutFacts
<1> QED
  BY <1>1, ModNear

(* Where the layout puts the tables and the frames of a process.           *)
LEMMA TableFacts ==
  ASSUME NEW x \in Processes
  PROVE  \A i \in 0 .. Pages[x] : Table[x] + i \in 0 .. MemWords - 1
<1>1. Table[x] + Pages[x] < MemWords
  BY LayoutAssumption
<1> QED
  BY <1>1, LayoutFacts

LEMMA InFrame ==
  ASSUME NEW x \in Processes, NEW p \in Nat, p < Pages[x], NEW o \in 0 .. FrameWords - 1
  PROVE  Frames[x][p] \in Nat /\ Frames[x][p] + o \in 0 .. MemWords - 1
<1>1. p \in 0 .. Pages[x] - 1
  BY LayoutFacts
<1>2. Frames[x] \in [0 .. Pages[x] - 1 -> Nat] /\ Frames[x][p] + FrameWords <= MemWords
  BY <1>1, LayoutAssumption
<1>3. Frames[x][p] \in Nat
  BY <1>1, <1>2
<1> QED
  BY <1>2, <1>3, LayoutFacts

LEMMA NoTableInFrame ==
  ASSUME NEW x \in Processes, NEW p \in Nat, p < Pages[x], NEW o \in 0 .. FrameWords - 1
  PROVE  \A y \in Processes : \A i \in 0 .. Pages[y] : Table[y] + i # Frames[x][p] + o
<1>1. p \in 0 .. Pages[x] - 1 /\ Frames[x][p] \in Nat
  BY LayoutFacts, InFrame
<1> SUFFICES ASSUME NEW y \in Processes, NEW i \in 0 .. Pages[y]
             PROVE  Table[y] + i # Frames[x][p] + o
  OBVIOUS
<1>2. Table[y] + i \notin Frames[x][p] .. Frames[x][p] + FrameWords - 1
  BY <1>1, LayoutAssumption
<1> QED
  BY <1>1, <1>2, LayoutFacts

(* An address that is not doubtful is resolved rightly if it is resolved. *)
LEMMA ResolvedRight ==
  ASSUME NEW mem \in Memories, LaidOut(mem), NEW tl \in Tlbs, NEW x \in Processes,
         NEW uses \in SUBSET (Processes \X Nat), TruthfulFor(tl, uses), Exist(uses),
         NEW va \in Nat, Page(va) # Pages[x],
         \A y \in Processes \ {x} : <<y, Page(va)>> \in uses => SameFrame(x, y, va),
         Resolves(mem, tl, Table[x], va)
  PROVE  /\ Page(va) < Pages[x]
         /\ mmu_resolve(mem, tl, Table[x], va) = Frames[x][Page(va)] + Offset(va)
         /\ TruthfulFor(TlbAfter(mem, tl, Table[x], va), uses \cup {<<x, Page(va)>>})
         /\ Exist(uses \cup {<<x, Page(va)>>})
<1>1. Page(va) \in Nat /\ Offset(va) \in Nat /\ Slot(va) \in 0 .. tlb_max_space - 1
  BY PageFacts, SlotFacts, LayoutFacts
<1>2. Pages[x] \in Nat /\ Table[x] \in Nat
  BY LayoutFacts
<1>3. CASE Match(tl, va)
  <2>1. tl[Slot(va)] # Inactive /\ tl[Slot(va)].page = Page(va)
    BY <1>1, <1>3 DEF Match, Inactive
  <2>2. PICK y \in Processes : /\ <<y, Page(va)>> \in uses
                               /\ tl[Slot(va)].frame = Frames[y][Page(va)]
    BY <1>1, <2>1 DEF TruthfulFor
  <2>3. Frames[y][Page(va)] = Frames[x][Page(va)]
    BY <2>2 DEF SameFrame
  <2>4. Page(va) < Pages[x]
    BY <2>2 DEF Exist, SameFrame
  <2>5. mmu_resolve(mem, tl, Table[x], va) = Offset(va) + Frames[x][Page(va)]
    BY <1>3, <2>2, <2>3 DEF mmu_resolve
  <2>6. /\ TruthfulFor(TlbAfter(mem, tl, Table[x], va), uses \cup {<<x, Page(va)>>})
        /\ Exist(uses \cup {<<x, Page(va)>>})
    <3>1. TlbAfter(mem, tl, Table[x], va) = tl
      BY <1>3 DEF TlbAfter
    <3>2. TruthfulFor(tl, uses \cup {<<x, Page(va)>>})
      BY DEF TruthfulFor
    <3>3. Exist(uses \cup {<<x, Page(va)>>})
      BY <2>4 DEF Exist
    <3> QED
      BY <3>1, <3>2, <3>3
  <2>7. Frames[x][Page(va)] \in Nat
    BY <1>1, <2>4, InFrame, PageFacts
  <2>8. mmu_resolve(mem, tl, Table[x], va) = Frames[x][Page(va)] + Offset(va)
    BY <1>1, <2>5, <2>7
  <2> QED
    BY <2>4, <2>6, <2>8
<1>4. CASE ~ Match(tl, va)
  <2>1. pm_read_word(mem, Table[x]) = Pages[x]
    <3>1. Table[x] \in 0 .. MemWords - 1
      BY <1>2, TableFacts
    <3> QED
      BY <3>1, SmallMod DEF pm_read_word, LaidOut
  <2>2. Page(va) < Pages[x]
    BY <1>1, <1>2, <1>4, <2>1 DEF Resolves, Refused
  <2>3. Page(va) \in 0 .. Pages[x] - 1
    BY <1>1, <1>2, <2>2
  <2>4. FrameFromMemory(mem, Table[x], va) = Frames[x][Page(va)]
    <3>1. Table[x] + 1 + Page(va) \in 0 .. MemWords - 1
      <4>1. 1 + Page(va) \in 0 .. Pages[x]
        BY <1>1, <1>2, <2>2
      <4>2. Table[x] + (1 + Page(va)) \in 0 .. MemWords - 1
        BY <4>1, TableFacts
      <4> QED
        BY <1>1, <1>2, <4>2
    <3>2. FrameStart(mem[Table[x] + 1 + Page(va)]) = Frames[x][Page(va)]
      BY <2>3 DEF LaidOut
    <3> QED
      BY <3>1, <3>2, SmallMod DEF FrameFromMemory, pm_read_word
  <2>5. mmu_resolve(mem, tl, Table[x], va) = Offset(va) + Frames[x][Page(va)]
    BY <1>4, <2>4 DEF mmu_resolve
  <2>6. TlbAfter(mem, tl, Table[x], va) =
          [tl EXCEPT ![Slot(va)] = [page |-> Page(va), frame |-> Frames[x][Page(va)]]]
    BY <1>4, <2>4 DEF TlbAfter, Entered
  <2>7. TruthfulFor(TlbAfter(mem, tl, Table[x], va), uses \cup {<<x, Page(va)>>})
    <3> SUFFICES ASSUME NEW s \in 0 .. tlb_max_space - 1,
                        TlbAfter(mem, tl, Table[x], va)[s] # Inactive
                 PROVE  \E y \in Processes :
                          /\ <<y, TlbAfter(mem, tl, Table[x], va)[s].page>> \in
                               uses \cup {<<x, Page(va)>>}
                          /\ TlbAfter(mem, tl, Table[x], va)[s].frame =
                               Frames[y][TlbAfter(mem, tl, Table[x], va)[s].page]
      BY DEF TruthfulFor
    <3>1. CASE s = Slot(va)
      BY <3>1, <2>6 DEF Tlbs
    <3>2. CASE s # Slot(va)
      BY <3>2, <2>6 DEF Tlbs, TruthfulFor
    <3> QED
      BY <3>1, <3>2
  <2>8. Exist(uses \cup {<<x, Page(va)>>})
    BY <2>2 DEF Exist
  <2>9. Frames[x][Page(va)] \in Nat
    BY <1>1, <2>2, InFrame, PageFacts
  <2>10. mmu_resolve(mem, tl, Table[x], va) = Frames[x][Page(va)] + Offset(va)
    BY <1>1, <2>5, <2>9
  <2> QED
    BY <2>2, <2>7, <2>8, <2>10
<1> QED
  BY <1>3, <1>4
-----------------------------------------------------------------------------
(* The same for the two addresses that an instruction may use.             *)
LEMMA FetchedRight ==
  ASSUME Inv, trusted, NEW t \in Threads, Fetches(t), ~ Doubtful(t, PC(t))
  PROVE  /\ Page(PC(t)) < Pages[Owner(t)]
         /\ Fetched(t) = memory[Frames[Owner(t)][Page(PC(t))] + Offset(PC(t))]
         /\ TruthfulFor(TlbThen(t), used[t] \cup {<<Owner(t), Page(PC(t))>>})
         /\ Exist(used[t] \cup {<<Owner(t), Page(PC(t))>>})
<1> DEFINE x == Owner(t)
           va == PC(t)
<1>1. /\ memory \in Memories /\ LaidOut(memory) /\ tlb[t] \in Tlbs /\ x \in Processes
      /\ used[t] \in SUBSET (Processes \X Nat) /\ va \in Nat /\ PTBR[t] = Table[x]
      /\ TruthfulFor(tlb[t], used[t]) /\ Exist(used[t])
  BY ThreadTypes DEF Inv, Truth, OwnTables, TypeOK, Memories, Tlbs
<1>2. /\ Page(va) # Pages[x]
      /\ \A y \in Processes \ {x} : <<y, Page(va)>> \in used[t] => SameFrame(x, y, va)
  BY DEF Doubtful
<1>3. Resolves(memory, tlb[t], Table[x], va)
  BY <1>1 DEF Fetches
<1>4. Fetched(t) = pm_read_word(memory, mmu_resolve(memory, tlb[t], Table[x], va))
  BY <1>1 DEF Fetched
<1>5. TlbThen(t) = TlbAfter(memory, tlb[t], Table[x], va)
  BY <1>1 DEF TlbThen
<1> HIDE DEF x, va
<1>6. /\ Page(va) < Pages[x]
      /\ mmu_resolve(memory, tlb[t], Table[x], va) = Frames[x][Page(va)] + Offset(va)
      /\ TruthfulFor(TlbThen(t), used[t] \cup {<<x, Page(va)>>})
      /\ Exist(used[t] \cup {<<x, Page(va)>>})
  BY <1>1, <1>2, <1>3, <1>5, ResolvedRight
<1>7. Frames[x][Page(va)] + Offset(va) \in 0 .. MemWords - 1
  BY <1>1, <1>6, PageFacts, InFrame
<1>8. Fetched(t) = memory[Frames[x][Page(va)] + Offset(va)]
  BY <1>4, <1>6, <1>7, SmallMod DEF pm_read_word
<1> QED
  BY <1>6, <1>8 DEF x, va

LEMMA ReachedRight ==
  ASSUME Inv, trusted, NEW t \in Threads, Fetches(t), ~ Doubtful(t, PC(t)),
         Reaches(t), ~ Doubtful(t, Operand(t))
  PROVE  /\ Page(Operand(t)) < Pages[Owner(t)]
         /\ Reached(t) = Frames[Owner(t)][Page(Operand(t))] + Offset(Operand(t))
         /\ TruthfulFor(TlbAtLast(t), used[t] \cup {<<Owner(t), Page(PC(t))>>}
                                              \cup {<<Owner(t), Page(Operand(t))>>})
         /\ Exist(used[t] \cup {<<Owner(t), Page(PC(t))>>} \cup {<<Owner(t), Page(Operand(t))>>})
<1> DEFINE x == Owner(t)
           va == Operand(t)
           uses == used[t] \cup {<<Owner(t), Page(PC(t))>>}
<1>1. /\ memory \in Memories /\ LaidOut(memory) /\ TlbThen(t) \in Tlbs /\ x \in Processes
      /\ va \in Nat /\ PTBR[t] = Table[x] /\ TruthfulFor(TlbThen(t), uses) /\ Exist(uses)
  BY ThreadTypes, FetchedRight DEF Inv, Truth, OwnTables, TypeOK, Memories
<1>2. uses \in SUBSET (Processes \X Nat)
  <2>1. Owner(t) \in Processes /\ Page(PC(t)) \in Nat
    BY ThreadTypes, PageFacts DEF Inv
  <2>2. used[t] \in SUBSET (Processes \X Nat)
    BY DEF Inv, TypeOK
  <2> QED
    BY <2>1, <2>2
<1>3. /\ Page(va) # Pages[x]
      /\ \A y \in Processes \ {x} : <<y, Page(va)>> \in uses => SameFrame(x, y, va)
  BY DEF Doubtful
<1>4. Resolves(memory, TlbThen(t), Table[x], va)
  BY <1>1 DEF Reaches
<1>5. Reached(t) = mmu_resolve(memory, TlbThen(t), Table[x], va)
  BY <1>1 DEF Reached
<1>6. TlbAtLast(t) = TlbAfter(memory, TlbThen(t), Table[x], va)
  BY <1>1 DEF TlbAtLast
<1> HIDE DEF x, va, uses
<1>7. /\ Page(va) < Pages[x]
      /\ Reached(t) = Frames[x][Page(va)] + Offset(va)
      /\ TruthfulFor(TlbAtLast(t), uses \cup {<<x, Page(va)>>})
      /\ Exist(uses \cup {<<x, Page(va)>>})
  BY <1>1, <1>2, <1>3, <1>4, <1>5, <1>6, ResolvedRight
<1> QED
  BY <1>7 DEF x, va, uses

(* A store into a frame of a process leaves every page table as it is.     *)
LEMMA StoreKeepsTables ==
  ASSUME NEW mem \in Memories, LaidOut(mem), NEW x \in Processes,
         NEW p \in Nat, p < Pages[x], NEW o \in 0 .. FrameWords - 1, NEW w \in Words
  PROVE  LaidOut([mem EXCEPT ![Frames[x][p] + o] = w])
<1> DEFINE a == Frames[x][p] + o
           new == [mem EXCEPT ![a] = w]
<1>1. new \in [0 .. MemWords - 1 -> Words]
  BY DEF Memories
<1>2. ASSUME NEW y \in Processes
      PROVE  /\ new[Table[y]] = Pages[y]
             /\ \A q \in 0 .. Pages[y] - 1 : FrameStart(new[Table[y] + 1 + q]) = Frames[y][q]
  <2>1. \A i \in 0 .. Pages[y] : Table[y] + i # a /\ Table[y] + i \in 0 .. MemWords - 1
    BY NoTableInFrame, TableFacts
  <2>2. Pages[y] \in Nat /\ Table[y] \in Nat
    BY LayoutFacts
  <2>3. \A i \in 0 .. Pages[y] : new[Table[y] + i] = mem[Table[y] + i]
    BY <2>1 DEF Memories
  <2>4. new[Table[y]] = mem[Table[y]]
    <3>1. 0 \in 0 .. Pages[y] /\ Table[y] + 0 = Table[y]
      BY <2>2
    <3> QED
      BY <3>1, <2>3
  <2>5. ASSUME NEW q \in 0 .. Pages[y] - 1
        PROVE  FrameStart(new[Table[y] + 1 + q]) = Frames[y][q]
    <3>1. q + 1 \in 0 .. Pages[y] /\ Table[y] + 1 + q = Table[y] + (q + 1)
      BY <2>2
    <3>2. new[Table[y] + 1 + q] = mem[Table[y] + 1 + q]
      BY <2>3, <3>1
    <3> QED
      BY <3>2 DEF LaidOut
  <2> QED
    BY <2>4, <2>5 DEF LaidOut
<1> QED
  BY <1>1, <1>2 DEF LaidOut

(* Where it writes it. *)
LEMMA StoreInFrame ==
  ASSUME Inv, trusted, NEW t \in Threads, Store(t), ~ Doubtful(t, PC(t)), ~ Doubtful(t, Operand(t))
  PROVE  memory' = [memory EXCEPT ![Frames[Owner(t)][Page(Operand(t))] + Offset(Operand(t))] =
                                     Unsigned(thread[t].R[Target(Fetched(t))])]
<1>1. Fetches(t) /\ Reaches(t)
  BY DEF Store, Ready
<1>2. /\ Page(Operand(t)) < Pages[Owner(t)]
      /\ Reached(t) = Frames[Owner(t)][Page(Operand(t))] + Offset(Operand(t))
  BY <1>1, ReachedRight
<1>3. Owner(t) \in Processes /\ Page(Operand(t)) \in Nat /\ Offset(Operand(t)) \in 0 .. FrameWords - 1
  BY ThreadTypes, PageFacts DEF Inv
<1>4. Reached(t) % MemWords = Reached(t)
  BY <1>2, <1>3, InFrame, SmallMod
<1> QED
  BY <1>2, <1>4 DEF Store, pm_write_word

(* The uses that an instruction adds. *)
LEMMA UsesAdd ==
  ASSUME TypeOK, NEW t \in Threads, NEW vas, Uses(t, vas), trusted'
  PROVE  /\ trusted
         /\ \A va \in vas : ~ Doubtful(t, va)
         /\ used' = [used EXCEPT ![t] = used[t] \cup {<<Owner(t), Page(va)>> : va \in vas}]
  BY DEF Uses, Trusts, TypeOK

LEMMA ExecuteTruth ==
  ASSUME Inv, NEW t \in Threads, Execute(t), trusted'
  PROVE  Truth'
<1>1. /\ tlb \in [Threads -> Tlbs] /\ used \in [Threads -> SUBSET (Processes \X Nat)]
      /\ memory \in Memories /\ thread[t] \in Contexts
  BY DEF Inv, TypeOK, Memories, Tlbs
<1>2. trusted /\ Truth
  BY DEF Execute, Load, Store, Calculate, Jump, Fault, Ready, Turn, Runs, Inv
<1>3. ASSUME NEW tl, NEW uses, tlb' = [tlb EXCEPT ![t] = tl], used' = [used EXCEPT ![t] = uses],
             TruthfulFor(tl, uses), Exist(uses), LaidOut(memory')
      PROVE  Truth'
  <2> SUFFICES ASSUME NEW u \in Threads PROVE TruthfulFor(tlb'[u], used'[u]) /\ Exist(used'[u])
    BY <1>3 DEF Truth, TruthfulFor, Exist, LaidOut
  <2>1. CASE u = t
    BY <2>1, <1>1, <1>3
  <2>2. CASE u # t
    BY <2>2, <1>1, <1>2, <1>3 DEF Truth
  <2> QED
    BY <2>1, <2>2
<1>4. CASE Load(t)
  <2>1. /\ ~ Doubtful(t, PC(t)) /\ ~ Doubtful(t, Operand(t))
        /\ used' = [used EXCEPT ![t] = used[t] \cup {<<Owner(t), Page(PC(t))>>}
                                               \cup {<<Owner(t), Page(Operand(t))>>}]
    BY <1>4, UsesAdd DEF Load, Inv
  <2>2. Fetches(t) /\ Reaches(t) /\ tlb' = [tlb EXCEPT ![t] = TlbAtLast(t)] /\ memory' = memory
    BY <1>4 DEF Load, Ready
  <2> QED
    BY <1>2, <1>3, <2>1, <2>2, ReachedRight DEF Truth
<1>5. CASE Store(t)
  <2>1. /\ ~ Doubtful(t, PC(t)) /\ ~ Doubtful(t, Operand(t))
        /\ used' = [used EXCEPT ![t] = used[t] \cup {<<Owner(t), Page(PC(t))>>}
                                               \cup {<<Owner(t), Page(Operand(t))>>}]
    BY <1>5, UsesAdd DEF Store, Inv
  <2>2. Fetches(t) /\ Reaches(t) /\ tlb' = [tlb EXCEPT ![t] = TlbAtLast(t)]
    BY <1>5 DEF Store, Ready
  <2> DEFINE w == Unsigned(thread[t].R[Target(Fetched(t))])
  <2>3. w \in Words
    BY StoredWord DEF Inv
  <2>4. memory' = [memory EXCEPT ![Frames[Owner(t)][Page(Operand(t))] + Offset(Operand(t))] = w]
    BY <1>2, <1>5, <2>1, <2>2, StoreInFrame
  <2>5. LaidOut(memory')
    <3>1. Owner(t) \in Processes /\ Page(Operand(t)) \in Nat /\ Offset(Operand(t)) \in 0 .. FrameWords - 1
      BY ThreadTypes, PageFacts DEF Inv
    <3> QED
      BY <1>1, <1>2, <2>1, <2>2, <2>3, <2>4, <3>1, ReachedRight, StoreKeepsTables DEF Truth
  <2> QED
    BY <1>2, <1>3, <2>1, <2>2, <2>5, ReachedRight
<1>6. CASE Calculate(t) \/ Jump(t)
  <2>1. /\ ~ Doubtful(t, PC(t))
        /\ used' = [used EXCEPT ![t] = used[t] \cup {<<Owner(t), Page(PC(t))>>}]
    BY <1>6, UsesAdd DEF Calculate, Jump, Inv
  <2>2. Fetches(t) /\ tlb' = [tlb EXCEPT ![t] = TlbThen(t)] /\ memory' = memory
    BY <1>6 DEF Calculate, Jump, Ready
  <2> QED
    BY <1>2, <1>3, <2>1, <2>2, FetchedRight DEF Truth
<1>7. CASE Fault(t)
  BY <1>2, <1>7 DEF Fault, Truth, LaidOut, TruthfulFor, Exist
<1> QED
  BY <1>4, <1>5, <1>6, <1>7 DEF Execute

(* The owner of a thread's context changes with a dispatch only, and the   *)
(* page table with it.                                                     *)
LEMMA TablesKept ==
  ASSUME TypeOK, OwnTables, Next
  PROVE  OwnTables'
<1>1. ASSUME NEW t \in Threads, Execute(t) PROVE OwnTables'
  BY <1>1 DEF Execute, Load, Store, Calculate, Jump, Fault, OwnTables, Owner
<1>2. ASSUME NEW x \in Processes, Dispatch(x) PROVE OwnTables'
  <2> SUFFICES ASSUME NEW t \in Threads PROVE PTBR'[t] = Table[Owner(t)']
    BY DEF OwnTables
  <2>1. x # Null /\ PTBR \in [Threads -> Nat]
    BY LayoutFacts DEF TypeOK
  <2>2. CASE t = 0
    BY <1>2, <2>1, <2>2 DEF Dispatch, Owner
  <2>3. CASE t # 0
    BY <1>2, <2>1, <2>3 DEF Dispatch, Owner, OwnTables
  <2> QED
    BY <2>2, <2>3
<1> QED
  BY <1>1, <1>2 DEF Next

LEMMA InitInv == Init => Inv
<1> SUFFICES ASSUME Init PROVE Inv
  OBVIOUS
<1>1. OwnTables
  <2>1. Table[null_process] = 0
    BY LayoutAssumption
  <2> QED
    BY <2>1 DEF Init, OwnTables, Owner
<1>2. LaidOut(memory)
  BY LayoutAssumption DEF Init
<1>3. \A t \in Threads : TruthfulFor(tlb[t], used[t]) /\ Exist(used[t])
  BY DEF Init, Flushed, TruthfulFor, Exist
<1> QED
  BY <1>1, <1>2, <1>3, InitTypes DEF Inv, Truth

LEMMA NextInv == Inv /\ [Next]_vars => Inv'
<1> SUFFICES ASSUME Inv, [Next]_vars PROVE Inv'
  OBVIOUS
<1>1. TypeOK'
  BY NextTypes DEF Inv
<1>2. CASE UNCHANGED vars
  BY <1>1, <1>2 DEF vars, history, Inv, OwnTables, Owner, Truth, LaidOut, TruthfulFor, Exist
<1>3. CASE Next
  <2>1. OwnTables'
    BY <1>3, TablesKept DEF Inv
  <2>2. ASSUME trusted' PROVE Truth'
    <3>1. ASSUME NEW t \in Threads, Execute(t) PROVE Truth'
      BY <2>2, <3>1, ExecuteTruth
    <3>2. ASSUME NEW x \in Processes, Dispatch(x) PROVE Truth'
      BY <3>2 DEF Dispatch, Runs, history, Inv, Truth, LaidOut, TruthfulFor, Exist
    <3> QED
      BY <1>3, <3>1, <3>2 DEF Next
  <2> QED
    BY <1>1, <2>1, <2>2 DEF Inv
<1> QED
  BY <1>2, <1>3

LEMMA MachineInvariant == Spec => []Inv
  BY InitInv, NextInv, PTL DEF Spec

(* The TLBs, which no dispatch flushes (scheduler.c, __disp_load), lead to *)
(* the right frames, and the page tables stay as they were written, until  *)
(* a process names the page behind its table or one that the thread has    *)
(* used for a process that has it in another frame.                        *)
THEOREM MachineTlbTruthful == Spec => []TlbTruthful
  BY MachineInvariant, InvTruthful, PTL
-----------------------------------------------------------------------------
(***************************************************************************)
(* The refinement of PagedMachine.                                       *)
(***************************************************************************)

(* The abstract machine's instructions are the same. *)
LEMMA SameFields ==
  ASSUME NEW w
  PROVE  /\ Abstract!Op(w) = Op(w)
         /\ Abstract!Target(w) = Target(w)
         /\ Abstract!Address(w) = Address(w)
         /\ Abstract!Source1(w) = Source1(w)
         /\ Abstract!Source2(w) = Source2(w)
  BY DEF Abstract!Op, Op, Abstract!OpCodes, OpCodes, Abstract!Target, Target,
         Abstract!Address, Address, Abstract!Source1, Source1, Abstract!Source2, Source2

LEMMA SameSets ==
  /\ Abstract!Words = Words
  /\ Abstract!Contexts = Contexts
  /\ Abstract!AluOps = AluOps
  /\ Abstract!ControlOps = ControlOps
  BY DEF Abstract!Words, Words, Abstract!Numbers, Numbers, Abstract!Contexts, Contexts,
         Abstract!WordSize, WordSize, Abstract!AluOps, AluOps, Abstract!ControlOps, ControlOps

LEMMA SameNumbers ==
  ASSUME NEW n
  PROVE  /\ Abstract!Signed(n) = Signed(n)
         /\ Abstract!Unsigned(n) = Unsigned(n)
         /\ Abstract!Bits(n) = Bits(n)
         /\ Abstract!NumberOf = NumberOf
  BY DEF Abstract!Signed, Signed, Abstract!Unsigned, Unsigned, Abstract!WordSize, WordSize,
         Abstract!Bits, Bits, Abstract!NumberOf, NumberOf, Abstract!Numbers, Numbers

LEMMA SameResult ==
  ASSUME NEW op, NEW m, NEW n
  PROVE  Abstract!Result(op, m, n) = Result(op, m, n)
  BY DEF Abstract!Result, Result, Abstract!Signed, Signed, Abstract!Unsigned, Unsigned,
         Abstract!WordSize, WordSize, Abstract!Bits, Bits, Abstract!NumberOf, NumberOf,
         Abstract!Numbers, Numbers, Abstract!Quotient, Quotient, Abstract!Magnitude, Magnitude

LEMMA SameSteps ==
  ASSUME NEW c, NEW w
  PROVE  /\ Abstract!Advanced(c, w) = Advanced(c, w)
         /\ \A v : Abstract!Loaded(c, w, v) = Loaded(c, w, v)
         /\ Abstract!Calculated(c, w) = Calculated(c, w)
         /\ Abstract!Jumped(c, w) = Jumped(c, w)
         /\ Abstract!Traps(c, w) <=> Traps(c, w)
<1>1. Abstract!Advanced(c, w) = Advanced(c, w)
  BY DEF Abstract!Advanced, Advanced, Abstract!WordSize, WordSize
<1>2. \A v : Abstract!Loaded(c, w, v) = Loaded(c, w, v)
  BY <1>1, SameFields, SameNumbers DEF Abstract!Loaded, Loaded
<1>3. Abstract!Compared(c, w) = Compared(c, w)
  BY <1>1, SameFields, SameNumbers DEF Abstract!Compared, Compared
<1>4. Abstract!Calculated(c, w) = Calculated(c, w)
  BY <1>1, <1>3, SameFields, SameResult DEF Abstract!Calculated, Calculated
<1>5. Abstract!Taken(Op(w), c.cc) = Taken(Op(w), c.cc)
  BY DEF Abstract!Taken, Taken
<1>6. Abstract!Jumped(c, w) = Jumped(c, w)
  BY <1>1, <1>5, SameFields DEF Abstract!Jumped, Jumped
<1>7. Abstract!Traps(c, w) <=> Traps(c, w)
  BY SameFields DEF Abstract!Traps, Traps, Abstract!WordSize, WordSize
<1> QED
  BY <1>1, <1>2, <1>4, <1>6, <1>7
-----------------------------------------------------------------------------
(* Whose context is on a thread. *)
LEMMA OnThread ==
  ASSUME TypeOK, NEW t \in Threads
  PROVE  /\ OnThreads[t] \in Processes \cup Threads
         /\ Contextual[OnThreads[t]] = thread[t]
         /\ Abstract!Owner(OnThreads[t]) = Owner(t)
  BY LayoutFacts DEF TypeOK, OnThreads, Contextual, Owner, Abstract!Owner

LEMMA ContextStep ==
  ASSUME TypeOK, NEW t \in Threads, NEW c, thread' = [thread EXCEPT ![t] = c],
         UNCHANGED <<current_process, snapshot>>
  PROVE  Contextual' = [Contextual EXCEPT ![OnThreads[t]] = c] /\ OnThreads' = OnThreads
<1>1. OnThreads' = OnThreads
  BY DEF OnThreads
<1>2. thread' \in [Threads -> {c} \cup Contexts] /\ thread'[t] = c
      /\ \A u \in Threads \ {t} : thread'[u] = thread[u]
  BY DEF TypeOK
<1>3. \A j \in Processes \cup Threads :
        Contextual'[j] = IF j = OnThreads[t] THEN c ELSE Contextual[j]
  BY <1>2, LayoutFacts DEF TypeOK, Contextual, OnThreads
<1> DEFINE J == Processes \cup Threads
<1>4. /\ Contextual = [j \in J |-> Contextual[j]]
      /\ Contextual' = [j \in J |-> Contextual'[j]]
  BY DEF Contextual
<1>5. [Contextual EXCEPT ![OnThreads[t]] = c] =
        [j \in J |-> IF j = OnThreads[t] THEN c ELSE Contextual[j]]
  BY DEF Contextual
<1> QED
  BY <1>1, <1>3, <1>4, <1>5

(* Frames begin where a frame may begin, so that they are the same or have *)
(* no word in common.                                                      *)
LEMMA FrameAligned ==
  ASSUME NEW w \in Nat
  PROVE  \E k \in Int : FrameStart(w) = FrameWords * k
<1>1. FrameWords \in Nat \ {0}
  BY LayoutFacts
<1>2. w \div FrameWords \in Int /\ w % FrameWords \in Int
      /\ w = FrameWords * (w \div FrameWords) + (w % FrameWords)
  BY <1>1, ModFacts
<1>3. FrameWords * (w \div FrameWords) \in Int
  BY <1>1, <1>2
<1>4. FrameStart(w) = FrameWords * (w \div FrameWords)
  BY <1>2, <1>3 DEF FrameStart
<1> QED
  BY <1>2, <1>4

LEMMA MultiplesApart ==
  ASSUME NEW b \in Nat \ {0}, NEW j \in Int, NEW k \in Int,
         NEW o \in 0 .. b - 1, NEW r \in 0 .. b - 1, b * j + o = b * k + r
  PROVE  b * j = b * k /\ o = r
<1>1. b * j \in Int /\ b * k \in Int /\ j - k \in Int /\ b * (j - k) = b * j - b * k
  OBVIOUS
<1>2. b * (j - k) = r - o
  BY <1>1
<1>3. ~ (j - k >= 1) /\ ~ (k - j >= 1)
  <2>1. CASE j - k >= 1
    <3>1. b * (j - k) >= b
      BY <1>1, <2>1, MultipleFacts
    <3> QED BY <1>1, <1>2, <3>1
  <2>2. CASE k - j >= 1
    <3>1. b * (k - j) >= b /\ k - j \in Int
      BY <2>2, MultipleFacts
    <3>2. b * (k - j) = o - r
      BY <1>1, <1>2
    <3> QED BY <3>1, <3>2
  <2> QED BY <2>1, <2>2
<1>4. j = k
  BY <1>3
<1> QED
  BY <1>1, <1>2, <1>4

Places == UNION {{Frames[x][i] : i \in 0 .. Pages[x] - 1} : x \in Processes}

LEMMA PlaceFacts ==
  ASSUME LaidOut(memory), NEW f \in Places
  PROVE  /\ f \in Nat
         /\ \A o \in 0 .. FrameWords - 1 : f + o \in 0 .. MemWords - 1
         /\ \E k \in Int : f = FrameWords * k
<1>0. PICK x \in Processes : \E p \in 0 .. Pages[x] - 1 : f = Frames[x][p]
  BY DEF Places
<1>1. PICK p \in 0 .. Pages[x] - 1 : f = Frames[x][p]
  BY <1>0
<1>2. p \in Nat /\ p < Pages[x]
  BY LayoutFacts
<1>3. f \in Nat /\ \A o \in 0 .. FrameWords - 1 : f + o \in 0 .. MemWords - 1
  <2>1. Frames[x] \in [0 .. Pages[x] - 1 -> Nat] /\ Frames[x][p] + FrameWords <= MemWords
    BY LayoutAssumption
  <2> QED BY <1>1, <2>1, LayoutFacts
<1>4. f = FrameStart(memory[Table[x] + 1 + p])
  BY <1>1 DEF LaidOut
<1>5. memory[Table[x] + 1 + p] \in Nat
  <2>1. p + 1 \in 0 .. Pages[x] /\ Table[x] + 1 + p = Table[x] + (p + 1)
    BY <1>2, LayoutFacts
  <2>2. Table[x] + (p + 1) \in 0 .. MemWords - 1
    BY <2>1, TableFacts
  <2>3. Words \subseteq Nat
    BY DEF Words
  <2> QED BY <2>1, <2>2, <2>3 DEF LaidOut
<1> QED
  BY <1>3, <1>4, <1>5, FrameAligned

LEMMA PlaceOf ==
  ASSUME NEW x \in Processes, NEW va \in Nat, Page(va) < Pages[x]
  PROVE  Frames[x][Page(va)] \in Places /\ Offset(va) \in 0 .. FrameWords - 1
<1>1. Page(va) \in 0 .. Pages[x] - 1 /\ Offset(va) \in 0 .. FrameWords - 1
  BY PageFacts, LayoutFacts
<1> QED
  BY <1>1 DEF Places

LEMMA FramedWord ==
  ASSUME NEW x \in Processes, NEW va \in Nat, Page(va) < Pages[x]
  PROVE  Abstract!Word(x, va) = memory[Frames[x][Page(va)] + Offset(va)]
<1>1. Abstract!Word(x, va) = Framed[Frames[x][Page(va)]][Offset(va)]
  BY DEF Abstract!Word, Abstract!PageOf, Page, Offset
<1> QED
  BY <1>1, PlaceOf DEF Framed, Places
-----------------------------------------------------------------------------
(* What the abstract machine sees of an instruction.                       *)
LEMMA AbstractPages ==
  ASSUME NEW t, NEW x, NEW va
  PROVE  /\ Abstract!PageOf(va) = Page(va)
         /\ Abstract!Has(x, va) <=> Page(va) < Pages[x]
         /\ \A y : Abstract!SamePlace(x, y, va) <=> SameFrame(x, y, va)
         /\ Abstract!Doubtful(t, x, va) <=>
              \/ Page(va) = Pages[x]
              \/ \E y \in Processes \ {x} : <<y, Page(va)>> \in used[t] /\ ~ SameFrame(x, y, va)
  BY DEF Abstract!PageOf, Page, Abstract!Has, Abstract!Doubtful, Abstract!SamePlace, SameFrame

LEMMA AbstractDoubt ==
  ASSUME NEW t \in Threads, NEW va
  PROVE  Abstract!Doubtful(t, Owner(t), va) <=> Doubtful(t, va)
  BY AbstractPages DEF Doubtful

LEMMA FetchedWord ==
  ASSUME Inv, trusted, NEW t \in Threads, Fetches(t), ~ Doubtful(t, PC(t))
  PROVE  /\ Abstract!Word(Owner(t), PC(t)) = Fetched(t)
         /\ Abstract!Has(Owner(t), PC(t))
<1>1. Owner(t) \in Processes /\ PC(t) \in Nat
  BY ThreadTypes DEF Inv
<1> QED
  BY <1>1, FetchedRight, FramedWord, AbstractPages

LEMMA UsesAbstract ==
  ASSUME TypeOK, NEW t \in Threads, NEW vas, Uses(t, vas), trusted',
         \A va \in vas : Page(va) < Pages[Owner(t)]
  PROVE  Abstract!Uses(t, Owner(t), vas)
<1>1. /\ \A va \in vas : ~ Doubtful(t, va)
      /\ used' = [used EXCEPT ![t] = used[t] \cup {<<Owner(t), Page(va)>> : va \in vas}]
  BY UsesAdd
<1>2. {<<Owner(t), Abstract!PageOf(va)>> : va \in vas} = {<<Owner(t), Page(va)>> : va \in vas}
  BY AbstractPages
<1>3. \A va \in vas : Abstract!Has(Owner(t), va) /\ ~ Abstract!Doubtful(t, Owner(t), va)
  BY <1>1, AbstractPages, AbstractDoubt
<1> QED
  BY <1>1, <1>2, <1>3 DEF Abstract!Uses

(* The step of the abstract machine, in terms of the thread's own words.   *)
LEMMA AbstractStep ==
  ASSUME Inv, NEW t \in Threads, NEW w, Abstract!Word(Owner(t), PC(t)) = w,
         Abstract!Has(Owner(t), PC(t)),
         \/ /\ Op(w) = "LD"
            /\ Abstract!Uses(t, Owner(t), {PC(t), Address(w)})
            /\ Contextual' = [Contextual EXCEPT ![OnThreads[t]] =
                                Loaded(thread[t], w, Abstract!Word(Owner(t), Address(w)))]
            /\ UNCHANGED Framed
         \/ /\ Op(w) = "ST"
            /\ Abstract!Uses(t, Owner(t), {PC(t), Address(w)})
            /\ Contextual' = [Contextual EXCEPT ![OnThreads[t]] = Advanced(thread[t], w)]
            /\ Framed' = Abstract!Stored(Owner(t), Address(w), Unsigned(thread[t].R[Target(w)]))
         \/ /\ Op(w) \in AluOps
            /\ Abstract!Uses(t, Owner(t), {PC(t)})
            /\ ~ Traps(thread[t], w)
            /\ Contextual' = [Contextual EXCEPT ![OnThreads[t]] = Calculated(thread[t], w)]
            /\ UNCHANGED Framed
         \/ /\ Op(w) \in ControlOps
            /\ Abstract!Uses(t, Owner(t), {PC(t)})
            /\ Contextual' = [Contextual EXCEPT ![OnThreads[t]] = Jumped(thread[t], w)]
            /\ UNCHANGED Framed,
         UNCHANGED <<OnThreads, trusted, ended>>
  PROVE  Abstract!PStep(t)
<1>1. /\ Contextual[OnThreads[t]] = thread[t] /\ Abstract!Owner(OnThreads[t]) = Owner(t)
      /\ Contextual[OnThreads[t]].PC = PC(t)
  BY OnThread DEF Inv, PC
<1>2. /\ Abstract!Op(w) = Op(w) /\ Abstract!Address(w) = Address(w) /\ Abstract!Target(w) = Target(w)
      /\ Abstract!AluOps = AluOps /\ Abstract!ControlOps = ControlOps
  BY SameFields, SameSets
<1>3. /\ \A v : Abstract!Loaded(thread[t], w, v) = Loaded(thread[t], w, v)
      /\ Abstract!Advanced(thread[t], w) = Advanced(thread[t], w)
      /\ Abstract!Calculated(thread[t], w) = Calculated(thread[t], w)
      /\ Abstract!Jumped(thread[t], w) = Jumped(thread[t], w)
      /\ Abstract!Traps(thread[t], w) <=> Traps(thread[t], w)
      /\ \A n : Abstract!Unsigned(n) = Unsigned(n)
  BY SameSteps, SameNumbers
<1> QED
  BY <1>1, <1>2, <1>3 DEF Abstract!PStep

LEMMA FramedKept ==
  ASSUME memory' = memory
  PROVE  Framed' = Framed
  BY DEF Framed

(* A store changes one word of one place: frames are apart.                *)
LEMMA FramedStore ==
  ASSUME TypeOK, LaidOut(memory), NEW x \in Processes, NEW a \in Nat, Page(a) < Pages[x],
         NEW w \in Words, memory' = [memory EXCEPT ![Frames[x][Page(a)] + Offset(a)] = w]
  PROVE  Framed' = Abstract!Stored(x, a, w)
<1> DEFINE F == 0 .. FrameWords - 1
           g == Frames[x][Page(a)]
           r == Offset(a)
<1>1. g \in Places /\ r \in F
  BY PlaceOf
<1>2. ASSUME NEW f \in Places, NEW o \in F
      PROVE  memory'[f + o] = IF f = g /\ o = r THEN w ELSE memory[f + o]
  <2>1. f + o \in 0 .. MemWords - 1 /\ g + r \in 0 .. MemWords - 1
    BY <1>1, PlaceFacts
  <2>2. f + o = g + r => f = g /\ o = r
    <3>1. PICK j \in Int : f = FrameWords * j
      BY PlaceFacts
    <3>2. PICK k \in Int : g = FrameWords * k
      BY <1>1, PlaceFacts
    <3>3. FrameWords \in Nat \ {0}
      BY LayoutFacts
    <3> HIDE DEF g, r
    <3> QED BY <1>1, <3>1, <3>2, <3>3, MultiplesApart
  <2>3. memory \in [0 .. MemWords - 1 -> Words]
    BY DEF TypeOK
  <2> QED
    BY <2>1, <2>2, <2>3
<1>3. Framed' = [f \in Places |-> [o \in F |-> memory'[f + o]]]
  BY DEF Framed, Places
<1>4. Abstract!Stored(x, a, w) = [Framed EXCEPT ![g][r] = w]
  BY DEF Abstract!Stored, Abstract!PageOf, Page, Offset
<1>5. [Framed EXCEPT ![g][r] = w] =
        [f \in Places |-> [o \in F |-> IF f = g /\ o = r THEN w ELSE memory[f + o]]]
  BY <1>1 DEF Framed, Places
<1> HIDE DEF F, g, r
<1> QED
  BY <1>2, <1>3, <1>4, <1>5

LEMMA LoadRefines ==
  ASSUME Inv, NEW t \in Threads, Load(t), trusted'
  PROVE  Abstract!PStep(t)
<1>1. trusted /\ ~ Doubtful(t, PC(t)) /\ ~ Doubtful(t, Operand(t))
  BY UsesAdd DEF Load, Inv
<1>2. Fetches(t) /\ Reaches(t) /\ Op(Fetched(t)) = "LD" /\ memory' = memory
  BY DEF Load, Ready
<1>3. Abstract!Word(Owner(t), PC(t)) = Fetched(t) /\ Abstract!Has(Owner(t), PC(t))
  BY <1>1, <1>2, FetchedWord
<1>4. Owner(t) \in Processes /\ Operand(t) \in Nat /\ Page(Operand(t)) < Pages[Owner(t)]
      /\ Page(PC(t)) < Pages[Owner(t)]
      /\ Reached(t) = Frames[Owner(t)][Page(Operand(t))] + Offset(Operand(t))
  BY <1>1, <1>2, ReachedRight, FetchedRight, ThreadTypes DEF Inv
<1>5. pm_read_word(memory, Reached(t)) = Abstract!Word(Owner(t), Operand(t))
  <2>1. Reached(t) \in 0 .. MemWords - 1
    BY <1>4, PageFacts, InFrame
  <2> QED
    BY <1>4, <2>1, SmallMod, FramedWord DEF pm_read_word
<1>6. Abstract!Uses(t, Owner(t), {PC(t), Operand(t)})
  BY <1>4, UsesAbstract DEF Load, Inv
<1>7. /\ Contextual' = [Contextual EXCEPT ![OnThreads[t]] =
                          Loaded(thread[t], Fetched(t), Abstract!Word(Owner(t), Operand(t)))]
      /\ OnThreads' = OnThreads
  BY <1>5, ContextStep DEF Load, Inv
<1>8. Framed' = Framed
  BY <1>2, FramedKept
<1>9. trusted' = trusted /\ ended' = ended
  BY <1>1 DEF Load, Inv, TypeOK
<1> QED
  BY <1>2, <1>3, <1>6, <1>7, <1>8, <1>9, AbstractStep DEF Operand

LEMMA StoreRefines ==
  ASSUME Inv, NEW t \in Threads, Store(t), trusted'
  PROVE  Abstract!PStep(t)
<1>1. trusted /\ ~ Doubtful(t, PC(t)) /\ ~ Doubtful(t, Operand(t))
  BY UsesAdd DEF Store, Inv
<1>2. Fetches(t) /\ Reaches(t) /\ Op(Fetched(t)) = "ST"
  BY DEF Store, Ready
<1>3. Abstract!Word(Owner(t), PC(t)) = Fetched(t) /\ Abstract!Has(Owner(t), PC(t))
  BY <1>1, <1>2, FetchedWord
<1>4. Owner(t) \in Processes /\ Operand(t) \in Nat /\ Page(Operand(t)) < Pages[Owner(t)]
      /\ Page(PC(t)) < Pages[Owner(t)]
  BY <1>1, <1>2, ReachedRight, FetchedRight, ThreadTypes DEF Inv
<1>5. Framed' = Abstract!Stored(Owner(t), Operand(t), Unsigned(thread[t].R[Target(Fetched(t))]))
  BY <1>1, <1>4, StoreInFrame, StoredWord, FramedStore DEF Inv, Truth
<1>6. Abstract!Uses(t, Owner(t), {PC(t), Operand(t)})
  BY <1>4, UsesAbstract DEF Store, Inv
<1>7. /\ Contextual' = [Contextual EXCEPT ![OnThreads[t]] = Advanced(thread[t], Fetched(t))]
      /\ OnThreads' = OnThreads
  BY ContextStep DEF Store, Inv
<1>8. trusted' = trusted /\ ended' = ended
  BY <1>1 DEF Store, Inv, TypeOK
<1> QED
  BY <1>2, <1>3, <1>5, <1>6, <1>7, <1>8, AbstractStep DEF Operand

LEMMA InnerRefines ==
  ASSUME Inv, NEW t \in Threads, Calculate(t) \/ Jump(t), trusted'
  PROVE  Abstract!PStep(t)
<1>1. Uses(t, {PC(t)})
  BY DEF Calculate, Jump
<1>2. trusted /\ ~ Doubtful(t, PC(t))
  BY <1>1, UsesAdd DEF Inv
<1>3. Fetches(t) /\ memory' = memory /\ ended' = ended /\ UNCHANGED <<snapshot, current_process>>
  BY DEF Calculate, Jump, Ready
<1>4. Abstract!Word(Owner(t), PC(t)) = Fetched(t) /\ Abstract!Has(Owner(t), PC(t))
  BY <1>2, <1>3, FetchedWord
<1>5. Page(PC(t)) < Pages[Owner(t)]
  BY <1>2, <1>3, FetchedRight
<1>6. Abstract!Uses(t, Owner(t), {PC(t)})
  BY <1>1, <1>5, UsesAbstract DEF Inv
<1>7. Framed' = Framed /\ trusted' = trusted /\ OnThreads' = OnThreads
  BY <1>2, <1>3, FramedKept DEF OnThreads, Inv, TypeOK
<1>8. CASE Calculate(t)
  <2>1. Contextual' = [Contextual EXCEPT ![OnThreads[t]] = Calculated(thread[t], Fetched(t))]
    BY <1>3, <1>8, ContextStep DEF Calculate, Inv
  <2>2. Op(Fetched(t)) \in AluOps /\ ~ Traps(thread[t], Fetched(t))
    BY <1>8 DEF Calculate, Ready
  <2> QED
    BY <1>3, <1>4, <1>6, <1>7, <2>1, <2>2, AbstractStep
<1>9. CASE Jump(t)
  <2>1. Contextual' = [Contextual EXCEPT ![OnThreads[t]] = Jumped(thread[t], Fetched(t))]
    BY <1>3, <1>9, ContextStep DEF Jump, Inv
  <2>2. Op(Fetched(t)) \in ControlOps
    BY <1>9 DEF Jump, Ready
  <2> QED
    BY <1>3, <1>4, <1>6, <1>7, <2>1, <2>2, AbstractStep
<1> QED
  BY <1>8, <1>9

(* The MMU ends the program only for a page that is behind the table.      *)
LEMMA RefusedRight ==
  ASSUME NEW mem, LaidOut(mem), NEW tl, NEW x \in Processes, NEW va,
         ~ Resolves(mem, tl, Table[x], va)
  PROVE  Page(va) > Pages[x]
<1>1. Table[x] \in 0 .. MemWords - 1
  BY TableFacts, LayoutFacts
<1>2. pm_read_word(mem, Table[x]) = Pages[x]
  BY <1>1, SmallMod DEF pm_read_word, LaidOut
<1> QED
  BY <1>2 DEF Resolves, Refused

LEMMA FaultRefines ==
  ASSUME Inv, NEW t \in Threads, Fault(t), trusted'
  PROVE  Abstract!PFault(t)
<1>1. trusted /\ LaidOut(memory) /\ PTBR[t] = Table[Owner(t)] /\ Owner(t) \in Processes
  BY ThreadTypes DEF Fault, Turn, Runs, Inv, Truth, OwnTables
<1>2. /\ Contextual[OnThreads[t]] = thread[t] /\ Abstract!Owner(OnThreads[t]) = Owner(t)
      /\ Contextual[OnThreads[t]].PC = PC(t)
  BY OnThread DEF Inv, PC
<1>3. ended' = TRUE /\ UNCHANGED <<Contextual, Framed, OnThreads, used, trusted>>
  BY <1>1 DEF Fault, Contextual, Framed, OnThreads, Inv, TypeOK
<1>4. CASE ~ Fetches(t)
  <2>1. Page(PC(t)) > Pages[Owner(t)]
    BY <1>1, <1>4, RefusedRight DEF Fetches
  <2> QED
    BY <1>2, <1>3, <2>1, AbstractPages DEF Abstract!PFault
<1>5. CASE Ready(t, {"LD", "ST"}) /\ ~ Reaches(t) /\ Trusts(t, {PC(t), Operand(t)})
  <2>1. ~ Doubtful(t, PC(t)) /\ Fetches(t) /\ Op(Fetched(t)) \in {"LD", "ST"}
    BY <1>5 DEF Trusts, Ready, Inv, TypeOK
  <2>2. Abstract!Word(Owner(t), PC(t)) = Fetched(t) /\ Abstract!Has(Owner(t), PC(t))
    BY <1>1, <2>1, FetchedWord
  <2>3. Page(Operand(t)) > Pages[Owner(t)]
    BY <1>1, <1>5, RefusedRight DEF Reaches
  <2> QED
    BY <1>2, <1>3, <2>1, <2>2, <2>3, AbstractPages, SameFields DEF Abstract!PFault, Operand
<1>6. CASE Ready(t, {"DIV"}) /\ Traps(thread[t], Fetched(t)) /\ Trusts(t, {PC(t)})
  <2>1. ~ Doubtful(t, PC(t)) /\ Fetches(t)
    BY <1>6 DEF Trusts, Ready, Inv, TypeOK
  <2>2. Abstract!Word(Owner(t), PC(t)) = Fetched(t) /\ Abstract!Has(Owner(t), PC(t))
    BY <1>1, <2>1, FetchedWord
  <2> QED
    BY <1>2, <1>3, <1>6, <2>2, SameSteps DEF Abstract!PFault
<1> QED
  BY <1>4, <1>5, <1>6 DEF Fault

(* Trust is lost where the abstract machine loses it. *)
LEMMA DistrustRefines ==
  ASSUME Inv, NEW t \in Threads, Execute(t), ~ trusted'
  PROVE  Abstract!Distrust(t)
<1>1. trusted
  BY DEF Execute, Load, Store, Calculate, Jump, Fault, Ready, Turn, Runs
<1>2. trusted' = FALSE
  BY DEF Execute, Load, Store, Calculate, Jump, Fault, Uses, Trusts, Inv, TypeOK
<1>3. /\ Contextual[OnThreads[t]] = thread[t] /\ Abstract!Owner(OnThreads[t]) = Owner(t)
      /\ Contextual[OnThreads[t]].PC = PC(t)
  BY OnThread DEF Inv, PC
<1>4. \/ Doubtful(t, PC(t))
      \/ Fetches(t) /\ Op(Fetched(t)) \in {"LD", "ST"} /\ Doubtful(t, Operand(t))
  BY <1>1 DEF Execute, Load, Store, Calculate, Jump, Fault, Uses, Trusts, Ready
<1>5. CASE Doubtful(t, PC(t))
  BY <1>2, <1>3, <1>5, AbstractDoubt DEF Abstract!Distrust
<1>6. CASE ~ Doubtful(t, PC(t))
  <2>1. Abstract!Word(Owner(t), PC(t)) = Fetched(t) /\ Abstract!Has(Owner(t), PC(t))
    BY <1>1, <1>4, <1>6, FetchedWord
  <2> QED
    BY <1>2, <1>3, <1>4, <1>6, <2>1, AbstractDoubt, SameFields DEF Abstract!Distrust, Operand
<1> QED
  BY <1>5, <1>6

(* A dispatch saves a context and loads another.                           *)
LEMMA DispatchRefines ==
  ASSUME Inv, NEW x \in Processes, Dispatch(x)
  PROVE  Abstract!PSwitch(0, x)
<1>1. /\ 0 \in Threads /\ 0 \notin Processes /\ x # Null /\ Null \notin Processes
      /\ \A u \in Threads : u \notin Processes /\ u # Null
  BY LayoutFacts
<1>2. /\ thread \in [Threads -> Contexts] /\ snapshot \in [Processes -> Contexts]
      /\ current_process \in Processes \cup {Null}
  BY DEF Inv, TypeOK
<1>3. /\ thread' = [thread EXCEPT ![0] = Unloaded[x]] /\ snapshot' = Unloaded
      /\ current_process' = x
      /\ UNCHANGED <<memory, used, trusted, ended>>
  BY DEF Dispatch, history
<1>4. OnThreads' = [OnThreads EXCEPT ![0] = x]
  BY <1>1, <1>3 DEF OnThreads
<1> DEFINE J == Processes \cup Threads
<1>5. Contextual = [j \in J |-> Contextual[j]] /\ Contextual' = [j \in J |-> Contextual'[j]]
  BY DEF Contextual
<1>6. CASE current_process = Null
  <2>1. OnThreads[0] = 0
    BY <1>1, <1>6 DEF OnThreads
  <2>2. \A j \in J : Contextual'[j] = IF j = 0 THEN Gone ELSE Contextual[j]
    BY <1>1, <1>2, <1>3, <1>6 DEF Contextual, Unloaded
  <2>3. [Contextual EXCEPT ![0] = Gone] = [j \in J |-> IF j = 0 THEN Gone ELSE Contextual[j]]
    BY DEF Contextual
  <2>4. Contextual' = [Contextual EXCEPT ![OnThreads[0]] = Gone]
    BY <1>5, <2>1, <2>2, <2>3
  <2> QED
    BY <1>1, <1>3, <1>4, <2>1, <2>4, FramedKept DEF Abstract!PSwitch
<1>7. CASE current_process # Null
  <2>1. OnThreads[0] = current_process /\ current_process \in Processes
    BY <1>1, <1>2, <1>7 DEF OnThreads
  <2>2. \A j \in J : Contextual'[j] = Contextual[j]
    BY <1>1, <1>2, <1>3, <1>7 DEF Contextual, Unloaded
  <2>3. Contextual' = Contextual /\ OnThreads[0] \notin Threads
    BY <1>1, <1>5, <2>1, <2>2
  <2> QED
    BY <1>3, <1>4, <2>3, FramedKept DEF Abstract!PSwitch
<1> QED
  BY <1>6, <1>7

LEMMA InitRefines == Init => Abstract!PInit
<1> SUFFICES ASSUME Init PROVE Abstract!PInit
  OBVIOUS
<1>1. TypeOK
  BY InitTypes
<1>2. Framed \in [Places -> [0 .. FrameWords - 1 -> Words]]
  <2>1. LaidOut(memory)
    BY LayoutAssumption DEF Init
  <2>2. \A f \in Places, o \in 0 .. FrameWords - 1 : memory[f + o] \in Words
    BY <1>1, <2>1, PlaceFacts DEF TypeOK
  <2> QED
    BY <2>2 DEF Framed, Places
<1>3. \A j \in Processes \cup Threads : Contextual[j] \in Contexts
  BY <1>1, LayoutFacts DEF Init, Contextual, TypeOK
<1>4. OnThreads = [t \in Threads |-> t]
  BY DEF Init, OnThreads
<1> QED
  BY <1>2, <1>3, <1>4, SameSets DEF Abstract!PInit, Init, Places, Abstract!Places

LEMMA NextRefines == Inv /\ [Next]_vars => [Abstract!PNext]_(Abstract!pvars)
<1> SUFFICES ASSUME Inv, [Next]_vars PROVE [Abstract!PNext]_(Abstract!pvars)
  OBVIOUS
<1>1. CASE UNCHANGED vars
  BY <1>1 DEF vars, history, Abstract!pvars, Contextual, Framed, OnThreads
<1>2. ASSUME NEW t \in Threads, Execute(t) PROVE Abstract!PNext
  <2>1. trusted /\ ~ ended
    BY <1>2 DEF Execute, Load, Store, Calculate, Jump, Fault, Ready, Turn, Runs
  <2>2. CASE trusted'
    BY <1>2, <2>1, <2>2, LoadRefines, StoreRefines, InnerRefines, FaultRefines
       DEF Execute, Abstract!PNext
  <2>3. CASE ~ trusted'
    BY <1>2, <2>1, <2>3, DistrustRefines DEF Abstract!PNext
  <2> QED
    BY <2>2, <2>3
<1>3. ASSUME NEW x \in Processes, Dispatch(x) PROVE Abstract!PNext
  <2>1. trusted /\ ~ ended /\ 0 \in Threads
    BY <1>3, LayoutFacts DEF Dispatch, Runs
  <2> QED
    BY <1>3, <2>1, DispatchRefines DEF Abstract!PNext
<1> QED
  BY <1>1, <1>2, <1>3 DEF Next

(* Every process computes as on a machine that knows where its pages lie,  *)
(* whatever the other processes and threads do (executor_s.c, memory_s.c   *)
(* and the dispatcher of scheduler.c), until trust is lost; and only an    *)
(* instruction of its own that names no page of its table, or traps, ends  *)
(* the program.                                                            *)
THEOREM MachineImplementsPagedMachine == Spec => ImplementsPagedMachine
<1>1. Spec => []Inv
  BY MachineInvariant
<1> QED
  BY <1>1, InitRefines, NextRefines, PTL DEF Spec, ImplementsPagedMachine, Abstract!PSpec
=============================================================================
