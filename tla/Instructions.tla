----------------------------- MODULE Instructions -----------------------------
(***************************************************************************)
(* The instructions of src/executor_s.c: what each of them makes of a      *)
(* context - PC, IR, registers and cc - when the words it reads are given. *)
(*                                                                         *)
(* From its top, a word holds the operation in 4 bits, a register and an   *)
(* address; the operations on registers find two more registers at the top *)
(* of the address.  Registers and cc are signed and wrap, as the build's.  *)
(***************************************************************************)
EXTENDS Integers

CONSTANTS
  Width,            \* bits of a word
  Registers,        \* CPU_REGISTERS
  AddressSize       \* how many addresses an instruction can name

WordSize == 16 * Registers * AddressSize

ASSUME InstructionsAssumption ==
  /\ {Width, Registers, AddressSize} \subseteq Nat \ {0}
  /\ WordSize = 2 ^ Width
  /\ AddressSize % (Registers * Registers) = 0

Words == 0 .. WordSize - 1
Numbers == -(WordSize \div 2) .. WordSize \div 2 - 1

(* A number in a register as the word it is stored as, and back. *)
Unsigned(n) == n % WordSize
Signed(n) == ((n + WordSize \div 2) % WordSize) - WordSize \div 2

OpCodes == << "LD", "ST", "ADD", "SUB", "MUL", "DIV", "AND", "OR",
              "XOR", "MOV", "CMP", "B", "BEQ", "BGT", "BLT", "EXIT" >>

(* get_nibble_range, as the executor calls it. *)
Op(w) == OpCodes[((w \div (Registers * AddressSize)) % 16) + 1]
Target(w) == (w \div AddressSize) % Registers
Address(w) == w % AddressSize
Source1(w) == (w \div (AddressSize \div Registers)) % Registers
Source2(w) == (w \div (AddressSize \div (Registers * Registers))) % Registers
-----------------------------------------------------------------------------
Bits(n) == {i \in 0 .. Width - 1 : (Unsigned(n) \div 2 ^ i) % 2 = 1}

(* Every pattern of bits is a number. *)
ASSUME BitsAssumption == \A B \in SUBSET (0 .. Width - 1) : \E n \in Numbers : Bits(n) = B

NumberOf == [B \in SUBSET (0 .. Width - 1) |-> CHOOSE n \in Numbers : Bits(n) = B]

Magnitude(n) == IF n < 0 THEN -n ELSE n

(* C's division drops the fraction. *)
Quotient(m, n) ==
  LET ratio == Magnitude(m) \div Magnitude(n) IN IF (m < 0) = (n < 0) THEN ratio ELSE -ratio

Result(op, m, n) ==
  CASE op = "ADD" -> Signed(m + n)
    [] op = "SUB" -> Signed(m - n)
    [] op = "MUL" -> Signed(m * n)
    [] op = "DIV" -> Quotient(m, n)
    [] op = "AND" -> NumberOf[Bits(m) \cap Bits(n)]
    [] op = "OR"  -> NumberOf[Bits(m) \cup Bits(n)]
    [] op = "XOR" -> NumberOf[(Bits(m) \cup Bits(n)) \ (Bits(m) \cap Bits(n))]
    [] op = "MOV" -> m

(* The quotients that the processor has no number for end the program. *)
Traps(c, w) ==
  LET m == c.R[Source1(w)]  n == c.R[Source2(w)] IN
  Op(w) = "DIV" /\ (n = 0 \/ (m = -(WordSize \div 2) /\ n = -1))
-----------------------------------------------------------------------------
Contexts == [PC : Words, IR : Words, R : [0 .. Registers - 1 -> Numbers], cc : Numbers]

(* cpu_snapshot_init, and thread_t_init for the fields of a context. *)
FreshContext(at) == [PC |-> at, IR |-> 0, R |-> [r \in 0 .. Registers - 1 |-> 0], cc |-> 0]

Advanced(c, w) == [c EXCEPT !.PC = (@ + 1) % WordSize, !.IR = w]

(* __ex_LD, when v is the word that was read. *)
Loaded(c, w, v) == [Advanced(c, w) EXCEPT !.R[Target(w)] = Signed(v)]

(* __ex_cmp *)
Compared(c, w) == [Advanced(c, w) EXCEPT !.cc = Signed(c.R[Source1(w)] - c.R[Source2(w)])]

(* __ex_ALU *)
Calculated(c, w) ==
  IF Op(w) = "CMP" THEN Compared(c, w)
  ELSE [Advanced(c, w) EXCEPT !.R[Target(w)] =
          Result(Op(w), c.R[Source1(w)], c.R[Source2(w)])]

Taken(op, cc) ==
  CASE op = "BEQ" -> cc = 0
    [] op = "BGT" -> cc > 0
    [] op = "BLT" -> cc < 0
    [] op \in {"B", "EXIT"} -> TRUE

(* __ex_CU, with the step to the next instruction that precedes it. *)
Jumped(c, w) ==
  IF Taken(Op(w), c.cc) THEN [c EXCEPT !.PC = Address(w), !.IR = w] ELSE Advanced(c, w)

AluOps == {"ADD", "SUB", "MUL", "DIV", "AND", "OR", "XOR", "MOV", "CMP"}
ControlOps == {"B", "BEQ", "BGT", "BLT", "EXIT"}
=============================================================================
