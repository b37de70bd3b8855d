------------------------------ MODULE MCMachine ------------------------------
(***************************************************************************)
(* An instance of Machine for TLC: words of 8 bits - an operation, one of  *)
(* two registers, an address of 3 bits -, frames of two words, and two     *)
(* pages for each process.  The null process and p have the same page      *)
(* table, as the loader has it; q has a table of its own, with its first   *)
(* page in the frame of theirs and its second page elsewhere.              *)
(***************************************************************************)
EXTENDS Machine, Sequences, TLC

CONSTANTS p, q

Code(op) == (CHOOSE i \in DOMAIN OpCodes : OpCodes[i] = op) - 1
At(op, r, a) == Code(op) * 16 + r * 8 + a
On(op, r, r1, r2) == At(op, r, 4 * r1 + 2 * r2)

MCPages == [x \in Processes |-> 2]
MCTable == [x \in Processes |-> IF x = q THEN 3 ELSE 0]
MCFrames == [x \in Processes |-> 0 :> 6 @@ 1 :> (IF x = q THEN 8 ELSE 10)]

(* The words at the addresses 0 and 1 of a program, and at 2 and 3.  Words *)
(* of instructions are numbers as well: those from LD to OR are positive.  *)
FirstPages ==
  { <<On("ADD", 0, 0, 1), At("B", 0, 0)>>,
    <<At("LD", 1, 1), On("XOR", 0, 0, 1)>>,
    <<At("ST", 0, 1), At("LD", 0, 3)>>,
    <<On("OR", 0, 0, 1), At("ST", 0, 4)>> }
SecondPages ==
  { <<At("LD", 1, 3), On("MUL", 0, 0, 1)>>,
    <<On("CMP", 0, 0, 1), At("BLT", 0, 2)>>,
    <<On("DIV", 1, 0, 1), At("EXIT", 0, 2)>>,
    <<At("ST", 1, 3), On("SUB", 1, 1, 0)>>,
    <<On("AND", 1, 0, 1), At("LD", 0, 6)>> }

MCImages ==
  { [a \in 0 .. 11 |-> (<<2, 6, 10>> \o <<2, 6, 8>> \o f \o s \o t)[a + 1]] :
      f \in FirstPages, s, t \in SecondPages }

MCCodes == { [x \in Processes |-> CASE x = p -> i [] x = q -> j [] OTHER -> 0] : i, j \in {0, 2} }
=============================================================================
