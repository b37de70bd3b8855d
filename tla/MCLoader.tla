------------------------------- MODULE MCLoader -------------------------------
(***************************************************************************)
(* Instances of Loader for TLC.                                            *)
(***************************************************************************)
EXTENDS Loader

CONSTANTS f1, f2, f3, f4

(* strcmp on the paths. *)
FileKey == [f \in Data |-> CASE f = f1 -> 1 [] f = f2 -> 2 [] f = f3 -> 3 [] OTHER -> 4]

(* What memory_s.c would answer, the first address of each zone, and other *)
(* page tables and frames.                                                 *)
Grant(table, frames) == [table |-> table, frames |-> frames]
MCGrants == {Grant(0, <<6>>), Grant(3, <<9>>), Grant(0, <<6, 6>>)}

(* Programs of one frame, of which one has a bad line, and one of two      *)
(* frames.  Line 65 of the first leads elsewhere if it is taken for the    *)
(* entry of a page table.                                                  *)
MCContents ==
  {Gone, Short, Program(<<61, 65, 67>>), Program(<<71, Bad>>), Program(<<81, 82, 83, 84>>)}

MCHeaders == [code |-> 3, data |-> 7]
=============================================================================
