--------------------------- MODULE MCPrioRunQueue ---------------------------
(***************************************************************************)
(* Instances of PrioRunQueue for TLC.                                      *)
(***************************************************************************)
EXTENDS PrioRunQueue

CONSTANTS p1, p2, p3, p4

(* Two equal priorities, and one beyond the last list. *)
PrioritiesBeyond == [x \in Pcbs |-> CASE x = p1 -> 0 [] x = p4 -> 3 [] OTHER -> 1]
=============================================================================
