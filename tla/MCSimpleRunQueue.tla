-------------------------- MODULE MCSimpleRunQueue --------------------------
(***************************************************************************)
(* Instances of SimpleRunQueue for TLC.                                  *)
(***************************************************************************)
EXTENDS SimpleRunQueue

CONSTANTS p1, p2, p3, p4
=============================================================================
