-------------------------- MODULE MCPhysicalMemory --------------------------
(***************************************************************************)
(* PhysicalMemory for TLC, and faults of the code that its properties have *)
(* to notice.                                                              *)
(***************************************************************************)
EXTENDS PhysicalMemory
=============================================================================
