---------------------------- MODULE MCLinkedList ----------------------------
(***************************************************************************)
(* Instances of LinkedListChain for TLC.                                   *)
(***************************************************************************)
EXTENDS LinkedListChain

CONSTANTS a, b

(* Match functions that accept one item, either or none. *)
ListPatterns == {{a}, {b}, {}}
=============================================================================
