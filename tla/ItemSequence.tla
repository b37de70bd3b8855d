---------------------------- MODULE ItemSequence ----------------------------
(***************************************************************************)
(* What linkedlist.c promises its users, without nodes or pointers: a      *)
(* sequence that grows and shrinks at its end, and that gives up the       *)
(* oldest item a match function accepts.                                   *)
(***************************************************************************)
EXTENDS Sequences, Naturals

CONSTANTS Items,         \* what a list can hold
          Patterns,      \* the sets of items that match functions accept
          Nothing,       \* the NULL that a call without an item returns
          Narrow(_)      \* what is left of an item that was returned as an int

VARIABLES items,         \* the items in the list, the oldest first
          returned       \* what the last call that returns an item returned

vars == <<items, returned>>

Init == items = <<>> /\ returned = Nothing

Push(d) ==
  /\ items' = Append(items, d)
  /\ UNCHANGED returned

Pop ==
  \/ /\ items = <<>>
     /\ returned' = Nothing
     /\ UNCHANGED items
  \/ /\ items # <<>>
     /\ returned' = items[Len(items)]
     /\ items' = SubSeq(items, 1, Len(items) - 1)

FirstMatch(m, i) == items[i] \in m /\ \A j \in 1 .. i - 1 : items[j] \notin m

PeekMatch(m) == \E i \in DOMAIN items :
  /\ FirstMatch(m, i)
  /\ returned' = items[i]
  /\ UNCHANGED items

PopMatch(m) == \E i \in DOMAIN items :
  /\ FirstMatch(m, i)
  /\ returned' = Narrow(items[i])
  /\ items' = [j \in 1 .. Len(items) - 1 |-> IF j < i THEN items[j] ELSE items[j + 1]]

NoMatch(m) ==
  /\ \A i \in DOMAIN items : items[i] \notin m
  /\ returned' = Nothing
  /\ UNCHANGED items

Next ==
  \/ \E d \in Items : Push(d)
  \/ Pop
  \/ \E m \in Patterns : PeekMatch(m) \/ PopMatch(m) \/ NoMatch(m)

Spec == Init /\ [][Next]_vars
=============================================================================
