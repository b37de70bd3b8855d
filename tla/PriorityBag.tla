----------------------------- MODULE PriorityBag -----------------------------
(***************************************************************************)
(* What the priority run queue promises, without arrays or lists: the pcbs *)
(* that wait, and calls that give up, or show, one of the most urgent.     *)
(***************************************************************************)
EXTENDS Integers

CONSTANTS Pcbs, Null, Level(_)    \* a lower level is more urgent

VARIABLES waiting, returned

vars == <<waiting, returned>>

Init == waiting = {} /\ returned = Null

Urgent == {x \in waiting : \A y \in waiting : Level(x) <= Level(y)}

In(x) ==
  /\ x \notin waiting
  /\ waiting' = waiting \cup {x}
  /\ UNCHANGED returned

Out == \E x \in Urgent : returned' = x /\ waiting' = waiting \ {x}

Peek == \E x \in Urgent : returned' = x /\ UNCHANGED waiting

NoneWaits ==
  /\ waiting = {}
  /\ returned' = Null
  /\ UNCHANGED waiting

Next == (\E x \in Pcbs : In(x)) \/ Out \/ Peek \/ NoneWaits

Spec == Init /\ [][Next]_vars
=============================================================================
