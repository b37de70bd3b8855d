----------------------------- MODULE LinkedList -----------------------------
(***************************************************************************)
(* The doubly linked list of src/linkedlist.c, node by node.  Calls do not *)
(* interleave; a search, whose loop follows next from node to node, takes  *)
(* a step for each node.  A call goes wrong when it follows a pointer that *)
(* is NULL or whose node was freed: nothing is said of what comes then.    *)
(***************************************************************************)
EXTENDS Integers, FiniteSets

CONSTANTS
  Nodes,       \* the addresses malloc can return; bound: Push needs a free one
  Null,        \* the null pointer
  Data,        \* the data pointers the callers push
  Low,         \* those whose value fits in an int
  Mangled,     \* what remains of another one when it is cast to an int
  Patterns     \* the sets of data that the callers' match functions accept

ASSUME ListAssumption ==
  /\ IsFiniteSet(Nodes)
  /\ Data # {}
  /\ Null \notin Nodes \cup Data
  /\ Mangled \notin Data \cup {Null}
  /\ Low \subseteq Data
  /\ Patterns \subseteq SUBSET Data

VARIABLES
  first, last, length,    \* struct linkedlist_structure
  next, prev, data,       \* struct linkedlist_node, at each address
  live,                   \* the addresses that are allocated
  scan,                   \* the search in progress
  returned,               \* what the last call that returns data returned
  wrong                   \* an invalid pointer has been followed

listVars == <<first, last, length>>
nodeVars == <<next, prev, data>>
vars == <<listVars, nodeVars, live, scan, returned, wrong>>

NoScan == [call |-> "none"]

(* linkedlist_init; what an address holds before malloc does not matter. *)
Init ==
  /\ first = Null
  /\ last = Null
  /\ length = 0
  /\ next = [n \in Nodes |-> Null]
  /\ prev = [n \in Nodes |-> Null]
  /\ data = [n \in Nodes |-> CHOOSE d \in Data : TRUE]
  /\ live = {}
  /\ scan = NoScan
  /\ returned = Null
  /\ wrong = FALSE

Ready == scan = NoScan /\ ~wrong

(* p->field = v in the code that is skipped when p is NULL. *)
Put(field, p, v) == IF p = Null THEN field ELSE [field EXCEPT ![p] = v]
-----------------------------------------------------------------------------
(* A definition marked "Fault" is a plausible slip in the one after it:    *)
(* Next does not use it; it shows that a property notices the slip.        *)

(* Fault: the new node does not point back. *)
NoBack == Null

(* The node a new one is linked to. *)
Back == IF length = 0 THEN Null ELSE last

(* Fault: the new node's next pointer is what malloc left there. *)
LinkageOpen(n) == Put(next, Back, n)

Linkage(n) == [Put(next, Back, n) EXCEPT ![n] = Null]

(* linkedlist_push; n is what malloc returns. *)
Push(n, d) ==
  /\ Ready
  /\ n \notin live
  /\ length # 0 => last \in live
  /\ live' = live \cup {n}
  /\ data' = [data EXCEPT ![n] = d]
  /\ next' = Linkage(n)
  /\ prev' = [prev EXCEPT ![n] = Back]
  /\ first' = IF length = 0 THEN n ELSE first
  /\ last' = n
  /\ length' = length + 1
  /\ UNCHANGED <<scan, returned, wrong>>

PopNothing ==
  /\ Ready
  /\ length = 0
  /\ returned' = Null
  /\ UNCHANGED <<listVars, nodeVars, live, scan, wrong>>

(* Fault: the node itself is returned.  Fault: the first node's data is. *)
TakenNode(n) == n
TakenFirst(n) == data[first]

Taken(n) == data[n]

FirstLeft == IF length = 1 THEN Null ELSE first
NewLast == IF length = 1 THEN Null ELSE prev[last]

(* linkedlist_pop. *)
Pop ==
  /\ Ready
  /\ length # 0
  /\ last \in live
  /\ length # 1 => prev[last] \in live
  /\ returned' = Taken(last)
  /\ first' = FirstLeft
  /\ last' = NewLast
  /\ next' = Put(next, NewLast, Null)
  /\ live' = live \ {last}
  /\ length' = length - 1
  /\ UNCHANGED <<prev, data, scan, wrong>>
-----------------------------------------------------------------------------
(* linkedlist_pop_first_match_from_rear and                                *)
(* linkedlist_peek_first_match_from_rear, by way of __search_procedure.    *)

SearchBegin(call, match) ==
  /\ Ready
  /\ scan' = [call |-> call, match |-> match, prev |-> Null, cur |-> first]
  /\ UNCHANGED <<listVars, nodeVars, live, returned, wrong>>

Searching == scan # NoScan /\ ~wrong
Found(call) ==
  Searching /\ scan.cur \in live /\ data[scan.cur] \in scan.match /\ scan.call = call

SearchNext ==
  /\ Searching
  /\ scan.cur \in live
  /\ data[scan.cur] \notin scan.match
  /\ scan' = [scan EXCEPT !.prev = scan.cur, !.cur = next[scan.cur]]
  /\ UNCHANGED <<listVars, nodeVars, live, returned, wrong>>

SearchFail ==
  /\ Searching
  /\ scan.cur = Null
  /\ returned' = Null
  /\ scan' = NoScan
  /\ UNCHANGED <<listVars, nodeVars, live, wrong>>

PeekFound ==
  /\ Found("peek")
  /\ returned' = data[scan.cur]
  /\ scan' = NoScan
  /\ UNCHANGED <<listVars, nodeVars, live, wrong>>

(* Fault: the next node points back as it did. *)
BackKept == prev

After == next[scan.cur]
LastLeft == IF After = Null THEN scan.prev ELSE last
BackLeft == Put(prev, After, scan.prev)

(* The node's data is returned as an int. *)
Narrow(d) == IF d \in Low THEN d ELSE Mangled

(* __unlink_procedure_of_current. *)
Unlink ==
  /\ Found("pop")
  /\ After \in live \cup {Null}
  /\ first' = IF scan.prev = Null THEN After ELSE first
  /\ last' = LastLeft
  /\ next' = Put(next, scan.prev, After)
  /\ prev' = BackLeft
  /\ live' = live \ {scan.cur}
  /\ length' = length - 1
  /\ returned' = Narrow(data[scan.cur])
  /\ scan' = NoScan
  /\ UNCHANGED <<data, wrong>>

SearchStep == SearchNext \/ SearchFail \/ PeekFound \/ Unlink
-----------------------------------------------------------------------------
(* The pointers that a call follows although they are not valid.           *)
Misused ==
  \/ Ready /\ length # 0 /\ last \notin live
  \/ Ready /\ length \notin {0, 1} /\ last \in live /\ prev[last] \notin live
  \/ Searching /\ scan.cur \notin live \cup {Null}
  \/ Found("pop") /\ After \notin live \cup {Null}

GoWrong ==
  /\ Misused
  /\ wrong' = TRUE
  /\ UNCHANGED <<listVars, nodeVars, live, scan, returned>>

Next ==
  \/ \E n \in Nodes, d \in Data : Push(n, d)
  \/ PopNothing \/ Pop
  \/ \E call \in {"pop", "peek"}, match \in Patterns : SearchBegin(call, match)
  \/ SearchStep
  \/ GoWrong

Spec == Init /\ [][Next]_vars

(* A search that has begun runs on. *)
FairSpec == Spec /\ WF_vars(SearchStep \/ GoWrong)
-----------------------------------------------------------------------------
Pointers == Nodes \cup {Null}

TypeOK ==
  /\ first \in Pointers
  /\ last \in Pointers
  /\ length \in Int
  /\ next \in [Nodes -> Pointers]
  /\ prev \in [Nodes -> Pointers]
  /\ data \in [Nodes -> Data]
  /\ live \subseteq Nodes
  /\ scan \in {NoScan} \cup [call : {"pop", "peek"}, match : Patterns,
                             prev : Pointers, cur : Pointers]
  /\ returned \in Data \cup {Null, Mangled}
  /\ wrong \in BOOLEAN

(* A list that is never sorted never follows a NULL pointer, or a pointer  *)
(* to a node it has freed, whatever the order of pushes, pops and searches. *)
NeverWrong == ~wrong

(* A search comes to its end: the next pointers form no cycle. *)
SearchEnds == scan # NoScan ~> scan = NoScan \/ wrong
=============================================================================
