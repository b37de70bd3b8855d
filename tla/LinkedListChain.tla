-------------------------- MODULE LinkedListChain --------------------------
(***************************************************************************)
(* The list of LinkedList as a sequence.  A history variable records the   *)
(* nodes in the order in which the calls put them in, and relates the      *)
(* pointers to the abstract list of ItemSequence.                          *)
(***************************************************************************)
EXTENDS LinkedList, Sequences

VARIABLE chain    \* the nodes in the list, the oldest first

cvars == <<vars, chain>>

CInit == Init /\ chain = <<>>

Without(s, x) ==
  LET i == CHOOSE k \in DOMAIN s : s[k] = x
  IN  [j \in 1 .. Len(s) - 1 |-> IF j < i THEN s[j] ELSE s[j + 1]]

CNext ==
  \/ \E n \in Nodes, d \in Data : Push(n, d) /\ chain' = Append(chain, n)
  \/ Pop /\ chain' = SubSeq(chain, 1, Len(chain) - 1)
  \/ Unlink /\ chain' = Without(chain, scan.cur)
  \/ /\ \/ PopNothing
        \/ \E call \in {"pop", "peek"}, match \in Patterns : SearchBegin(call, match)
        \/ SearchNext \/ SearchFail \/ PeekFound
        \/ GoWrong
     /\ UNCHANGED chain

CSpec == CInit /\ [][CNext]_cvars
CFairSpec == CSpec /\ WF_cvars(CNext /\ (SearchStep \/ GoWrong))
-----------------------------------------------------------------------------
(* The pointers are those of a doubly linked list of the nodes in chain,   *)
(* and these are all the nodes that are allocated: none is leaked.         *)
Linked ==
  /\ length = Len(chain)
  /\ live = {chain[i] : i \in 1 .. length}
  /\ \A i, j \in 1 .. length : chain[i] = chain[j] => i = j
  /\ first = IF length = 0 THEN Null ELSE chain[1]
  /\ last = IF length = 0 THEN Null ELSE chain[length]
  /\ \A i \in 1 .. length :
       /\ next[chain[i]] = IF i = length THEN Null ELSE chain[i + 1]
       /\ prev[chain[i]] = IF i = 1 THEN Null ELSE chain[i - 1]

(* The list implements a sequence of items: a stack for pop, the oldest    *)
(* match for a search.                                                     *)
Abstract == INSTANCE ItemSequence WITH
  Items <- Data, Nothing <- Null, items <- [i \in 1 .. Len(chain) |-> data[chain[i]]]

ImplementsSequence == Abstract!Spec
=============================================================================
