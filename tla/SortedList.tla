----------------------------- MODULE SortedList -----------------------------
(***************************************************************************)
(* merge_sort of src/linkedlist.c on the list of LinkedList.  The sort     *)
(* relinks next and moves first and last; it leaves every prev pointer as  *)
(* it was, and linkedlist_pop follows prev.                                *)
(***************************************************************************)
EXTENDS LinkedList, Sequences

CONSTANT Key    \* what the compare function orders data by

ASSUME KeyAssumption == Key \in [Data -> Int]

VARIABLE strayed    \* history: a pop has met a prev pointer from before a sort

svars == <<vars, strayed>>

SInit == Init /\ strayed = FALSE
-----------------------------------------------------------------------------
compare(m, n) == Key[data[m]] - Key[data[n]]

(* Fault: the greater of two items comes first. *)
TakeFirstIfGreater(m, n) == compare(m, n) >= 0

TakeFirst(m, n) == compare(m, n) <= 0

sorted_merge[p \in Seq(Nodes) \X Seq(Nodes)] ==
  LET s == p[1]
      t == p[2]
  IN  CASE s = <<>> -> t
        [] t = <<>> -> s
        [] OTHER -> IF TakeFirst(s[1], t[1])
                    THEN <<s[1]>> \o sorted_merge[<<Tail(s), t>>]
                    ELSE <<t[1]>> \o sorted_merge[<<s, Tail(t)>>]

(* front_back_split: how far the slow pointer gets. *)
Half(s) == (Len(s) + 1) \div 2

merge_sorted[s \in Seq(Nodes)] ==
  IF Len(s) <= 1 THEN s
  ELSE sorted_merge[<<merge_sorted[SubSeq(s, 1, Half(s))],
                      merge_sorted[SubSeq(s, Half(s) + 1, Len(s))]>>]

(* The nodes of lv that are reached from p along nx, one after the other.  *)
Reaches(c, p, nx, lv) ==
  /\ \A i \in DOMAIN c : c[i] \in lv /\ c[i] = IF i = 1 THEN p ELSE nx[c[i - 1]]
  /\ (IF c = <<>> THEN p ELSE nx[c[Len(c)]]) \notin lv

Along(p, nx, lv) ==
  CHOOSE c \in UNION {[1 .. n -> lv] : n \in 0 .. Cardinality(lv)} : Reaches(c, p, nx, lv)

Front == Along(first, next, live)
FrontEnd == IF Front = <<>> THEN first ELSE next[Front[Len(Front)]]

(* Fault: merge_sort does not look for the new last node. *)
LastUnsorted(s) == last

LastOf(s) == IF s = <<>> THEN Null ELSE s[Len(s)]

(* The next pointer of n after the nodes of s have been linked in order. *)
Relinked(s, n) ==
  IF \E i \in DOMAIN s : s[i] = n
  THEN LET i == CHOOSE i \in DOMAIN s : s[i] = n IN IF i = Len(s) THEN Null ELSE s[i + 1]
  ELSE next[n]

Sort ==
  /\ Ready
  /\ \E s \in {merge_sorted[Front]} :
       /\ first' = IF s = <<>> THEN Null ELSE s[1]
       /\ last' = LastOf(s)
       /\ next' = [n \in Nodes |-> Relinked(s, n)]
  /\ UNCHANGED <<length, prev, data, live, scan, returned, wrong, strayed>>

(* A pop would not go back to the node before the last one. *)
Stray == Ready /\ Len(Front) > 1 /\ prev[last] # Front[Len(Front) - 1]

(* A pop, one that goes wrong included. *)
SPop ==
  /\ Pop \/ PopNothing \/ GoWrong
  /\ strayed' = (strayed \/ Stray)
-----------------------------------------------------------------------------
(* The sort leaves the same nodes in the chain, each once, in an order in  *)
(* which none is greater than the next.                                    *)
SortSorts ==
  [][Sort =>
       /\ Len(Front') = Len(Front)
       /\ {Front'[i] : i \in DOMAIN Front'} = {Front[i] : i \in DOMAIN Front}
       /\ \A i \in 1 .. Len(Front') - 1 : compare(Front'[i], Front'[i + 1]) <= 0]_svars

(* However long the list, and whatever the order it was in before a sort,  *)
(* it stays complete - all its nodes in a chain from first to last, as     *)
(* many as its length says - until a pop meets a prev pointer that the     *)
(* sort has left stale.                                                    *)
CompleteUntilStray ==
  ~strayed =>
    /\ FrontEnd = Null
    /\ last = IF Front = <<>> THEN Null ELSE Front[Len(Front)]
    /\ length = Len(Front)
    /\ live = {Front[i] : i \in DOMAIN Front}
=============================================================================
