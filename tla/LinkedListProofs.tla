-------------------------- MODULE LinkedListProofs --------------------------
(***************************************************************************)
(* Theorems about LinkedListChain: for every set of nodes, data and match  *)
(* functions, a list that is not sorted is a doubly linked list of the     *)
(* nodes it owns, follows no invalid pointer, and implements a sequence.   *)
(***************************************************************************)
EXTENDS LinkedListChain, SequenceTheorems, TLAPS

(* A search in progress has looked at the nodes before cur, in order, and  *)
(* none of them matched.                                                   *)
ScanAt(k) ==
  /\ scan.cur = IF k = length + 1 THEN Null ELSE chain[k]
  /\ scan.prev = IF k = 1 THEN Null ELSE chain[k - 1]
  /\ \A j \in 1 .. k - 1 : data[chain[j]] \notin scan.match

ScanOK == scan # NoScan => \E k \in 1 .. length + 1 : ScanAt(k)

Inv ==
  /\ TypeOK
  /\ chain \in Seq(Nodes)
  /\ Linked
  /\ ScanOK
  /\ ~wrong

LEMMA LinkedFacts ==
  ASSUME Inv
  PROVE  /\ length \in Nat
         /\ Len(chain) = length
         /\ chain \in [1 .. length -> Nodes]
         /\ Null \notin Nodes
         /\ \A i \in 1 .. length : chain[i] \in Nodes /\ chain[i] \in live
         /\ live \subseteq Nodes
  BY ListAssumption, LenProperties DEF Inv, Linked, TypeOK

(* The pointers that the next step follows are valid. *)
LEMMA NotMisused ==
  ASSUME Inv
  PROVE  ~Misused
<1> USE LinkedFacts
<1>1. ASSUME length # 0 PROVE last \in live
  BY <1>1 DEF Inv, Linked
<1>2. ASSUME length \notin {0, 1} PROVE prev[last] \in live
  <2>1. last = chain[length] /\ length \in 1 .. length /\ length - 1 \in 1 .. length
    BY <1>2 DEF Inv, Linked
  <2>2. prev[last] = chain[length - 1]
    BY <2>1, <1>2 DEF Inv, Linked
  <2> QED BY <2>1, <2>2
<1>3. ASSUME Searching PROVE scan.cur \in live \cup {Null}
  <2>1. PICK k \in 1 .. length + 1 : ScanAt(k)
    BY <1>3 DEF Inv, ScanOK, Searching
  <2> QED BY <2>1 DEF ScanAt
<1>4. ASSUME Found("pop") PROVE After \in live \cup {Null}
  <2>1. PICK k \in 1 .. length + 1 : ScanAt(k)
    BY <1>4 DEF Inv, ScanOK, Searching, Found
  <2>2. k \in 1 .. length /\ scan.cur = chain[k]
    BY <2>1, <1>4 DEF ScanAt, Found
  <2>3. next[chain[k]] = IF k = length THEN Null ELSE chain[k + 1]
    BY <2>2 DEF Inv, Linked
  <2>4. k # length => k + 1 \in 1 .. length
    BY <2>2
  <2> QED BY <2>2, <2>3, <2>4 DEF After
<1> QED BY <1>1, <1>2, <1>3, <1>4 DEF Misused

(* What Without removes: the one place where x is. *)
LEMMA WithoutOne ==
  ASSUME NEW S, NEW s \in Seq(S), NEW k \in 1 .. Len(s),
         \A i, j \in 1 .. Len(s) : s[i] = s[j] => i = j
  PROVE  /\ Without(s, s[k]) \in Seq(S)
         /\ Len(Without(s, s[k])) = Len(s) - 1
         /\ \A j \in 1 .. Len(s) - 1 :
              Without(s, s[k])[j] = IF j < k THEN s[j] ELSE s[j + 1]
<1> DEFINE w == [j \in 1 .. Len(s) - 1 |-> IF j < k THEN s[j] ELSE s[j + 1]]
<1>1. DOMAIN s = 1 .. Len(s) /\ Len(s) \in Nat
  BY LenProperties
<1>2. (CHOOSE i \in DOMAIN s : s[i] = s[k]) = k
  BY <1>1
<1>3. Without(s, s[k]) = w
  BY <1>2 DEF Without
<1>4. \A j \in 1 .. Len(s) - 1 : w[j] \in S
  BY <1>1, ElementOfSeq
<1>5. w \in Seq(S) /\ Len(w) = Len(s) - 1
  <2>1. Len(s) - 1 \in Nat
    BY <1>1
  <2>2. \A j \in 1 .. Len(s) - 1 : (IF j < k THEN s[j] ELSE s[j + 1]) \in S
    BY <1>4
  <2> QED BY <2>1, <2>2
<1> QED BY <1>3, <1>5

LEMMA InvInit == CInit => Inv
<1> SUFFICES ASSUME CInit PROVE Inv
  OBVIOUS
<1>1. data \in [Nodes -> Data]
  <2>1. PICK d : d \in Data /\ data = [n \in Nodes |-> d]
    BY ListAssumption DEF CInit, Init
  <2> QED BY <2>1
<1>2. /\ next \in [Nodes -> Pointers] /\ prev \in [Nodes -> Pointers]
      /\ first = Null /\ last = Null /\ returned = Null
      /\ length = 0 /\ live = {} /\ scan = NoScan /\ wrong = FALSE /\ chain = <<>>
  BY DEF CInit, Init, Pointers
<1>3. TypeOK
  <2>1. scan \in {NoScan} \cup [call : {"pop", "peek"}, match : Patterns,
                                prev : Pointers, cur : Pointers]
    BY <1>2
  <2>2. live \subseteq Nodes /\ length \in Int
    BY <1>2
  <2>3. first \in Pointers /\ last \in Pointers /\ returned \in Data \cup {Null, Mangled}
    BY <1>2 DEF Pointers
  <2>4. wrong \in BOOLEAN
    BY <1>2, Zenon
  <2> QED BY <1>1, <1>2, <2>1, <2>2, <2>3, <2>4 DEF TypeOK
<1>4. chain \in Seq(Nodes) /\ Len(chain) = 0
  BY <1>2, EmptySeq
<1>5. Linked
  BY <1>2, <1>4 DEF Linked
<1> QED BY <1>2, <1>3, <1>4, <1>5 DEF Inv, ScanOK

LEMMA PushKeepsInv ==
  ASSUME Inv, NEW n \in Nodes, NEW d \in Data, Push(n, d), chain' = Append(chain, n)
  PROVE  Inv'
<1> USE LinkedFacts
<1>1. /\ chain' \in Seq(Nodes)
      /\ Len(chain') = length + 1
      /\ \A i \in 1 .. length : chain'[i] = chain[i]
      /\ chain'[length + 1] = n
  BY AppendProperties DEF Inv
<1>2. length' = length + 1 /\ live' = live \cup {n} /\ n \notin live
  BY DEF Push
<1>3. Back \in Pointers /\ (length # 0 => Back = chain[length])
  BY DEF Back, Inv, Linked, TypeOK, Pointers
<1>4. TypeOK'
  BY <1>3, ListAssumption DEF Push, Inv, TypeOK, Linkage, Put, Pointers, Ready
<1>5. \A m \in Nodes :
        next'[m] = IF m = n THEN Null ELSE IF m = Back THEN n ELSE next[m]
  BY <1>3 DEF Push, Linkage, Put, Inv, TypeOK, Pointers
<1>6. Linked'
  <2>1. live' = {chain'[i] : i \in 1 .. length'}
    BY <1>1, <1>2 DEF Inv, Linked
  <2>2. \A i, j \in 1 .. length' : chain'[i] = chain'[j] => i = j
    BY <1>1, <1>2 DEF Inv, Linked
  <2>3. first' = chain'[1] /\ last' = chain'[length']
    BY <1>1, <1>2 DEF Push, Inv, Linked
  <2>4. \A i \in 1 .. length' :
          next'[chain'[i]] = IF i = length' THEN Null ELSE chain'[i + 1]
    <3> TAKE i \in 1 .. length'
    <3>1. CASE i = length + 1
      BY <3>1, <1>1, <1>2, <1>5
    <3>2. CASE i \in 1 .. length
      <4>1. chain'[i] = chain[i] /\ chain[i] \in Nodes /\ chain[i] # n
        BY <3>2, <1>1, <1>2
      <4>2. next'[chain[i]] = IF chain[i] = Back THEN n ELSE next[chain[i]]
        BY <4>1, <1>5
      <4>3. chain[i] = Back <=> i = length
        BY <3>2, <1>3 DEF Inv, Linked
      <4>4. i # length => i + 1 \in 1 .. length
        BY <3>2
      <4> QED BY <3>2, <1>1, <1>2, <4>1, <4>2, <4>3, <4>4 DEF Inv, Linked
    <3> QED BY <1>2, <3>1, <3>2
  <2>5. \A i \in 1 .. length' :
          prev'[chain'[i]] = IF i = 1 THEN Null ELSE chain'[i - 1]
    <3> TAKE i \in 1 .. length'
    <3>1. CASE i = length + 1
      BY <3>1, <1>1, <1>2, <1>3 DEF Push, Back, Inv, TypeOK
    <3>2. CASE i \in 1 .. length
      BY <3>2, <1>1, <1>2 DEF Push, Inv, Linked, TypeOK
    <3> QED BY <1>2, <3>1, <3>2
  <2>6. length' = Len(chain') /\ length' # 0
    BY <1>1, <1>2
  <2> QED BY <2>1, <2>2, <2>3, <2>4, <2>5, <2>6 DEF Linked
<1> QED BY <1>1, <1>4, <1>6 DEF Inv, ScanOK, Push, Ready

LEMMA PopKeepsInv ==
  ASSUME Inv, Pop, chain' = SubSeq(chain, 1, Len(chain) - 1)
  PROVE  Inv'
<1> USE LinkedFacts
<1>1. length \in Nat \ {0} /\ last = chain[length] /\ length' = length - 1
  BY DEF Pop, Inv, Linked
<1>2. /\ chain' \in Seq(Nodes)
      /\ Len(chain') = length - 1
      /\ \A i \in 1 .. length - 1 : chain'[i] = chain[i]
  BY <1>1, SubSeqProperties DEF Inv
<1>3. NewLast = IF length = 1 THEN Null ELSE chain[length - 1]
  BY <1>1 DEF NewLast, Inv, Linked
<1>4. live' = live \ {chain[length]}
  BY <1>1 DEF Pop
<1>5. NewLast \in Pointers
  BY <1>1, <1>3 DEF Pointers
<1>6. TypeOK'
  BY <1>1, <1>5, ListAssumption DEF Pop, Inv, TypeOK, FirstLeft, Put, Pointers, Ready, Taken
<1>7. Linked'
  <2>1. live' = {chain'[i] : i \in 1 .. length'}
    <3>1. live' = {chain[i] : i \in 1 .. length} \ {chain[length]}
      BY <1>4 DEF Inv, Linked
    <3>2. \A i \in 1 .. length - 1 : chain[i] # chain[length]
      BY <1>1 DEF Inv, Linked
    <3>3. live' = {chain[i] : i \in 1 .. length - 1}
      BY <1>1, <3>1, <3>2
    <3> QED BY <1>1, <1>2, <3>3
  <2>2. \A i, j \in 1 .. length' : chain'[i] = chain'[j] => i = j
    BY <1>1, <1>2 DEF Inv, Linked
  <2>3. /\ first' = IF length' = 0 THEN Null ELSE chain'[1]
        /\ last' = IF length' = 0 THEN Null ELSE chain'[length']
    BY <1>1, <1>2, <1>3 DEF Pop, FirstLeft, Inv, Linked
  <2>4. \A i \in 1 .. length' :
          next'[chain'[i]] = IF i = length' THEN Null ELSE chain'[i + 1]
    <3> TAKE i \in 1 .. length'
    <3>1. i \in 1 .. length - 1 /\ chain'[i] = chain[i] /\ length # 1
      BY <1>1, <1>2
    <3>2. next' = [next EXCEPT ![chain[length - 1]] = Null]
      BY <3>1, <1>3 DEF Pop, Put
    <3>3. chain[i] = chain[length - 1] <=> i = length - 1
      BY <3>1, <1>1 DEF Inv, Linked
    <3>4. next'[chain[i]] = IF i = length - 1 THEN Null ELSE next[chain[i]]
      BY <3>1, <3>2, <3>3 DEF Inv, TypeOK
    <3>5. i # length - 1 => i + 1 \in 1 .. length - 1
      BY <3>1
    <3> QED BY <3>1, <3>4, <3>5, <1>1, <1>2 DEF Inv, Linked
  <2>5. \A i \in 1 .. length' :
          prev'[chain'[i]] = IF i = 1 THEN Null ELSE chain'[i - 1]
    BY <1>1, <1>2 DEF Pop, Inv, Linked
  <2> QED BY <1>1, <1>2, <2>1, <2>2, <2>3, <2>4, <2>5 DEF Linked
<1> QED BY <1>2, <1>6, <1>7 DEF Inv, ScanOK, Pop, Ready

LEMMA ChainWithout ==
  ASSUME Inv, NEW k \in 1 .. length
  PROVE  /\ Without(chain, chain[k]) \in Seq(Nodes)
         /\ Len(Without(chain, chain[k])) = length - 1
         /\ \A j \in 1 .. length - 1 :
              Without(chain, chain[k])[j] = IF j < k THEN chain[j] ELSE chain[j + 1]
<1>1. chain \in Seq(Nodes) /\ k \in 1 .. Len(chain) /\ length = Len(chain)
  BY DEF Inv, Linked
<1>2. \A i, j \in 1 .. Len(chain) : chain[i] = chain[j] => i = j
  BY <1>1 DEF Inv, Linked
<1> QED BY <1>1, <1>2, WithoutOne

LEMMA UnlinkKeepsInv ==
  ASSUME Inv, Unlink, chain' = Without(chain, scan.cur)
  PROVE  Inv'
<1> USE LinkedFacts
<1>1. PICK k \in 1 .. length + 1 : ScanAt(k)
  BY DEF Inv, ScanOK, Unlink, Found, Searching
<1>2. k \in 1 .. length /\ scan.cur = chain[k]
  BY <1>1 DEF ScanAt, Unlink, Found
<1>3. /\ chain' \in Seq(Nodes)
      /\ Len(chain') = length - 1
      /\ \A j \in 1 .. length - 1 : chain'[j] = IF j < k THEN chain[j] ELSE chain[j + 1]
  BY <1>2, ChainWithout
<1>4. length' = length - 1 /\ live' = live \ {chain[k]} /\ length - 1 \in Nat
  BY <1>2 DEF Unlink
<1>5. After = IF k = length THEN Null ELSE chain[k + 1]
  BY <1>2 DEF After, Inv, Linked
<1>6. scan.prev = IF k = 1 THEN Null ELSE chain[k - 1]
  BY <1>1 DEF ScanAt
<1>7. After \in Pointers /\ scan.prev \in Pointers
  BY <1>2, <1>5, <1>6 DEF Pointers
<1>8. data[chain[k]] \in Data
  BY <1>2 DEF Inv, TypeOK
<1>9. TypeOK'
  BY <1>2, <1>4, <1>7, <1>8, ListAssumption
    DEF Unlink, Inv, TypeOK, Put, Pointers, Ready, LastLeft, BackLeft, Narrow
<1>10. /\ \A m \in Nodes : next'[m] = IF m = scan.prev THEN After ELSE next[m]
       /\ \A m \in Nodes : prev'[m] = IF m = After THEN scan.prev ELSE prev[m]
  BY <1>7 DEF Unlink, BackLeft, Put, Inv, TypeOK, Pointers
<1>11. \A i, j \in 1 .. length : chain[i] = chain[j] => i = j
  BY DEF Inv, Linked
<1>12. Linked'
  <2>1. live' = {chain'[i] : i \in 1 .. length'}
    <3>1. live' = {chain[i] : i \in 1 .. length} \ {chain[k]}
      BY <1>4 DEF Inv, Linked
    <3>2. ASSUME NEW i \in 1 .. length - 1 PROVE chain'[i] \in live'
      <4>1. CASE i < k
        BY <4>1, <3>1, <1>2, <1>3, <1>11
      <4>2. CASE i >= k
        BY <4>2, <3>1, <1>2, <1>3, <1>11
      <4> QED BY <4>1, <4>2, <1>2
    <3>3. ASSUME NEW m \in live' PROVE \E i \in 1 .. length - 1 : m = chain'[i]
      <4>1. PICK i \in 1 .. length : m = chain[i] /\ i # k
        BY <3>1
      <4>2. CASE i < k
        BY <4>1, <4>2, <1>2, <1>3
      <4>3. CASE i > k
        <5>1. i - 1 \in 1 .. length - 1 /\ chain'[i - 1] = chain[i]
          BY <4>1, <4>3, <1>2, <1>3
        <5> QED BY <4>1, <5>1
      <4> QED BY <4>1, <4>2, <4>3, <1>2
    <3> QED BY <3>2, <3>3, <1>4
  <2>2. \A i, j \in 1 .. length' : chain'[i] = chain'[j] => i = j
    <3> TAKE i, j \in 1 .. length'
    <3>1. i \in 1 .. length - 1 /\ j \in 1 .. length - 1
      BY <1>4
    <3>2. \E p \in 1 .. length : chain'[i] = chain[p] /\ p = IF i < k THEN i ELSE i + 1
      BY <3>1, <1>2, <1>3
    <3>3. \E q \in 1 .. length : chain'[j] = chain[q] /\ q = IF j < k THEN j ELSE j + 1
      BY <3>1, <1>2, <1>3
    <3> QED BY <3>1, <3>2, <3>3, <1>2, <1>11
  <2>3. first' = IF length' = 0 THEN Null ELSE chain'[1]
    <3>1. k - 1 \in 1 .. length => chain[k - 1] # Null
      OBVIOUS
    <3>2. first' = IF k = 1 THEN After ELSE chain[1]
      BY <3>1, <1>2, <1>6 DEF Unlink, Inv, Linked
    <3>3. CASE k = 1
      BY <3>2, <3>3, <1>2, <1>3, <1>4, <1>5
    <3>4. CASE k # 1
      BY <3>2, <3>4, <1>2, <1>3, <1>4
    <3> QED BY <3>3, <3>4
  <2>4. last' = IF length' = 0 THEN Null ELSE chain'[length']
    <3>1. CASE k = length
      <4>1. last' = scan.prev
        BY <3>1, <1>5 DEF Unlink, LastLeft
      <4> QED BY <4>1, <3>1, <1>2, <1>3, <1>4, <1>6
    <3>2. CASE k # length
      <4>1. After # Null /\ last' = chain[length]
        BY <3>2, <1>2, <1>5 DEF Unlink, LastLeft, Inv, Linked
      <4> QED BY <4>1, <3>2, <1>2, <1>3, <1>4
    <3> QED BY <3>1, <3>2
  <2>5. \A i \in 1 .. length' :
          next'[chain'[i]] = IF i = length' THEN Null ELSE chain'[i + 1]
    <3> TAKE i \in 1 .. length'
    <3>1. i \in 1 .. length - 1
      BY <1>4
    <3>2. CASE i < k
      <4>1. chain'[i] = chain[i] /\ i \in 1 .. length /\ i + 1 \in 1 .. length
        BY <3>1, <3>2, <1>3
      <4>2. chain[i] = scan.prev <=> i = k - 1
        BY <4>1, <3>2, <1>2, <1>6, <1>11
      <4>3. next[chain[i]] = chain[i + 1] /\ chain[i] \in Nodes
        BY <4>1, <3>2, <1>2 DEF Inv, Linked
      <4>4. next'[chain[i]] = IF i = k - 1 THEN After ELSE chain[i + 1]
        BY <4>2, <4>3, <1>10
      <4>5. i # length - 1 => i + 1 \in 1 .. length - 1
        BY <3>1
      <4> QED BY <4>1, <4>4, <4>5, <3>1, <3>2, <1>2, <1>3, <1>4, <1>5
    <3>3. CASE i >= k
      <4>1. chain'[i] = chain[i + 1] /\ i + 1 \in 1 .. length
        BY <3>1, <3>3, <1>3
      <4>2. chain[i + 1] # scan.prev
        BY <4>1, <3>3, <1>2, <1>6, <1>11
      <4>3. next'[chain[i + 1]] = IF i + 1 = length THEN Null ELSE chain[i + 2]
        BY <4>1, <4>2, <1>10 DEF Inv, Linked
      <4>4. i # length - 1 => i + 1 \in 1 .. length - 1 /\ chain'[i + 1] = chain[i + 2]
        BY <3>1, <3>3, <1>2, <1>3
      <4> QED BY <4>1, <4>3, <4>4, <3>1, <1>4
    <3> QED BY <3>2, <3>3, <3>1, <1>2
  <2>6. \A i \in 1 .. length' :
          prev'[chain'[i]] = IF i = 1 THEN Null ELSE chain'[i - 1]
    <3> TAKE i \in 1 .. length'
    <3>1. i \in 1 .. length - 1
      BY <1>4
    <3>2. CASE i < k
      <4>1. chain'[i] = chain[i] /\ i \in 1 .. length
        BY <3>1, <3>2, <1>3
      <4>2. chain[i] # After
        BY <4>1, <3>2, <1>2, <1>5, <1>11
      <4>3. prev'[chain[i]] = IF i = 1 THEN Null ELSE chain[i - 1]
        BY <4>1, <4>2, <1>10 DEF Inv, Linked
      <4>4. i # 1 => i - 1 \in 1 .. length - 1 /\ chain'[i - 1] = chain[i - 1]
        BY <3>1, <3>2, <1>3
      <4> QED BY <4>1, <4>3, <4>4
    <3>3. CASE i >= k
      <4>1. chain'[i] = chain[i + 1] /\ i + 1 \in 1 .. length
        BY <3>1, <3>3, <1>3
      <4>2. chain[i + 1] = After <=> i = k
        BY <4>1, <3>3, <1>2, <1>5, <1>11
      <4>3. prev'[chain[i + 1]] = IF i = k THEN scan.prev ELSE chain[i]
        BY <4>1, <4>2, <1>10 DEF Inv, Linked
      <4>4. i # 1 => i - 1 \in 1 .. length - 1
        BY <3>1
      <4> QED BY <4>1, <4>3, <4>4, <3>1, <3>3, <1>2, <1>3, <1>6
    <3> QED BY <3>2, <3>3, <3>1, <1>2
  <2> QED BY <1>3, <1>4, <2>1, <2>2, <2>3, <2>4, <2>5, <2>6 DEF Linked
<1> QED BY <1>3, <1>9, <1>12 DEF Inv, ScanOK, Unlink

(* A step of a search that leaves the list alone. *)
LEMMA ScanKeepsInv ==
  ASSUME Inv, UNCHANGED <<listVars, nodeVars, live, wrong, chain>>,
         TypeOK', ScanOK'
  PROVE  Inv'
  BY DEF Inv, Linked, listVars, nodeVars

LEMMA InvNext ==
  ASSUME Inv, [CNext]_cvars
  PROVE  Inv'
<1> USE LinkedFacts
<1>1. ASSUME NEW n \in Nodes, NEW d \in Data, Push(n, d), chain' = Append(chain, n) PROVE Inv'
  BY <1>1, PushKeepsInv
<1>2. ASSUME Pop, chain' = SubSeq(chain, 1, Len(chain) - 1) PROVE Inv'
  BY <1>2, PopKeepsInv
<1>3. ASSUME Unlink, chain' = Without(chain, scan.cur) PROVE Inv'
  BY <1>3, UnlinkKeepsInv
<1>4. ASSUME PopNothing, chain' = chain PROVE Inv'
  <2>1. TypeOK' /\ ScanOK'
    BY <1>4 DEF PopNothing, Inv, TypeOK, ScanOK, Ready, listVars, nodeVars
  <2> QED BY <1>4, <2>1, ScanKeepsInv DEF PopNothing
<1>5. ASSUME NEW call \in {"pop", "peek"}, NEW match \in Patterns,
             SearchBegin(call, match), chain' = chain
      PROVE  Inv'
  <2>1. TypeOK'
    BY <1>5 DEF SearchBegin, Inv, TypeOK, Pointers, listVars, nodeVars
  <2>2. 1 \in 1 .. length' + 1 /\ ScanAt(1)'
    BY <1>5 DEF SearchBegin, ScanAt, Inv, Linked, listVars, nodeVars
  <2> QED BY <1>5, <2>1, <2>2, ScanKeepsInv DEF SearchBegin, ScanOK
<1>6. ASSUME SearchNext, chain' = chain PROVE Inv'
  <2>1. PICK k \in 1 .. length + 1 : ScanAt(k)
    BY <1>6 DEF Inv, ScanOK, SearchNext, Searching
  <2>2. k \in 1 .. length /\ scan.cur = chain[k] /\ data[chain[k]] \notin scan.match
    BY <1>6, <2>1 DEF ScanAt, SearchNext
  <2>3. next[chain[k]] = IF k = length THEN Null ELSE chain[k + 1]
    BY <2>2 DEF Inv, Linked
  <2>4. next[chain[k]] \in Pointers /\ chain[k] \in Pointers
    BY <2>2 DEF Inv, TypeOK, Pointers
  <2>5. scan' = [scan EXCEPT !.prev = chain[k], !.cur = next[chain[k]]]
    BY <1>6, <2>2 DEF SearchNext
  <2>6. scan \in [call : {"pop", "peek"}, match : Patterns, prev : Pointers, cur : Pointers]
    BY <1>6 DEF SearchNext, Searching, Inv, TypeOK
  <2>7. TypeOK'
    BY <1>6, <2>4, <2>5, <2>6 DEF SearchNext, Inv, TypeOK, Pointers, listVars, nodeVars
  <2>8. scan'.cur = next[chain[k]] /\ scan'.prev = chain[k] /\ scan'.match = scan.match
    BY <2>5, <2>6
  <2>9. length' = length /\ data' = data
    BY <1>6 DEF SearchNext, listVars, nodeVars
  <2>10. k + 1 \in 1 .. length' + 1 /\ ScanAt(k + 1)'
    <3>1. k + 1 \in 1 .. length + 1 /\ (k + 1) - 1 = k /\ k + 1 # 1 /\ k \in Nat
      BY <2>2
    <3>2. \A j \in 1 .. k : data[chain[j]] \notin scan.match
      BY <2>1, <2>2 DEF ScanAt
    <3> QED BY <3>1, <3>2, <2>2, <2>3, <2>8, <2>9, <1>6 DEF ScanAt
  <2> QED BY <1>6, <2>7, <2>10, ScanKeepsInv DEF SearchNext, ScanOK
<1>7. ASSUME SearchFail, chain' = chain PROVE Inv'
  <2>1. TypeOK' /\ ScanOK'
    BY <1>7 DEF SearchFail, Inv, TypeOK, ScanOK, Pointers, listVars, nodeVars
  <2> QED BY <1>7, <2>1, ScanKeepsInv DEF SearchFail
<1>8. ASSUME PeekFound, chain' = chain PROVE Inv'
  <2>1. data[scan.cur] \in Data
    BY <1>8 DEF PeekFound, Found, Inv, TypeOK
  <2>2. TypeOK' /\ ScanOK'
    BY <1>8, <2>1 DEF PeekFound, Inv, TypeOK, ScanOK, Pointers, listVars, nodeVars
  <2> QED BY <1>8, <2>2, ScanKeepsInv DEF PeekFound
<1>9. ~GoWrong
  BY NotMisused DEF GoWrong
<1>10. ASSUME UNCHANGED cvars PROVE Inv'
  BY <1>10 DEF cvars, vars, listVars, nodeVars, Inv, TypeOK, Linked, ScanOK, ScanAt, Pointers
<1> QED BY <1>1, <1>2, <1>3, <1>4, <1>5, <1>6, <1>7, <1>8, <1>9, <1>10 DEF CNext

LEMMA Invariance == CSpec => []Inv
  BY InvInit, InvNext, PTL DEF CSpec
-----------------------------------------------------------------------------
(* Every variable of the list keeps its type. *)
THEOREM ListTypeCorrect == CSpec => []TypeOK
<1>1. Inv => TypeOK
  BY DEF Inv
<1> QED BY <1>1, Invariance, PTL

(* The list follows no NULL pointer and none to a node that it has freed.  *)
THEOREM ListNeverWrong == CSpec => []NeverWrong
<1>1. Inv => NeverWrong
  BY DEF Inv, NeverWrong
<1> QED BY <1>1, Invariance, PTL

(* The nodes that the list has allocated are linked both ways from first   *)
(* to last, as many of them as its length says.                            *)
THEOREM ListIsLinked == CSpec => []Linked
<1>1. Inv => Linked
  BY DEF Inv
<1> QED BY <1>1, Invariance, PTL
-----------------------------------------------------------------------------
(* The items in the list, by way of the nodes. *)
Content == [i \in 1 .. Len(chain) |-> data[chain[i]]]

ContentOK ==
  /\ Content \in Seq(Data)
  /\ Len(Content) = length
  /\ DOMAIN Content = 1 .. length
  /\ \A i \in 1 .. length : Content[i] = data[chain[i]]
  /\ Content = <<>> <=> length = 0

LEMMA ContentFacts == Inv => ContentOK
<1> SUFFICES ASSUME Inv PROVE ContentOK
  OBVIOUS
<1> USE LinkedFacts
<1>1. Content \in [1 .. length -> Data] /\ length \in Nat
  BY DEF Content, Inv, TypeOK
<1>2. Content \in Seq(Data) /\ Len(Content) = length
  BY <1>1
<1>3. Content = <<>> <=> length = 0
  BY <1>2, EmptySeq
<1> QED BY <1>1, <1>2, <1>3 DEF Content, ContentOK

(* The same of the items after a step. *)
LEMMA ContentNext == Inv' => ContentOK'
  BY ContentFacts, PTL

(* A search that found its item found the first one that matches. *)
LEMMA FoundFirst ==
  ASSUME Inv, NEW call, Found(call)
  PROVE  \E k \in 1 .. length :
           /\ scan.cur = chain[k]
           /\ Content[k] \in scan.match
           /\ \A j \in 1 .. k - 1 : Content[j] \notin scan.match
<1> USE LinkedFacts, ContentFacts DEF ContentOK
<1>1. PICK k \in 1 .. length + 1 : ScanAt(k)
  BY DEF Inv, ScanOK, Found, Searching
<1>2. k \in 1 .. length /\ scan.cur = chain[k] /\ data[chain[k]] \in scan.match
  BY <1>1 DEF ScanAt, Found
<1>3. \A j \in 1 .. k - 1 : Content[j] \notin scan.match
  <2> TAKE j \in 1 .. k - 1
  <2>1. j \in 1 .. length
    BY <1>2
  <2> QED BY <2>1, <1>1 DEF ScanAt
<1> QED BY <1>2, <1>3

LEMMA PushRefines ==
  ASSUME Inv, Inv', NEW n \in Nodes, NEW d \in Data, Push(n, d), chain' = Append(chain, n)
  PROVE  Content' = Append(Content, d) /\ returned' = returned
<1> USE LinkedFacts, ContentFacts
<1>1. /\ Append(Content, d) \in Seq(Data)
      /\ Len(Append(Content, d)) = length + 1
      /\ \A i \in 1 .. length : Append(Content, d)[i] = Content[i]
      /\ Append(Content, d)[length + 1] = d
  BY AppendProperties DEF ContentOK
<1>2. /\ Content' \in Seq(Data)
      /\ Len(Content') = length + 1
      /\ \A i \in 1 .. length + 1 : Content'[i] = data'[chain'[i]]
  BY ContentNext DEF ContentOK, Push
<1>3. /\ \A i \in 1 .. length : chain'[i] = chain[i]
      /\ chain'[length + 1] = n
  BY AppendProperties DEF Inv
<1>4. ASSUME NEW i \in 1 .. length + 1 PROVE Content'[i] = Append(Content, d)[i]
  <2>1. CASE i = length + 1
    <3>1. data'[n] = d
      BY DEF Push, Inv, TypeOK
    <3> QED BY <2>1, <3>1, <1>1, <1>2, <1>3
  <2>2. CASE i \in 1 .. length
    <3>1. chain[i] \in Nodes /\ chain[i] # n
      BY <2>2 DEF Push
    <3>2. data'[chain[i]] = data[chain[i]]
      BY <3>1 DEF Push, Inv, TypeOK
    <3> QED BY <2>2, <3>2, <1>1, <1>2, <1>3 DEF ContentOK
  <2>3. i = length + 1 \/ i \in 1 .. length
    OBVIOUS
  <2> QED BY <2>1, <2>2, <2>3
<1>5. Content' = Append(Content, d)
  BY <1>1, <1>2, <1>4, SeqEqual
<1> QED BY <1>5 DEF Push

LEMMA PopRefines ==
  ASSUME Inv, Inv', Pop, chain' = SubSeq(chain, 1, Len(chain) - 1)
  PROVE  /\ Content # <<>>
         /\ Content' = SubSeq(Content, 1, Len(Content) - 1)
         /\ returned' = Content[Len(Content)]
<1> USE LinkedFacts, ContentFacts
<1>1. Content \in Seq(Data) /\ Len(Content) = length /\ length \in Nat \ {0}
  BY DEF Pop, ContentOK
<1>2. \A i \in 1 .. length : Content[i] \in Data
  BY <1>1, ElementOfSeq
<1>3. /\ SubSeq(Content, 1, length - 1) \in Seq(Data)
      /\ Len(SubSeq(Content, 1, length - 1)) = length - 1
      /\ \A i \in 1 .. length - 1 : SubSeq(Content, 1, length - 1)[i] = Content[i]
  BY <1>1, <1>2, SubSeqProperties
<1>4. /\ Content' \in Seq(Data)
      /\ Len(Content') = length - 1
      /\ \A i \in 1 .. length - 1 : Content'[i] = data'[chain'[i]]
  BY ContentNext DEF Pop, ContentOK
<1>5. \A i \in 1 .. length - 1 : chain'[i] = chain[i]
  BY <1>1, SubSeqProperties DEF Inv
<1>6. \A i \in 1 .. length - 1 : Content'[i] = SubSeq(Content, 1, length - 1)[i]
  <2> TAKE i \in 1 .. length - 1
  <2>1. i \in 1 .. length
    BY <1>1
  <2> QED BY <2>1, <1>3, <1>4, <1>5 DEF Pop, ContentOK
<1>7. Content' = SubSeq(Content, 1, length - 1)
  BY <1>3, <1>4, <1>6, SeqEqual
<1>8. returned' = Content[length]
  BY <1>1 DEF Pop, Taken, Inv, Linked, ContentOK
<1> QED BY <1>1, <1>7, <1>8 DEF ContentOK

LEMMA UnlinkRefines ==
  ASSUME Inv, Inv', Unlink, chain' = Without(chain, scan.cur)
  PROVE  Abstract!PopMatch(scan.match)
<1> USE LinkedFacts, ContentFacts
<1>1. PICK k \in 1 .. length :
        /\ scan.cur = chain[k]
        /\ Content[k] \in scan.match
        /\ \A j \in 1 .. k - 1 : Content[j] \notin scan.match
  BY FoundFirst DEF Unlink
<1> DEFINE w == [j \in 1 .. Len(Content) - 1 |-> IF j < k THEN Content[j] ELSE Content[j + 1]]
<1>2. Len(chain') = length - 1
      /\ \A j \in 1 .. length - 1 : chain'[j] = IF j < k THEN chain[j] ELSE chain[j + 1]
  BY <1>1, ChainWithout
<1>3. Content' = [j \in 1 .. length - 1 |-> data[chain'[j]]]
  BY <1>2 DEF Content, Unlink
<1>4. ASSUME NEW j \in 1 .. length - 1
      PROVE  data[chain'[j]] = IF j < k THEN Content[j] ELSE Content[j + 1]
  <2>1. j \in 1 .. length /\ j + 1 \in 1 .. length
    OBVIOUS
  <2> QED BY <2>1, <1>2 DEF ContentOK
<1>5. Content' = w
  BY <1>3, <1>4 DEF ContentOK
<1>6. returned' = Narrow(Content[k])
  BY <1>1 DEF Unlink, ContentOK
<1>7. k \in DOMAIN Content
  BY <1>1 DEF ContentOK
<1> QED BY <1>1, <1>5, <1>6, <1>7 DEF Abstract!PopMatch, Abstract!FirstMatch, Content

(* Every step is a step of the abstract list or leaves it alone. *)
LEMMA StepRefines ==
  ASSUME Inv, Inv', [CNext]_cvars
  PROVE  [Abstract!Next]_(Abstract!vars)
<1> USE LinkedFacts, ContentFacts
<1> DEFINE Same == Content' = Content /\ returned' = returned
<1>1. ASSUME Same PROVE UNCHANGED Abstract!vars
  BY <1>1 DEF Abstract!vars, Content
<1>2. ASSUME NEW n \in Nodes, NEW d \in Data, Push(n, d), chain' = Append(chain, n)
      PROVE  Abstract!Next
  BY <1>2, PushRefines DEF Abstract!Next, Abstract!Push, Content
<1>3. ASSUME Pop, chain' = SubSeq(chain, 1, Len(chain) - 1) PROVE Abstract!Next
  BY <1>3, PopRefines DEF Abstract!Next, Abstract!Pop, Content
<1>4. ASSUME Searching PROVE scan.match \in Patterns
  BY <1>4 DEF Searching, Inv, TypeOK
<1>5. ASSUME Unlink, chain' = Without(chain, scan.cur) PROVE Abstract!Next
  <2>1. scan.match \in Patterns
    BY <1>4, <1>5 DEF Unlink, Found
  <2>2. Abstract!PopMatch(scan.match)
    BY <1>5, UnlinkRefines
  <2>3. \E m \in Patterns : Abstract!PopMatch(m)
    BY <2>1, <2>2 DEF Abstract!PopMatch
  <2> QED BY <2>3 DEF Abstract!Next
<1>6. ASSUME PopNothing, chain' = chain PROVE Abstract!Next
  <2>1. Content = <<>> /\ Content' = Content
    BY <1>6 DEF PopNothing, ContentOK, Content, nodeVars
  <2> QED BY <1>6, <2>1 DEF PopNothing, Abstract!Next, Abstract!Pop, Content
<1>7. ASSUME NEW call \in {"pop", "peek"}, NEW match \in Patterns,
             SearchBegin(call, match), chain' = chain
      PROVE  Same
  BY <1>7 DEF SearchBegin, Content, nodeVars
<1>8. ASSUME SearchNext, chain' = chain PROVE Same
  BY <1>8 DEF SearchNext, Content, nodeVars
<1>9. ASSUME SearchFail, chain' = chain PROVE Abstract!Next
  <2>1. PICK k \in 1 .. length + 1 : ScanAt(k)
    BY <1>9 DEF Inv, ScanOK, SearchFail, Searching
  <2>2. k = length + 1
    BY <1>9, <2>1 DEF ScanAt, SearchFail
  <2>3. \A i \in DOMAIN Content : Content[i] \notin scan.match
    BY <2>1, <2>2 DEF ScanAt, ContentOK
  <2>4. scan.match \in Patterns /\ Content' = Content /\ returned' = Null
    BY <1>4, <1>9 DEF SearchFail, Content, nodeVars
  <2>5. \E m \in Patterns : Abstract!NoMatch(m)
    BY <2>3, <2>4 DEF Abstract!NoMatch, Content
  <2> QED BY <2>5 DEF Abstract!Next
<1>10. ASSUME PeekFound, chain' = chain PROVE Abstract!Next
  <2>1. PICK k \in 1 .. length :
          /\ scan.cur = chain[k]
          /\ Content[k] \in scan.match
          /\ \A j \in 1 .. k - 1 : Content[j] \notin scan.match
    BY <1>10, FoundFirst DEF PeekFound
  <2>2. scan.match \in Patterns /\ Content' = Content
    BY <1>4, <1>10 DEF PeekFound, Found, Content, nodeVars
  <2>3. k \in DOMAIN Content /\ returned' = Content[k]
    BY <1>10, <2>1 DEF PeekFound, ContentOK
  <2>4. \E m \in Patterns : Abstract!PeekMatch(m)
    BY <2>1, <2>2, <2>3 DEF Abstract!PeekMatch, Abstract!FirstMatch, Content
  <2> QED BY <2>4 DEF Abstract!Next
<1>11. ~GoWrong
  BY NotMisused DEF GoWrong
<1>12. ASSUME UNCHANGED cvars PROVE Same
  BY <1>12 DEF cvars, vars, nodeVars, Content
<1> HIDE DEF Same
<1> QED BY <1>1, <1>2, <1>3, <1>5, <1>6, <1>7, <1>8, <1>9, <1>10, <1>11, <1>12 DEF CNext

(* Whatever the nodes, data and match functions, the linked list behaves   *)
(* as the sequence of ItemSequence: no call does anything else to the      *)
(* items, or returns another one.                                          *)
THEOREM ListImplementsSequence == CSpec => ImplementsSequence
<1>1. CInit => Abstract!Init
  BY EmptySeq DEF CInit, Init, Abstract!Init
<1>2. Inv /\ Inv' /\ [CNext]_cvars => [Abstract!Next]_(Abstract!vars)
  BY StepRefines
<1> QED BY <1>1, <1>2, Invariance, PTL DEF CSpec, ImplementsSequence, Abstract!Spec
=============================================================================
