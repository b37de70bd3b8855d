---------------------------- MODULE LoaderProofs ----------------------------
(***************************************************************************)
(* Theorems about Loader, with the lists of files it EXTENDS: for every    *)
(* directory, every order of the names, whatever the files hold and        *)
(* whatever sizes memory, frames and TLB have.  The parts:                 *)
(*   - sorted_merge and merge_sorted by induction on the size: the merge   *)
(*     of two ordered lists is ordered and has their elements;             *)
(*   - the chain of nodes: what is linked from first on is one sequence    *)
(*     (Chain), so that Front is it, and what the list's operations do;    *)
(*   - the directory: as long as prev was never followed off the list, it  *)
(*     still tells the order in which the files were found (FileInv);      *)
(*   - the copying of a program as a loop over its lines, and where the    *)
(*     page table at address 0 lets its first page go (CopyOutcome,        *)
(*     PageCopied);                                                        *)
(*   - the invariants of the loading: LoaderTypes, PcbsOK, LeftOpen.       *)
(* What mmu_malloc returns is any of Grants throughout.                    *)
(***************************************************************************)
EXTENDS Loader, FiniteSetTheorems, SequenceTheorems, Induction

Lists == Seq(Nodes)
Pairs == Lists \X Lists

(* The body of sorted_merge.                                               *)
Merged(h, p) ==
  CASE p[1] = <<>> -> p[2]
    [] p[2] = <<>> -> p[1]
    [] OTHER -> IF TakeFirst(p[1][1], p[2][1])
                THEN <<p[1][1]>> \o h[<<Tail(p[1]), p[2]>>]
                ELSE <<p[2][1]>> \o h[<<p[1], Tail(p[2])>>]

LEMMA TailFacts ==
  ASSUME NEW s \in Lists, s # <<>>
  PROVE  /\ s[1] \in Nodes /\ Tail(s) \in Lists /\ Len(s) \in Nat \ {0}
         /\ Len(Tail(s)) = Len(s) - 1
         /\ \A i \in 1 .. Len(s) - 1 : Tail(s)[i] = s[i + 1]
  BY DEF Lists

LEMMA ConsFacts ==
  ASSUME NEW x \in Nodes, NEW s \in Lists
  PROVE  /\ <<x>> \o s \in Lists
         /\ Len(<<x>> \o s) = Len(s) + 1
         /\ (<<x>> \o s)[1] = x
         /\ \A i \in 1 .. Len(s) : (<<x>> \o s)[i + 1] = s[i]
  BY DEF Lists

LEMMA PairFacts ==
  ASSUME NEW p \in Pairs
  PROVE  p[1] \in Lists /\ p[2] \in Lists /\ Len(p[1]) \in Nat /\ Len(p[2]) \in Nat
<1>1. p[1] \in Lists /\ p[2] \in Lists
  BY DEF Pairs
<1>2. \A s \in Lists : Len(s) \in Nat
  BY DEF Lists
<1> QED
  BY <1>1, <1>2

LEMMA MergeSmaller ==
  ASSUME NEW p \in Pairs, p[1] # <<>>, p[2] # <<>>
  PROVE  /\ <<Tail(p[1]), p[2]>> \in Pairs /\ <<p[1], Tail(p[2])>> \in Pairs
         /\ Len(Tail(p[1])) + Len(p[2]) < Len(p[1]) + Len(p[2])
         /\ Len(p[1]) + Len(Tail(p[2])) < Len(p[1]) + Len(p[2])
<1> DEFINE m == Len(p[1])
           n == Len(p[2])
<1>1. p[1] \in Lists /\ p[2] \in Lists /\ m \in Nat /\ n \in Nat
  BY PairFacts
<1>2. /\ Tail(p[1]) \in Lists /\ Len(Tail(p[1])) = m - 1
      /\ Tail(p[2]) \in Lists /\ Len(Tail(p[2])) = n - 1
  BY <1>1, TailFacts
<1>3. <<Tail(p[1]), p[2]>> \in Pairs /\ <<p[1], Tail(p[2])>> \in Pairs
  BY <1>1, <1>2 DEF Pairs
<1> HIDE DEF m, n
<1>4. (m - 1) + n < m + n /\ m + (n - 1) < m + n
  BY <1>1
<1>5. /\ Len(Tail(p[1])) + n < m + n
      /\ m + Len(Tail(p[2])) < m + n
  BY <1>2, <1>4, Zenon
<1> QED
  BY <1>3, <1>5 DEF m, n

LEMMA MergedType ==
  ASSUME NEW h, NEW p \in Pairs,
         p[1] # <<>> /\ p[2] # <<>> =>
           h[<<Tail(p[1]), p[2]>>] \in Lists /\ h[<<p[1], Tail(p[2])>>] \in Lists
  PROVE  Merged(h, p) \in Lists
<1>1. p[1] \in Lists /\ p[2] \in Lists
  BY DEF Pairs
<1>2. CASE p[1] # <<>> /\ p[2] # <<>>
  <2>1. p[1][1] \in Nodes /\ p[2][1] \in Nodes
    BY <1>1, <1>2, TailFacts
  <2>2. /\ <<p[1][1]>> \o h[<<Tail(p[1]), p[2]>>] \in Lists
        /\ <<p[2][1]>> \o h[<<p[1], Tail(p[2])>>] \in Lists
    BY <1>2, <2>1, ConsFacts
  <2> QED
    BY <1>2, <2>2, Zenon DEF Merged
<1> QED
  BY <1>1, <1>2, Zenon DEF Merged

LEMMA MergeUnfolds ==
  /\ sorted_merge = [p \in Pairs |-> Merged(sorted_merge, p)]
  /\ sorted_merge \in [Pairs -> Lists]
<1> DEFINE F == [Pairs -> Lists]
           size == [p \in Pairs |-> Len(p[1]) + Len(p[2])]
           body == [h \in F |-> [p \in Pairs |-> Merged(h, p)]]
<1>1. size \in [Pairs -> Nat]
  <2>1. ASSUME NEW p \in Pairs PROVE Len(p[1]) + Len(p[2]) \in Nat
    <3> DEFINE m == Len(p[1])
               n == Len(p[2])
    <3>1. m \in Nat /\ n \in Nat
      BY PairFacts
    <3> HIDE DEF m, n
    <3>2. m + n \in Nat
      BY <3>1
    <3> QED
      BY <3>2 DEF m, n
  <2> QED
    BY <2>1
<1>2. F # {}
  <2>1. [p \in Pairs |-> p[1]] \in F
    BY DEF Pairs
  <2> QED BY <2>1
<1>3. body \in [F -> F]
  <2>1. ASSUME NEW h \in F, NEW p \in Pairs PROVE Merged(h, p) \in Lists
    <3>1. p[1] # <<>> /\ p[2] # <<>> =>
            h[<<Tail(p[1]), p[2]>>] \in Lists /\ h[<<p[1], Tail(p[2])>>] \in Lists
      BY MergeSmaller
    <3> QED
      BY <3>1, MergedType
  <2> QED
    BY <2>1
<1>4. ASSUME NEW g \in F, NEW h \in F, NEW p \in Pairs,
             \A q \in Pairs : size[q] < size[p] => g[q] = h[q]
      PROVE  body[g][p] = body[h][p]
  <2>1. Merged(g, p) = Merged(h, p)
    <3>1. CASE p[1] # <<>> /\ p[2] # <<>>
      <4> DEFINE q == <<Tail(p[1]), p[2]>>
                 r == <<p[1], Tail(p[2])>>
      <4>1. q \in Pairs /\ r \in Pairs /\ size[q] < size[p] /\ size[r] < size[p]
        BY <3>1, MergeSmaller
      <4>2. g[q] = h[q] /\ g[r] = h[r]
        BY <1>4, <4>1
      <4> QED
        BY <3>1, <4>2, Zenon DEF Merged
    <3> QED
      BY <3>1, Zenon DEF Merged
  <2> HIDE DEF F
  <2> QED
    BY <2>1
<1>5. Recursive(Pairs, Lists, size, body)
  <2> HIDE DEF size, body
  <2> QED BY <1>1, <1>2, <1>3, <1>4 DEF Recursive
<1>6. PICK h : Solution(Pairs, Lists, body, h)
  <2> HIDE DEF size, body
  <2> QED BY <1>5, Recursion, Zenon
<1>7. h \in F /\ h = [p \in Pairs |-> Merged(h, p)]
  BY <1>6 DEF Solution
<1> DEFINE merge == CHOOSE m : m = [p \in Pairs |-> Merged(m, p)]
<1>8. merge = [p \in Pairs |-> Merged(merge, p)]
  BY <1>7, Zenon
<1>9. sorted_merge = merge
  BY DEF sorted_merge, Pairs, Lists, Merged
<1> HIDE DEF merge
<1>10. \A p \in Pairs : merge[p] \in Lists
  <2> DEFINE S == {p \in Pairs : merge[p] \in Lists}
  <2>1. ASSUME NEW p \in Pairs, \A q \in Pairs : size[q] < size[p] => q \in S
        PROVE  p \in S
    <3>1. ASSUME p[1] # <<>> /\ p[2] # <<>>
          PROVE  merge[<<Tail(p[1]), p[2]>>] \in Lists /\ merge[<<p[1], Tail(p[2])>>] \in Lists
      BY <2>1, <3>1, MergeSmaller
    <3>2. merge[p] = Merged(merge, p)
      BY <1>8
    <3> QED
      BY <3>1, <3>2, MergedType
  <2>2. \A p \in Pairs : size[p] \in Nat
    BY <1>1
  <2>3. Pairs \subseteq S
    <3> HIDE DEF S, size
    <3> QED BY <2>1, <2>2, SizeInduction
  <2> QED
    BY <2>3
<1> QED
  BY <1>8, <1>9, <1>10

Elements(s) == {s[i] : i \in 1 .. Len(s)}
Distinct(s) == \A i, j \in 1 .. Len(s) : s[i] = s[j] => i = j
NotAfter(m, n) == Key[data[m]] <= Key[data[n]]
Ordered(s) == \A i \in 1 .. Len(s) - 1 : NotAfter(s[i], s[i + 1])

LEMMA ElementsType ==
  ASSUME NEW s \in Lists
  PROVE  Elements(s) \subseteq Nodes
  BY DEF Elements, Lists

LEMMA ConsElements ==
  ASSUME NEW x \in Nodes, NEW s \in Lists
  PROVE  /\ Elements(<<x>> \o s) = {x} \cup Elements(s)
         /\ Distinct(s) /\ x \notin Elements(s) => Distinct(<<x>> \o s)
         /\ Ordered(s) /\ (s # <<>> => NotAfter(x, s[1])) => Ordered(<<x>> \o s)
<1> DEFINE c == <<x>> \o s
           n == Len(s)
<1>1. /\ c \in Lists /\ Len(c) = n + 1 /\ c[1] = x /\ n \in Nat
      /\ \A i \in 1 .. n : c[i + 1] = s[i]
  BY ConsFacts DEF Lists
<1>2. s # <<>> => n # 0
  BY TailFacts
<1> HIDE DEF c
<1>3. \A i \in 2 .. n + 1 : i - 1 \in 1 .. n /\ c[i] = s[i - 1]
  <2> HIDE DEF n
  <2> SUFFICES ASSUME NEW i \in 2 .. n + 1 PROVE i - 1 \in 1 .. n /\ c[i] = s[i - 1]
    OBVIOUS
  <2>1. i - 1 \in 1 .. n /\ (i - 1) + 1 = i
    BY <1>1
  <2> QED
    BY <1>1, <2>1
<1>4. Elements(c) = {x} \cup Elements(s)
  <2> HIDE DEF n
  <2>1. Elements(c) = {c[i] : i \in 1 .. n + 1} /\ Elements(s) = {s[i] : i \in 1 .. n}
    BY <1>1 DEF Elements, n
  <2>2. \A i \in 1 .. n : i + 1 \in 1 .. n + 1
    BY <1>1
  <2>3. 1 \in 1 .. n + 1
    BY <1>1
  <2>4. \A i \in 1 .. n + 1 : i = 1 \/ i \in 2 .. n + 1
    BY <1>1
  <2> QED
    BY <2>1, <2>2, <2>3, <2>4, <1>1, <1>3
<1>5. ASSUME Distinct(s), x \notin Elements(s) PROVE Distinct(c)
  <2> SUFFICES ASSUME NEW i \in 1 .. n + 1, NEW j \in 1 .. n + 1, c[i] = c[j]
               PROVE  i = j
    BY <1>1 DEF Distinct
  <2>1. \A k \in 1 .. n : s[k] # x
    BY <1>5 DEF Elements
  <2>2. \A k, l \in 1 .. n : s[k] = s[l] => k = l
    BY <1>5 DEF Distinct
  <2> HIDE DEF n
  <2>3. i = 1 \/ i \in 2 .. n + 1
    BY <1>1
  <2>4. j = 1 \/ j \in 2 .. n + 1
    BY <1>1
  <2>5. i \in 2 .. n + 1 /\ j \in 2 .. n + 1 => i - 1 = j - 1
    BY <1>3, <2>2
  <2> QED
    BY <1>1, <1>3, <2>1, <2>3, <2>4, <2>5
<1>6. ASSUME Ordered(s), s # <<>> => NotAfter(x, s[1]) PROVE Ordered(c)
  <2> SUFFICES ASSUME NEW i \in 1 .. n PROVE NotAfter(c[i], c[i + 1])
    BY <1>1 DEF Ordered
  <2>1. \A k \in 1 .. n - 1 : NotAfter(s[k], s[k + 1])
    BY <1>6 DEF Ordered
  <2>2. s # <<>>
    BY DEF Lists
  <2> HIDE DEF n
  <2>3. i = 1 \/ (i \in 2 .. n + 1 /\ i - 1 \in 1 .. n - 1)
    BY <1>1
  <2>4. (i - 1) + 1 = i
    OBVIOUS
  <2> QED
    BY <1>1, <1>3, <1>6, <2>1, <2>2, <2>3, <2>4
<1> QED
  BY <1>4, <1>5, <1>6 DEF c

LEMMA TailElements ==
  ASSUME NEW s \in Lists, s # <<>>
  PROVE  /\ Elements(s) = {s[1]} \cup Elements(Tail(s))
         /\ Distinct(s) => Distinct(Tail(s)) /\ s[1] \notin Elements(Tail(s))
         /\ Ordered(s) => Ordered(Tail(s)) /\ (Tail(s) # <<>> => NotAfter(s[1], Tail(s)[1]))
<1> DEFINE t == Tail(s)
           n == Len(s)
<1>1. /\ n \in Nat \ {0} /\ Len(t) = n - 1 /\ t \in Lists
      /\ \A i \in 1 .. n - 1 : t[i] = s[i + 1]
  BY TailFacts
<1>2. t # <<>> => Len(t) # 0
  BY <1>1, TailFacts
<1> HIDE DEF t
<1>3. Elements(s) = {s[1]} \cup Elements(t)
  <2>1. Elements(s) = {s[i] : i \in 1 .. n} /\ Elements(t) = {t[i] : i \in 1 .. n - 1}
    BY <1>1 DEF Elements
  <2> HIDE DEF n
  <2>2. \A i \in 1 .. n - 1 : i + 1 \in 1 .. n
    BY <1>1
  <2>3. \A i \in 1 .. n : i = 1 \/ (i - 1 \in 1 .. n - 1 /\ t[i - 1] = s[i])
    <3> SUFFICES ASSUME NEW i \in 1 .. n, i # 1 PROVE i - 1 \in 1 .. n - 1 /\ t[i - 1] = s[i]
      OBVIOUS
    <3>1. i - 1 \in 1 .. n - 1 /\ (i - 1) + 1 = i
      BY <1>1
    <3> QED BY <3>1, <1>1
  <2>4. 1 \in 1 .. n
    BY <1>1
  <2>5. {s[i] : i \in 1 .. n} \subseteq {s[1]} \cup {t[i] : i \in 1 .. n - 1}
    BY <2>3
  <2>6. {t[i] : i \in 1 .. n - 1} \subseteq {s[i] : i \in 1 .. n}
    BY <2>2, <1>1
  <2> QED
    BY <2>1, <2>4, <2>5, <2>6
<1>4. ASSUME Distinct(s) PROVE Distinct(t) /\ s[1] \notin Elements(t)
  <2>1. \A i, j \in 1 .. n : s[i] = s[j] => i = j
    BY <1>4 DEF Distinct
  <2> HIDE DEF n
  <2>2. 1 \in 1 .. n /\ \A i \in 1 .. n - 1 : i + 1 \in 1 .. n /\ i + 1 # 1
    BY <1>1
  <2>3. \A i, j \in 1 .. n - 1 : t[i] = t[j] => i = j
    BY <1>1, <2>1, <2>2
  <2>4. \A i \in 1 .. n - 1 : t[i] # s[1]
    BY <1>1, <2>1, <2>2
  <2> QED
    BY <2>3, <2>4, <1>1 DEF Distinct, Elements
<1>5. ASSUME Ordered(s) PROVE Ordered(t) /\ (t # <<>> => NotAfter(s[1], t[1]))
  <2>1. \A i \in 1 .. n - 1 : NotAfter(s[i], s[i + 1])
    BY <1>5 DEF Ordered
  <2> HIDE DEF n
  <2>2. \A i \in 1 .. (n - 1) - 1 : /\ i \in 1 .. n - 1 /\ i + 1 \in 1 .. n - 1
    BY <1>1
  <2>3. t # <<>> => 1 \in 1 .. n - 1
    BY <1>1, <1>2
  <2>4. \A i \in 1 .. (n - 1) - 1 : NotAfter(t[i], t[i + 1])
    BY <1>1, <2>1, <2>2
  <2>5. t # <<>> => NotAfter(s[1], t[1])
    BY <1>1, <2>1, <2>3
  <2> QED
    BY <2>4, <2>5, <1>1 DEF Ordered
<1> QED
  BY <1>3, <1>4, <1>5 DEF t

LEMMA TakeFirstTells ==
  ASSUME data \in [Nodes -> Data], NEW m \in Nodes, NEW n \in Nodes
  PROVE  /\ TakeFirst(m, n) => NotAfter(m, n)
         /\ ~TakeFirst(m, n) => NotAfter(n, m)
<1>1. Key[data[m]] \in Int /\ Key[data[n]] \in Int
  BY KeyAssumption
<1> QED
  BY <1>1 DEF TakeFirst, compare, NotAfter

(* sorted_merge of two lists. *)
MergeOK(p, m) ==
  Distinct(p[1]) /\ Distinct(p[2]) /\ Elements(p[1]) \cap Elements(p[2]) = {} =>
    /\ Elements(m) = Elements(p[1]) \cup Elements(p[2])
    /\ Distinct(m)
    /\ Ordered(p[1]) /\ Ordered(p[2]) =>
         /\ Ordered(m)
         /\ m # <<>> => \/ p[1] # <<>> /\ m[1] = p[1][1]
                        \/ p[2] # <<>> /\ m[1] = p[2][1]

LEMMA MergeFirst ==
  ASSUME NEW s \in Lists, NEW t \in Lists, NEW r \in Lists,
         s # <<>>, t # <<>>, NotAfter(s[1], t[1]), MergeOK(<<Tail(s), t>>, r)
  PROVE  MergeOK(<<s, t>>, <<s[1]>> \o r)
<1> SUFFICES ASSUME Distinct(s), Distinct(t), Elements(s) \cap Elements(t) = {}
             PROVE  LET m == <<s[1]>> \o r IN
                    /\ Elements(m) = Elements(s) \cup Elements(t)
                    /\ Distinct(m)
                    /\ Ordered(s) /\ Ordered(t) => Ordered(m) /\ m[1] = s[1]
  BY DEF MergeOK
<1> DEFINE m == <<s[1]>> \o r
<1>1. s[1] \in Nodes /\ Tail(s) \in Lists /\ t[1] \in Nodes
  BY TailFacts
<1>2. /\ Elements(s) = {s[1]} \cup Elements(Tail(s))
      /\ Distinct(Tail(s)) /\ s[1] \notin Elements(Tail(s))
      /\ Ordered(s) => Ordered(Tail(s)) /\ (Tail(s) # <<>> => NotAfter(s[1], Tail(s)[1]))
  BY TailElements
<1>3. /\ Elements(r) = Elements(Tail(s)) \cup Elements(t)
      /\ Distinct(r)
      /\ Ordered(Tail(s)) /\ Ordered(t) =>
           /\ Ordered(r)
           /\ r # <<>> => \/ Tail(s) # <<>> /\ r[1] = Tail(s)[1]
                          \/ t # <<>> /\ r[1] = t[1]
  BY <1>2 DEF MergeOK
<1>4. s[1] \notin Elements(r)
  BY <1>2, <1>3
<1>5. /\ Elements(m) = {s[1]} \cup Elements(r)
      /\ Distinct(m)
      /\ Ordered(r) /\ (r # <<>> => NotAfter(s[1], r[1])) => Ordered(m)
  BY <1>1, <1>3, <1>4, ConsElements
<1>6. m[1] = s[1]
  BY <1>1, ConsFacts
<1> HIDE DEF m
<1>7. Ordered(s) /\ Ordered(t) => Ordered(m)
  BY <1>2, <1>3, <1>5
<1> QED
  BY <1>2, <1>3, <1>5, <1>6, <1>7 DEF m

LEMMA MergeSwaps ==
  ASSUME NEW s, NEW t, NEW m, MergeOK(<<s, t>>, m)
  PROVE  MergeOK(<<t, s>>, m)
  BY DEF MergeOK

LEMMA MergeCorrect ==
  ASSUME data \in [Nodes -> Data]
  PROVE  \A p \in Pairs : MergeOK(p, sorted_merge[p])
<1> DEFINE S == {p \in Pairs : MergeOK(p, sorted_merge[p])}
           size == [p \in Pairs |-> Len(p[1]) + Len(p[2])]
<1>1. \A p \in Pairs : size[p] \in Nat
  <2> SUFFICES ASSUME NEW p \in Pairs PROVE Len(p[1]) + Len(p[2]) \in Nat
    OBVIOUS
  <2> DEFINE m == Len(p[1])
             n == Len(p[2])
  <2>1. m \in Nat /\ n \in Nat
    BY PairFacts
  <2> HIDE DEF m, n
  <2>2. m + n \in Nat
    BY <2>1
  <2> QED
    BY <2>2 DEF m, n
<1>2. ASSUME NEW p \in Pairs, \A q \in Pairs : size[q] < size[p] => q \in S
      PROVE  p \in S
  <2> DEFINE s == p[1]
             t == p[2]
             q == <<Tail(s), t>>
             r == <<s, Tail(t)>>
  <2>1. s \in Lists /\ t \in Lists /\ p = <<s, t>>
    BY DEF Pairs
  <2>2. sorted_merge[p] = Merged(sorted_merge, p) /\ sorted_merge \in [Pairs -> Lists]
    BY MergeUnfolds
  <2>3. CASE s = <<>>
    <3>1. sorted_merge[p] = t
      BY <2>2, <2>3, Zenon DEF Merged
    <3>2. Elements(s) = {} /\ Elements(t) = Elements(s) \cup Elements(t)
      BY <2>3 DEF Elements
    <3>3. MergeOK(p, t)
      BY <3>2 DEF MergeOK
    <3> QED
      BY <3>1, <3>3
  <2>4. CASE s # <<>> /\ t = <<>>
    <3>1. sorted_merge[p] = s
      BY <2>2, <2>4, Zenon DEF Merged
    <3>2. Elements(t) = {} /\ Elements(s) = Elements(s) \cup Elements(t)
      BY <2>4 DEF Elements
    <3>3. MergeOK(p, s)
      BY <3>2 DEF MergeOK
    <3> QED
      BY <3>1, <3>3
  <2>5. CASE s # <<>> /\ t # <<>>
    <3>1. q \in Pairs /\ r \in Pairs /\ size[q] < size[p] /\ size[r] < size[p]
      BY <2>5, MergeSmaller
    <3>2. MergeOK(q, sorted_merge[q]) /\ MergeOK(r, sorted_merge[r])
      BY <1>2, <3>1
    <3>3. sorted_merge[q] \in Lists /\ sorted_merge[r] \in Lists
      BY <2>2, <3>1
    <3>4. s[1] \in Nodes /\ t[1] \in Nodes
      BY <2>1, <2>5, TailFacts
    <3>5. CASE TakeFirst(s[1], t[1])
      <4>1. sorted_merge[p] = <<s[1]>> \o sorted_merge[q]
        BY <2>2, <2>5, <3>5, Zenon DEF Merged
      <4>2. NotAfter(s[1], t[1])
        BY <3>4, <3>5, TakeFirstTells
      <4>3. MergeOK(<<s, t>>, <<s[1]>> \o sorted_merge[q])
        BY <2>1, <2>5, <3>2, <3>3, <4>2, MergeFirst
      <4> QED
        BY <2>1, <4>1, <4>3
    <3>6. CASE ~TakeFirst(s[1], t[1])
      <4>1. sorted_merge[p] = <<t[1]>> \o sorted_merge[r]
        BY <2>2, <2>5, <3>6, Zenon DEF Merged
      <4>2. NotAfter(t[1], s[1])
        BY <3>4, <3>6, TakeFirstTells
      <4>3. MergeOK(<<Tail(t), s>>, sorted_merge[r])
        BY <3>2, MergeSwaps
      <4>4. MergeOK(<<t, s>>, <<t[1]>> \o sorted_merge[r])
        BY <2>1, <2>5, <3>3, <4>2, <4>3, MergeFirst
      <4>5. MergeOK(<<s, t>>, <<t[1]>> \o sorted_merge[r])
        BY <4>4, MergeSwaps
      <4> QED
        BY <2>1, <4>1, <4>5
    <3> QED
      BY <3>5, <3>6
  <2> QED
    BY <2>3, <2>4, <2>5
<1>3. Pairs \subseteq S
  <2> HIDE DEF S, size
  <2> QED BY <1>1, <1>2, SizeInduction
<1> QED
  BY <1>3

-----------------------------------------------------------------------------
(* The body of merge_sorted.                                               *)
LeftHalf(s) == SubSeq(s, 1, Half(s))
RightHalf(s) == SubSeq(s, Half(s) + 1, Len(s))

MergeSorted(h, s) ==
  IF Len(s) <= 1 THEN s ELSE sorted_merge[<<h[LeftHalf(s)], h[RightHalf(s)]>>]

LEMMA HalfFacts ==
  ASSUME NEW s \in Lists, ~(Len(s) <= 1)
  PROVE  /\ Half(s) \in 1 .. Len(s) - 1
         /\ LeftHalf(s) \in Lists /\ Len(LeftHalf(s)) = Half(s)
         /\ RightHalf(s) \in Lists /\ Len(RightHalf(s)) = Len(s) - Half(s)
         /\ \A i \in 1 .. Half(s) : LeftHalf(s)[i] = s[i]
         /\ \A i \in 1 .. Len(s) - Half(s) : RightHalf(s)[i] = s[i + Half(s)]
<1> DEFINE n == Len(s)
           h == Half(s)
<1>1. n \in Nat /\ n > 1
  BY DEF Lists
<1>2. h \in 1 .. n - 1
  <2>1. h = (n + 1) \div 2
    BY DEF Half
  <2> HIDE DEF n, h
  <2> QED BY <1>1, <2>1
<1>3. \A i \in 1 .. n : s[i] \in Nodes
  BY DEF Lists
<1> HIDE DEF h, n
<1>6. h \in Nat /\ n - h \in Nat /\ \A i \in 1 .. h : i \in 1 .. n
  BY <1>1, <1>2
<1>7. \A i \in 1 .. n - h : i + h \in 1 .. n
  BY <1>1, <1>2
<1>8. /\ LeftHalf(s) \in Lists /\ Len(LeftHalf(s)) = h
      /\ \A i \in 1 .. h : LeftHalf(s)[i] = s[i]
  <2>1. 1 \in 1 .. Len(s) + 1 /\ h \in 0 .. Len(s)
    BY <1>1, <1>2 DEF n
  <2>2. LeftHalf(s) = SubSeq(s, 1, h)
    BY DEF LeftHalf, h
  <2>3. /\ LeftHalf(s) \in Seq(Nodes)
        /\ Len(LeftHalf(s)) = (IF 1 <= h THEN (h - 1) + 1 ELSE 0)
        /\ \A i \in 1 .. (h - 1) + 1 : LeftHalf(s)[i] = s[(1 + i) - 1]
    BY <2>1, <2>2, SubSeqProperties DEF Lists
  <2>4. 1 <= h /\ (h - 1) + 1 = h /\ \A i \in 1 .. h : (1 + i) - 1 = i
    BY <1>1, <1>2
  <2> QED
    BY <2>3, <2>4 DEF Lists
<1>9. /\ RightHalf(s) \in Lists /\ Len(RightHalf(s)) = n - h
      /\ \A i \in 1 .. n - h : RightHalf(s)[i] = s[i + h]
  <2>1. h + 1 \in 1 .. Len(s) + 1 /\ n \in h + 1 .. Len(s) /\ n \in 0 .. Len(s)
    BY <1>1, <1>2 DEF n
  <2>2. RightHalf(s) = SubSeq(s, h + 1, n)
    BY DEF RightHalf, h, n
  <2>3. /\ RightHalf(s) \in Seq(Nodes)
        /\ Len(RightHalf(s)) = (IF h + 1 <= n THEN (n - (h + 1)) + 1 ELSE 0)
        /\ \A i \in 1 .. (n - (h + 1)) + 1 : RightHalf(s)[i] = s[((h + 1) + i) - 1]
    BY <2>1, <2>2, SubSeqProperties DEF Lists
  <2>4. h + 1 <= n /\ (n - (h + 1)) + 1 = n - h /\ \A i \in 1 .. n - h : ((h + 1) + i) - 1 = i + h
    BY <1>1, <1>2
  <2> QED
    BY <2>3, <2>4 DEF Lists
<1> QED
  BY <1>2, <1>8, <1>9 DEF h, n

LEMMA HalfElements ==
  ASSUME NEW s \in Lists, ~(Len(s) <= 1)
  PROVE  /\ Elements(s) = Elements(LeftHalf(s)) \cup Elements(RightHalf(s))
         /\ Distinct(s) => /\ Distinct(LeftHalf(s)) /\ Distinct(RightHalf(s))
                           /\ Elements(LeftHalf(s)) \cap Elements(RightHalf(s)) = {}
<1> DEFINE n == Len(s)
           h == Half(s)
           l == LeftHalf(s)
           r == RightHalf(s)
<1>1. /\ h \in 1 .. n - 1 /\ Len(l) = h /\ Len(r) = n - h
      /\ \A i \in 1 .. h : l[i] = s[i]
      /\ \A i \in 1 .. n - h : r[i] = s[i + h]
  BY HalfFacts
<1>2. n \in Nat
  BY DEF Lists
<1>3. /\ Elements(s) = {s[i] : i \in 1 .. n}
      /\ Elements(l) = {l[i] : i \in 1 .. h}
      /\ Elements(r) = {r[i] : i \in 1 .. n - h}
  BY <1>1 DEF Elements
<1>4. Distinct(s) => \A i, j \in 1 .. n : s[i] = s[j] => i = j
  BY DEF Distinct
<1>5. /\ Distinct(l) <=> \A i, j \in 1 .. h : l[i] = l[j] => i = j
      /\ Distinct(r) <=> \A i, j \in 1 .. n - h : r[i] = r[j] => i = j
  BY <1>1 DEF Distinct
<1> HIDE DEF n, h, l, r
<1>6. \A i \in 1 .. h : i \in 1 .. n
  BY <1>1, <1>2
<1>7. \A i \in 1 .. n - h : i + h \in 1 .. n
  BY <1>1, <1>2
<1>8. \A i \in 1 .. n : i \in 1 .. h \/ (i - h \in 1 .. n - h /\ r[i - h] = s[i])
  <2> SUFFICES ASSUME NEW i \in 1 .. n, i \notin 1 .. h
               PROVE  i - h \in 1 .. n - h /\ r[i - h] = s[i]
    OBVIOUS
  <2>1. i - h \in 1 .. n - h /\ (i - h) + h = i
    BY <1>1, <1>2
  <2> QED
    BY <2>1, <1>1
<1>9. {s[i] : i \in 1 .. n} \subseteq {l[i] : i \in 1 .. h} \cup {r[i] : i \in 1 .. n - h}
  BY <1>1, <1>8
<1>10. {l[i] : i \in 1 .. h} \cup {r[i] : i \in 1 .. n - h} \subseteq {s[i] : i \in 1 .. n}
  <2>1. \A i \in 1 .. h : l[i] \in {s[j] : j \in 1 .. n}
    BY <1>1, <1>6
  <2>2. ASSUME NEW i \in 1 .. n - h PROVE r[i] \in {s[j] : j \in 1 .. n}
    BY <1>1, <1>7
  <2> QED
    BY <2>1, <2>2
<1>11. ASSUME Distinct(s) PROVE Distinct(l) /\ Distinct(r) /\ Elements(l) \cap Elements(r) = {}
  <2>1. Distinct(l)
    BY <1>1, <1>4, <1>5, <1>6, <1>11
  <2>2. Distinct(r)
    <3> SUFFICES ASSUME NEW i \in 1 .. n - h, NEW j \in 1 .. n - h, r[i] = r[j] PROVE i = j
      BY <1>5
    <3>1. i + h = j + h
      BY <1>1, <1>4, <1>7, <1>11
    <3> QED
      BY <3>1, <1>1
  <2>3. ASSUME NEW i \in 1 .. h, NEW j \in 1 .. n - h, l[i] = r[j] PROVE FALSE
    <3>1. i = j + h
      BY <1>1, <1>4, <1>6, <1>7, <1>11, <2>3
    <3> QED
      BY <3>1, <1>1
  <2>4. Elements(l) \cap Elements(r) = {}
    BY <1>3, <2>3
  <2> QED
    BY <2>1, <2>2, <2>4
<1> QED
  BY <1>3, <1>9, <1>10, <1>11 DEF l, r

LEMMA SortUnfolds ==
  /\ merge_sorted = [s \in Lists |-> MergeSorted(merge_sorted, s)]
  /\ merge_sorted \in [Lists -> Lists]
<1> DEFINE F == [Lists -> Lists]
           size == [s \in Lists |-> Len(s)]
           body == [h \in F |-> [s \in Lists |-> MergeSorted(h, s)]]
<1>1. size \in [Lists -> Nat]
  BY DEF Lists
<1>2. F # {}
  <2>1. [s \in Lists |-> s] \in F
    OBVIOUS
  <2> QED BY <2>1
<1>3. ASSUME NEW h, NEW s \in Lists,
             ~(Len(s) <= 1) => h[LeftHalf(s)] \in Lists /\ h[RightHalf(s)] \in Lists
      PROVE  MergeSorted(h, s) \in Lists
  <2>1. CASE ~(Len(s) <= 1)
    <3>1. <<h[LeftHalf(s)], h[RightHalf(s)]>> \in Pairs
      BY <1>3, <2>1 DEF Pairs
    <3>2. sorted_merge[<<h[LeftHalf(s)], h[RightHalf(s)]>>] \in Lists
      BY <3>1, MergeUnfolds
    <3> QED
      BY <2>1, <3>2, Zenon DEF MergeSorted
  <2> QED
    BY <2>1, Zenon DEF MergeSorted
<1>4. body \in [F -> F]
  <2>1. ASSUME NEW h \in F, NEW s \in Lists PROVE MergeSorted(h, s) \in Lists
    BY <1>3, HalfFacts
  <2> QED
    BY <2>1
<1>5. ASSUME NEW g \in F, NEW h \in F, NEW s \in Lists,
             \A q \in Lists : size[q] < size[s] => g[q] = h[q]
      PROVE  body[g][s] = body[h][s]
  <2>1. MergeSorted(g, s) = MergeSorted(h, s)
    <3>1. CASE ~(Len(s) <= 1)
      <4>1. /\ LeftHalf(s) \in Lists /\ RightHalf(s) \in Lists
            /\ size[LeftHalf(s)] < size[s] /\ size[RightHalf(s)] < size[s]
        <5> DEFINE n == Len(s)
                   k == Half(s)
        <5>1. /\ k \in 1 .. n - 1 /\ n \in Nat
              /\ LeftHalf(s) \in Lists /\ Len(LeftHalf(s)) = k
              /\ RightHalf(s) \in Lists /\ Len(RightHalf(s)) = n - k
          BY <3>1, HalfFacts DEF Lists
        <5> HIDE DEF k
        <5>2. k < n /\ n - k < n
          BY <5>1
        <5> QED
          BY <5>1, <5>2
      <4>2. g[LeftHalf(s)] = h[LeftHalf(s)] /\ g[RightHalf(s)] = h[RightHalf(s)]
        BY <1>5, <4>1
      <4> QED
        BY <4>2, Zenon DEF MergeSorted
    <3> QED
      BY <3>1, Zenon DEF MergeSorted
  <2> HIDE DEF F
  <2> QED
    BY <2>1
<1>6. Recursive(Lists, Lists, size, body)
  <2> HIDE DEF size, body
  <2> QED BY <1>1, <1>2, <1>4, <1>5 DEF Recursive
<1>7. PICK h : Solution(Lists, Lists, body, h)
  <2> HIDE DEF size, body
  <2> QED BY <1>6, Recursion, Zenon
<1>8. h \in F /\ h = [s \in Lists |-> MergeSorted(h, s)]
  BY <1>7 DEF Solution
<1> DEFINE sort == CHOOSE m : m = [s \in Lists |-> MergeSorted(m, s)]
<1>9. sort = [s \in Lists |-> MergeSorted(sort, s)]
  BY <1>8, Zenon
<1>10. merge_sorted = sort
  BY DEF merge_sorted, Lists, MergeSorted, LeftHalf, RightHalf
<1> HIDE DEF sort
<1>11. \A s \in Lists : sort[s] \in Lists
  <2> DEFINE S == {s \in Lists : sort[s] \in Lists}
  <2>1. ASSUME NEW s \in Lists, \A q \in Lists : size[q] < size[s] => q \in S
        PROVE  s \in S
    <3>1. ASSUME ~(Len(s) <= 1)
          PROVE  sort[LeftHalf(s)] \in Lists /\ sort[RightHalf(s)] \in Lists
      <4> DEFINE n == Len(s)
                 k == Half(s)
      <4>1. /\ k \in 1 .. n - 1 /\ n \in Nat
            /\ LeftHalf(s) \in Lists /\ Len(LeftHalf(s)) = k
            /\ RightHalf(s) \in Lists /\ Len(RightHalf(s)) = n - k
        BY <3>1, HalfFacts DEF Lists
      <4> HIDE DEF k
      <4>2. k < n /\ n - k < n
        BY <4>1
      <4> QED
        BY <2>1, <4>1, <4>2
    <3>2. sort[s] = MergeSorted(sort, s)
      BY <1>9
    <3>3. MergeSorted(sort, s) \in Lists
      BY <1>3, <3>1
    <3> QED
      BY <3>2, <3>3
  <2>2. \A s \in Lists : size[s] \in Nat
    BY <1>1
  <2>3. Lists \subseteq S
    <3> HIDE DEF S, size
    <3> QED BY <2>1, <2>2, SizeInduction
  <2> QED
    BY <2>3
<1> QED
  BY <1>9, <1>10, <1>11

(* merge_sort of a list. *)
SortOK(s, m) == Distinct(s) => Elements(m) = Elements(s) /\ Distinct(m) /\ Ordered(m)

LEMMA SortCorrect ==
  ASSUME data \in [Nodes -> Data]
  PROVE  \A s \in Lists : SortOK(s, merge_sorted[s])
<1> DEFINE S == {s \in Lists : SortOK(s, merge_sorted[s])}
           size == [s \in Lists |-> Len(s)]
<1>1. \A s \in Lists : size[s] \in Nat
  BY DEF Lists
<1>2. ASSUME NEW s \in Lists, \A q \in Lists : size[q] < size[s] => q \in S
      PROVE  s \in S
  <2> DEFINE l == LeftHalf(s)
             r == RightHalf(s)
             n == Len(s)
             k == Half(s)
  <2>1. merge_sorted[s] = MergeSorted(merge_sorted, s)
    BY SortUnfolds
  <2>2. n \in Nat
    BY DEF Lists
  <2>3. CASE n <= 1
    <3>1. merge_sorted[s] = s
      BY <2>1, <2>3, Zenon DEF MergeSorted
    <3>2. Ordered(s)
      <4>1. 1 .. n - 1 = {}
        BY <2>2, <2>3
      <4> QED
        BY <4>1 DEF Ordered
    <3>3. SortOK(s, s)
      BY <3>2 DEF SortOK
    <3> QED
      BY <3>1, <3>3
  <2>4. CASE ~(n <= 1)
    <3>1. l \in Lists /\ r \in Lists /\ size[l] < size[s] /\ size[r] < size[s]
      <4>1. /\ k \in 1 .. n - 1
            /\ l \in Lists /\ Len(l) = k
            /\ r \in Lists /\ Len(r) = n - k
        BY <2>4, HalfFacts
      <4> HIDE DEF k, l, r
      <4>2. k < n /\ n - k < n
        BY <2>2, <4>1
      <4> QED
        BY <4>1, <4>2
    <3>2. SortOK(l, merge_sorted[l]) /\ SortOK(r, merge_sorted[r])
      BY <1>2, <3>1
    <3> DEFINE p == <<merge_sorted[l], merge_sorted[r]>>
    <3>3. p \in Pairs
      BY <3>1, SortUnfolds DEF Pairs
    <3>4. MergeOK(p, sorted_merge[p])
      BY <3>3, MergeCorrect
    <3>5. merge_sorted[s] = sorted_merge[p]
      BY <2>1, <2>4, Zenon DEF MergeSorted
    <3>6. /\ Elements(s) = Elements(l) \cup Elements(r)
          /\ Distinct(s) => Distinct(l) /\ Distinct(r) /\ Elements(l) \cap Elements(r) = {}
      BY <2>4, HalfElements
    <3>7. p[1] = merge_sorted[l] /\ p[2] = merge_sorted[r]
      OBVIOUS
    <3> HIDE DEF p, l, r
    <3>8. SortOK(s, sorted_merge[p])
      BY <3>2, <3>4, <3>6, <3>7 DEF SortOK, MergeOK
    <3> QED
      BY <3>5, <3>8
  <2> QED
    BY <2>3, <2>4
<1>3. Lists \subseteq S
  <2> HIDE DEF S, size
  <2> QED BY <1>1, <1>2, SizeInduction
<1> QED
  BY <1>3

LEMMA DistinctLength ==
  ASSUME NEW s \in Lists, Distinct(s)
  PROVE  IsFiniteSet(Elements(s)) /\ Cardinality(Elements(s)) = Len(s)
<1> DEFINE n == Len(s)
<1>1. n \in Nat /\ s = [i \in 1 .. n |-> s[i]]
  BY DEF Lists
<1>2. Elements(s) = {s[i] : i \in 1 .. n}
  BY DEF Elements
<1>3. \A i, j \in 1 .. n : s[i] = s[j] => i = j
  BY DEF Distinct
<1> HIDE DEF n
<1>4. s \in Bijection(1 .. n, Elements(s))
  BY <1>1, <1>2, <1>3 DEF Bijection, Injection, Surjection, IsInjective
<1>5. ExistsBijection(1 .. n, Elements(s))
  BY <1>4 DEF ExistsBijection
<1>6. IsFiniteSet(Elements(s))
  BY <1>1, <1>5, FS_NatBijection
<1>7. Cardinality(Elements(s)) = n
  BY <1>1, <1>5, FS_CountingElements
<1> QED
  BY <1>6, <1>7 DEF n
-----------------------------------------------------------------------------
(* The nodes of the list, from first to last.                              *)
Linked(c, f, nx, lv) ==
  /\ c \in Lists
  /\ Distinct(c)
  /\ Elements(c) = lv
  /\ f = IF c = <<>> THEN Null ELSE c[1]
  /\ \A i \in 1 .. Len(c) : nx[c[i]] = IF i = Len(c) THEN Null ELSE c[i + 1]

LEMMA LinkedFacts ==
  ASSUME NEW c, NEW f, NEW nx, NEW lv, Linked(c, f, nx, lv)
  PROVE  /\ Len(c) \in Nat /\ DOMAIN c = 1 .. Len(c)
         /\ c \in [1 .. Len(c) -> lv]
         /\ c = <<>> <=> Len(c) = 0
         /\ Null \notin lv /\ lv \subseteq Nodes
         /\ IsFiniteSet(lv) /\ Cardinality(lv) = Len(c)
<1>1. c \in Lists /\ Distinct(c) /\ Elements(c) = lv
  BY DEF Linked
<1>2. Len(c) \in Nat /\ DOMAIN c = 1 .. Len(c) /\ c \in [1 .. Len(c) -> Nodes]
  BY <1>1 DEF Lists
<1>3. c \in [1 .. Len(c) -> lv]
  BY <1>1, <1>2 DEF Elements
<1>4. c = <<>> <=> Len(c) = 0
  BY <1>1, TailFacts
<1>5. lv \subseteq Nodes /\ Null \notin Nodes
  BY <1>1, ElementsType, ListAssumption
<1> QED
  BY <1>1, <1>2, <1>3, <1>4, <1>5, DistinctLength

LEMMA LinkedReaches ==
  ASSUME NEW c, NEW f, NEW nx, NEW lv, Linked(c, f, nx, lv)
  PROVE  Reaches(c, f, nx, lv)
<1> DEFINE n == Len(c)
<1>1. /\ n \in Nat /\ DOMAIN c = 1 .. n /\ c \in [1 .. n -> lv]
      /\ c = <<>> <=> n = 0
      /\ Null \notin lv
  BY LinkedFacts
<1>2. /\ f = IF c = <<>> THEN Null ELSE c[1]
      /\ \A i \in 1 .. n : nx[c[i]] = IF i = n THEN Null ELSE c[i + 1]
  BY DEF Linked
<1> HIDE DEF n
<1>3. ASSUME NEW i \in 1 .. n PROVE c[i] \in lv /\ c[i] = IF i = 1 THEN f ELSE nx[c[i - 1]]
  <2>1. CASE i = 1
    BY <1>1, <1>2, <2>1
  <2>2. CASE i # 1
    <3>1. i - 1 \in 1 .. n /\ i - 1 # n /\ (i - 1) + 1 = i
      BY <1>1, <2>2
    <3>2. nx[c[i - 1]] = c[i]
      BY <1>2, <3>1
    <3> QED
      BY <1>1, <2>2, <3>2
  <2> QED
    BY <2>1, <2>2
<1>4. (IF c = <<>> THEN f ELSE nx[c[n]]) \notin lv
  BY <1>1, <1>2
<1> QED
  BY <1>1, <1>3, <1>4 DEF Reaches, n

LEMMA ReachedOnce ==
  ASSUME NEW c, NEW f, NEW nx, NEW lv, Linked(c, f, nx, lv),
         NEW n \in Nat, NEW d \in [1 .. n -> lv], Reaches(d, f, nx, lv)
  PROVE  d = c
<1> DEFINE m == Len(c)
<1>1. /\ m \in Nat /\ DOMAIN c = 1 .. m /\ c \in [1 .. m -> lv]
      /\ c = <<>> <=> m = 0
      /\ Null \notin lv
  BY LinkedFacts
<1>2. /\ f = IF c = <<>> THEN Null ELSE c[1]
      /\ \A i \in 1 .. m : nx[c[i]] = IF i = m THEN Null ELSE c[i + 1]
  BY DEF Linked
<1>3. Len(d) = n /\ (d = <<>> <=> n = 0) /\ DOMAIN d = 1 .. n
  <2>1. d \in Seq(lv) /\ Len(d) = n
    OBVIOUS
  <2> QED
    BY <2>1
<1>4. /\ \A i \in 1 .. n : d[i] \in lv /\ d[i] = IF i = 1 THEN f ELSE nx[d[i - 1]]
      /\ (IF n = 0 THEN f ELSE nx[d[n]]) \notin lv
  BY <1>3 DEF Reaches
<1> HIDE DEF m
<1> DEFINE S == {i \in Nat : i <= m /\ i <= n => \A j \in 1 .. i : d[j] = c[j]}
<1>5. Nat \subseteq S
  <2>1. 0 \in S
    OBVIOUS
  <2>2. ASSUME NEW i \in Nat, i \in S PROVE i + 1 \in S
    <3> SUFFICES ASSUME i + 1 <= m, i + 1 <= n PROVE d[i + 1] = c[i + 1]
      <4>1. i <= m /\ i <= n => \A j \in 1 .. i : d[j] = c[j]
        BY <2>2
      <4> QED
        BY <1>1, <4>1
    <3>1. i + 1 \in 1 .. n /\ i + 1 \in 1 .. m
      BY <1>1
    <3>2. CASE i = 0
      BY <1>1, <1>2, <1>4, <3>1, <3>2
    <3>3. CASE i # 0
      <4>1. i \in 1 .. n /\ i \in 1 .. m /\ i # m /\ (i + 1) - 1 = i /\ i + 1 # 1
        BY <1>1, <3>1, <3>3
      <4>2. d[i] = c[i]
        BY <1>1, <2>2, <4>1
      <4>3. d[i + 1] = nx[d[i]]
        BY <1>4, <3>1, <4>1
      <4>4. nx[c[i]] = c[i + 1]
        BY <1>2, <4>1
      <4> QED
        BY <4>2, <4>3, <4>4
    <3> QED
      BY <3>2, <3>3
  <2> HIDE DEF S
  <2> QED BY <2>1, <2>2, SetInduction
<1>6. ~(n < m)
  <2> SUFFICES ASSUME n < m PROVE FALSE
    OBVIOUS
  <2>1. \A j \in 1 .. n : d[j] = c[j]
    BY <1>1, <1>5
  <2>2. CASE n = 0
    <3>1. f = c[1] /\ c[1] \in lv
      BY <1>1, <1>2, <2>2
    <3> QED
      BY <1>4, <2>2, <3>1
  <2>3. CASE n # 0
    <3>1. n \in 1 .. m /\ n # m /\ n + 1 \in 1 .. m /\ n \in 1 .. n
      BY <1>1, <2>3
    <3>2. nx[d[n]] = c[n + 1]
      BY <1>2, <2>1, <3>1
    <3> QED
      BY <1>1, <1>4, <2>3, <3>1, <3>2
  <2> QED
    BY <2>2, <2>3
<1>7. ~(m < n)
  <2> SUFFICES ASSUME m < n PROVE FALSE
    OBVIOUS
  <2>1. \A j \in 1 .. m : d[j] = c[j]
    BY <1>1, <1>5
  <2>2. CASE m = 0
    <3>1. f = Null /\ d[1] = f /\ d[1] \in lv
      <4>1. 1 \in 1 .. n
        BY <2>2
      <4> QED
        BY <1>1, <1>2, <1>4, <2>2, <4>1
    <3> QED
      BY <1>1, <3>1
  <2>3. CASE m # 0
    <3>1. m \in 1 .. m /\ m + 1 \in 1 .. n /\ (m + 1) - 1 = m /\ m + 1 # 1
      BY <1>1, <2>3
    <3>2. d[m + 1] = nx[d[m]] /\ d[m + 1] \in lv
      <4>1. d[m + 1] \in lv /\ d[m + 1] = IF m + 1 = 1 THEN f ELSE nx[d[(m + 1) - 1]]
        BY <1>4, <3>1
      <4> QED
        BY <3>1, <4>1
    <3>3. nx[c[m]] = Null /\ d[m] = c[m]
      BY <1>2, <2>1, <3>1
    <3> QED
      BY <1>1, <3>2, <3>3
  <2> QED
    BY <2>2, <2>3
<1>8. n = m
  BY <1>1, <1>6, <1>7
<1>9. \A j \in 1 .. n : d[j] = c[j]
  BY <1>1, <1>5, <1>8
<1> QED
  BY <1>1, <1>8, <1>9

LEMMA AlongIs ==
  ASSUME NEW c, NEW f, NEW nx, NEW lv, Linked(c, f, nx, lv)
  PROVE  Along(f, nx, lv) = c
<1> DEFINE D == UNION {[1 .. n -> lv] : n \in 0 .. Cardinality(lv)}
<1>1. c \in D
  <2>1. Len(c) \in 0 .. Cardinality(lv) /\ c \in [1 .. Len(c) -> lv]
    BY LinkedFacts
  <2> QED
    BY <2>1
<1>2. Reaches(c, f, nx, lv)
  BY LinkedReaches
<1>3. ASSUME NEW d \in D, Reaches(d, f, nx, lv) PROVE d = c
  <2>1. PICK n \in 0 .. Cardinality(lv) : d \in [1 .. n -> lv]
    OBVIOUS
  <2>2. n \in Nat
    BY LinkedFacts
  <2> QED
    BY <1>3, <2>1, <2>2, ReachedOnce
<1>4. Along(f, nx, lv) = CHOOSE d \in D : Reaches(d, f, nx, lv)
  BY DEF Along
<1> HIDE DEF D
<1> QED
  BY <1>1, <1>2, <1>3, <1>4
-----------------------------------------------------------------------------
Chain(c) ==
  /\ Linked(c, first, next, live)
  /\ last = LastOf(c)
  /\ length = Len(c)

LEMMA FrontIs ==
  ASSUME NEW c, Chain(c)
  PROVE  /\ Front = c
         /\ Len(c) \in Nat /\ DOMAIN c = 1 .. Len(c)
         /\ c = <<>> <=> Len(c) = 0
         /\ \A i \in 1 .. Len(c) : c[i] \in live /\ c[i] \in Nodes
         /\ last = IF Len(c) = 0 THEN Null ELSE c[Len(c)]
<1>1. Linked(c, first, next, live)
  BY DEF Chain
<1>2. Front = c
  BY <1>1, AlongIs DEF Front
<1>3. /\ Len(c) \in Nat /\ DOMAIN c = 1 .. Len(c)
      /\ c \in [1 .. Len(c) -> live]
      /\ c = <<>> <=> Len(c) = 0
      /\ live \subseteq Nodes
  BY <1>1, LinkedFacts
<1> QED
  BY <1>2, <1>3 DEF Chain, LastOf

LEMMA ChainComplete ==
  ASSUME NEW c, Chain(c)
  PROVE  /\ FrontEnd = Null
         /\ last = IF Front = <<>> THEN Null ELSE Front[Len(Front)]
         /\ length = Len(Front)
         /\ live = {Front[i] : i \in DOMAIN Front}
<1>1. /\ Front = c /\ Len(c) \in Nat /\ DOMAIN c = 1 .. Len(c)
      /\ c = <<>> <=> Len(c) = 0
  BY FrontIs
<1>2. FrontEnd = Null
  <2>1. CASE c = <<>>
    BY <1>1, <2>1 DEF FrontEnd, Chain, Linked
  <2>2. CASE c # <<>>
    <3>1. Len(c) \in 1 .. Len(c)
      BY <1>1, <2>2
    <3>2. next[c[Len(c)]] = Null
      BY <3>1 DEF Chain, Linked
    <3> QED
      BY <1>1, <2>2, <3>2 DEF FrontEnd
  <2> QED
    BY <2>1, <2>2
<1>3. last = IF c = <<>> THEN Null ELSE c[Len(c)]
  BY DEF Chain, LastOf
<1>4. length = Len(c) /\ live = Elements(c)
  BY DEF Chain, Linked
<1> QED
  BY <1>1, <1>2, <1>3, <1>4 DEF Elements

LEMMA AppendFacts ==
  ASSUME NEW s \in Lists, NEW x \in Nodes
  PROVE  /\ Append(s, x) \in Lists
         /\ Len(Append(s, x)) = Len(s) + 1
         /\ \A i \in 1 .. Len(s) : Append(s, x)[i] = s[i]
         /\ Append(s, x)[Len(s) + 1] = x
         /\ Append(s, x) # <<>>
         /\ Elements(Append(s, x)) = Elements(s) \cup {x}
         /\ Distinct(s) /\ x \notin Elements(s) => Distinct(Append(s, x))
<1> DEFINE a == Append(s, x)
           n == Len(s)
<1>1. /\ a \in Lists /\ Len(a) = n + 1 /\ n \in Nat
      /\ \A i \in 1 .. n : a[i] = s[i]
      /\ a[n + 1] = x
      /\ a # <<>>
  BY AppendProperties DEF Lists
<1>2. /\ Elements(a) = {a[i] : i \in 1 .. n + 1}
      /\ Elements(s) = {s[i] : i \in 1 .. n}
      /\ Distinct(s) <=> \A i, j \in 1 .. n : s[i] = s[j] => i = j
      /\ Distinct(a) <=> \A i, j \in 1 .. n + 1 : a[i] = a[j] => i = j
  BY <1>1 DEF Elements, Distinct
<1> HIDE DEF a, n
<1>3. 1 .. n + 1 = 1 .. n \cup {n + 1} /\ n + 1 \notin 1 .. n
  BY <1>1
<1>4. Elements(a) = Elements(s) \cup {x}
  BY <1>1, <1>2, <1>3
<1>5. Distinct(s) /\ x \notin Elements(s) => Distinct(a)
  BY <1>1, <1>2, <1>3
<1> QED
  BY <1>1, <1>4, <1>5 DEF a, n

LEMMA PushLinks ==
  ASSUME NEW c, Chain(c), next \in [Nodes -> Pointers], NEW n \in Nodes, NEW f \in Data, Push(n, f)
  PROVE  Chain(Append(c, n))'
<1> DEFINE a == Append(c, n)
           m == Len(c)
<1>1. /\ Linked(c, first, next, live)
      /\ m \in Nat
      /\ c = <<>> <=> m = 0
      /\ \A i \in 1 .. m : c[i] \in live /\ c[i] \in Nodes
      /\ last = IF m = 0 THEN Null ELSE c[m]
      /\ length = m
  BY FrontIs DEF Chain
<1>2. /\ c \in Lists /\ Distinct(c) /\ Elements(c) = live
      /\ first = IF c = <<>> THEN Null ELSE c[1]
      /\ \A i \in 1 .. m : next[c[i]] = IF i = m THEN Null ELSE c[i + 1]
  BY <1>1 DEF Linked
<1>3. n \notin live /\ live' = live \cup {n} /\ length' = length + 1 /\ last' = n
  BY DEF Push
<1>4. /\ a \in Lists /\ Len(a) = m + 1
      /\ \A i \in 1 .. m : a[i] = c[i]
      /\ a[m + 1] = n
      /\ a # <<>>
      /\ Elements(a) = live'
      /\ Distinct(a)
  BY <1>2, <1>3, AppendFacts
<1>5. first' = a[1]
  <2>1. m # 0 => 1 \in 1 .. m
    BY <1>1
  <2> QED
    BY <1>1, <1>2, <1>4, <2>1 DEF Push
<1>6. Back = (IF m = 0 THEN Null ELSE c[m]) /\ Back # n
  <2>1. m # 0 => m \in 1 .. m
    BY <1>1
  <2>2. Null # n
    BY ListAssumption
  <2> QED
    BY <1>1, <1>3, <2>1, <2>2 DEF Back
<1>7. \A k \in Nodes : next'[k] = IF k = n THEN Null ELSE IF k = Back THEN n ELSE next[k]
  <2>1. next' = [Put(next, Back, n) EXCEPT ![n] = Null]
    BY DEF Push, Linkage
  <2>2. Null \notin Nodes
    BY ListAssumption
  <2>3. Put(next, Back, n) = [k \in Nodes |-> IF k = Back THEN n ELSE next[k]]
    BY <1>1, <2>2, <1>6 DEF Put
  <2> QED
    BY <2>1, <2>3
<1> HIDE DEF a, m
<1>8. m \in Nat
  BY <1>1
<1>9. ASSUME NEW i \in 1 .. m + 1 PROVE next'[a[i]] = IF i = m + 1 THEN Null ELSE a[i + 1]
  <2>1. CASE i = m + 1
    BY <1>4, <1>7, <2>1
  <2>2. CASE i # m + 1
    <3>1. i \in 1 .. m /\ m # 0 /\ m \in 1 .. m
      BY <2>2, <1>8
    <3>2. a[i] = c[i] /\ c[i] \in Nodes /\ c[i] # n
      BY <1>1, <1>3, <1>4, <3>1
    <3>3. next'[a[i]] = IF c[i] = c[m] THEN n ELSE next[c[i]]
      BY <1>6, <1>7, <3>1, <3>2
    <3>4. CASE i = m
      <4>1. a[i + 1] = n
        BY <1>4, <3>4
      <4> QED
        BY <2>2, <3>3, <3>4, <4>1
    <3>5. CASE i # m
      <4>1. i + 1 \in 1 .. m
        BY <1>1, <3>1, <3>5
      <4>2. c[i] # c[m]
        BY <1>2, <3>1, <3>5 DEF Distinct, m
      <4>3. next[c[i]] = c[i + 1] /\ a[i + 1] = c[i + 1]
        BY <1>2, <1>4, <3>1, <3>5, <4>1
      <4> QED
        BY <2>2, <3>3, <4>2, <4>3
    <3> QED
      BY <3>4, <3>5
  <2> QED
    BY <2>1, <2>2
<1>10. Linked(a, first', next', live')
  BY <1>4, <1>5, <1>9 DEF Linked
<1>11. last' = LastOf(a)
  BY <1>3, <1>4 DEF LastOf
<1>12. length' = Len(a)
  BY <1>1, <1>3, <1>4
<1> QED
  BY <1>10, <1>11, <1>12 DEF Chain, a

LEMMA FrontFacts ==
  ASSUME NEW s \in Lists, s # <<>>, NEW b, b = SubSeq(s, 1, Len(s) - 1)
  PROVE  /\ b \in Lists
         /\ Len(b) = Len(s) - 1
         /\ \A i \in 1 .. Len(s) - 1 : b[i] = s[i]
         /\ Distinct(s) => Distinct(b) /\ Elements(b) = Elements(s) \ {s[Len(s)]}
<1> DEFINE n == Len(s)
<1>1. n \in Nat /\ n > 0 /\ n - 1 \in Nat
  BY TailFacts
<1>2. b \in Lists /\ Len(b) = n - 1 /\ \A i \in 1 .. n - 1 : b[i] = s[i]
  <2>1. 1 \in Int /\ n - 1 \in Int /\ \A i \in 1 .. n - 1 : s[i] \in Nodes
    BY <1>1 DEF Lists
  <2>2. /\ b \in Seq(Nodes)
        /\ Len(b) = (IF 1 <= n - 1 THEN ((n - 1) - 1) + 1 ELSE 0)
        /\ \A i \in 1 .. ((n - 1) - 1) + 1 : b[i] = s[(1 + i) - 1]
    BY <2>1, SubSeqProperties
  <2> HIDE DEF n
  <2>3. ((n - 1) - 1) + 1 = n - 1 /\ (~(1 <= n - 1) => n - 1 = 0)
    BY <1>1
  <2>4. \A i \in 1 .. n - 1 : (1 + i) - 1 = i
    OBVIOUS
  <2> QED
    BY <2>2, <2>3, <2>4 DEF Lists
<1>3. /\ Elements(b) = {b[i] : i \in 1 .. n - 1}
      /\ Elements(s) = {s[i] : i \in 1 .. n}
      /\ Distinct(s) <=> \A i, j \in 1 .. n : s[i] = s[j] => i = j
      /\ Distinct(b) <=> \A i, j \in 1 .. n - 1 : b[i] = b[j] => i = j
  BY <1>2 DEF Elements, Distinct
<1> HIDE DEF n
<1>4. 1 .. n = 1 .. n - 1 \cup {n} /\ n \notin 1 .. n - 1
  BY <1>1
<1>5. Distinct(s) => Distinct(b)
  BY <1>2, <1>3, <1>4
<1>6. ASSUME Distinct(s) PROVE Elements(b) = Elements(s) \ {s[n]}
  <2>1. ASSUME NEW i \in 1 .. n - 1 PROVE b[i] \in Elements(s) \ {s[n]}
    BY <1>2, <1>3, <1>4, <1>6
  <2>2. ASSUME NEW i \in 1 .. n, s[i] # s[n] PROVE s[i] \in Elements(b)
    <3>1. i \in 1 .. n - 1
      BY <1>4, <2>2
    <3> QED
      BY <1>2, <1>3, <3>1
  <2>3. ASSUME NEW y \in Elements(b) PROVE y \in Elements(s) \ {s[n]}
    <3>1. PICK i \in 1 .. n - 1 : y = b[i]
      BY <1>3
    <3> QED
      BY <2>1, <3>1
  <2>4. ASSUME NEW y \in Elements(s) \ {s[n]} PROVE y \in Elements(b)
    <3>1. PICK i \in 1 .. n : y = s[i]
      BY <1>3
    <3> QED
      BY <2>2, <3>1
  <2> QED
    BY <2>3, <2>4
<1> QED
  BY <1>2, <1>5, <1>6 DEF n

LEMMA PopLinks ==
  ASSUME NEW c, Chain(c), next \in [Nodes -> Pointers], Pop, ~Stray
  PROVE  Chain(SubSeq(c, 1, Len(c) - 1))'
<1> DEFINE b == SubSeq(c, 1, Len(c) - 1)
           m == Len(c)
<1>1. /\ Linked(c, first, next, live)
      /\ m \in Nat
      /\ c = <<>> <=> m = 0
      /\ \A i \in 1 .. m : c[i] \in live /\ c[i] \in Nodes
      /\ last = IF m = 0 THEN Null ELSE c[m]
      /\ length = m
      /\ Front = c
  BY FrontIs DEF Chain
<1>2. /\ c \in Lists /\ Distinct(c) /\ Elements(c) = live
      /\ first = IF c = <<>> THEN Null ELSE c[1]
      /\ \A i \in 1 .. m : next[c[i]] = IF i = m THEN Null ELSE c[i + 1]
  BY <1>1 DEF Linked
<1>3. m # 0 /\ c # <<>>
  BY <1>1 DEF Pop
<1>4. /\ b \in Lists /\ Len(b) = m - 1
      /\ \A i \in 1 .. m - 1 : b[i] = c[i]
      /\ Distinct(b) /\ Elements(b) = Elements(c) \ {c[m]}
  BY <1>2, <1>3, FrontFacts
<1>5. m # 1 => prev[last] = c[m - 1]
  BY <1>1, <1>3 DEF Stray, Pop
<1>6. NewLast = IF m = 1 THEN Null ELSE c[m - 1]
  BY <1>1, <1>5, Zenon DEF NewLast
<1>7. b = <<>> <=> m = 1
  <2>1. b = <<>> <=> m - 1 = 0
    BY <1>4, TailFacts
  <2> HIDE DEF m, b
  <2> QED
    BY <1>1, <2>1
<1>8. live' = Elements(b)
  BY <1>1, <1>2, <1>3, <1>4 DEF Pop
<1>9. first' = IF b = <<>> THEN Null ELSE b[1]
  <2>1. first' = IF m = 1 THEN Null ELSE c[1]
    BY <1>1, <1>2, <1>3 DEF Pop, FirstLeft
  <2> HIDE DEF m, b
  <2>2. m # 1 => 1 \in 1 .. m - 1
    BY <1>1, <1>3
  <2> QED
    BY <1>4, <1>7, <2>1, <2>2
<1>10. last' = LastOf(b) /\ length' = Len(b)
  <2>1. last' = NewLast /\ length' = m - 1
    BY <1>1 DEF Pop
  <2>2. m # 1 => m - 1 \in 1 .. m - 1
    <3> HIDE DEF m
    <3> QED BY <1>1, <1>3
  <2>3. LastOf(b) = IF m = 1 THEN Null ELSE c[m - 1]
    BY <1>4, <1>7, <2>2, Zenon DEF LastOf
  <2> QED
    BY <1>4, <1>6, <2>1, <2>3
<1>11. \A n \in Nodes : next'[n] = IF m # 1 /\ n = c[m - 1] THEN Null ELSE next[n]
  <2>1. next' = Put(next, NewLast, Null)
    BY DEF Pop
  <2>2. CASE m = 1
    BY <1>6, <2>1, <2>2 DEF Put
  <2>3. CASE m # 1
    <3>1. m - 1 \in 1 .. m
      <4> HIDE DEF m
      <4> QED BY <1>1, <1>3, <2>3
    <3>2. c[m - 1] \in Nodes /\ Null \notin Nodes
      BY <1>1, <3>1, ListAssumption
    <3>3. next' = [next EXCEPT ![c[m - 1]] = Null]
      BY <1>6, <2>1, <2>3, <3>2 DEF Put
    <3> QED
      BY <2>3, <3>3
  <2> QED
    BY <2>2, <2>3
<1> HIDE DEF b, m
<1>12. ASSUME NEW i \in 1 .. m - 1 PROVE next'[b[i]] = IF i = m - 1 THEN Null ELSE b[i + 1]
  <2>1. i \in 1 .. m /\ m - 1 \in 1 .. m /\ i # m /\ m # 1
    BY <1>1
  <2>2. b[i] = c[i] /\ c[i] \in Nodes
    BY <1>1, <1>4, <2>1
  <2>3. c[i] = c[m - 1] <=> i = m - 1
    BY <1>2, <2>1 DEF Distinct, m
  <2>4. next'[b[i]] = IF i = m - 1 THEN Null ELSE next[c[i]]
    BY <1>11, <2>1, <2>2, <2>3
  <2>5. i # m - 1 => i + 1 \in 1 .. m - 1
    BY <1>1
  <2>6. next[c[i]] = c[i + 1]
    BY <1>2, <2>1
  <2> QED
    BY <1>4, <2>4, <2>5, <2>6
<1>13. Linked(b, first', next', live')
  BY <1>4, <1>8, <1>9, <1>12 DEF Linked
<1> QED
  BY <1>10, <1>13 DEF Chain, b

(* In order, nothing comes after the last.                                 *)
LEMMA OrderedLast ==
  ASSUME NEW s \in Lists, Ordered(s), data \in [Nodes -> Data], NEW i \in 1 .. Len(s)
  PROVE  NotAfter(s[i], s[Len(s)])
<1> DEFINE n == Len(s)
           S == {k \in Nat : k < n => NotAfter(s[n - k], s[n])}
<1>1. n \in Nat /\ \A j \in 1 .. n : s[j] \in Nodes
  BY DEF Lists
<1>2. \A j \in 1 .. n : Key[data[s[j]]] \in Int
  BY <1>1, KeyAssumption
<1>3. \A j \in 1 .. n - 1 : Key[data[s[j]]] <= Key[data[s[j + 1]]]
  BY DEF Ordered, NotAfter
<1> HIDE DEF n
<1>4. Nat \subseteq S
  <2>1. 0 \in S
    <3>1. 0 < n => n - 0 = n /\ n \in 1 .. n
      BY <1>1
    <3>2. 0 < n => Key[data[s[n]]] <= Key[data[s[n]]]
      BY <1>2, <3>1
    <3> QED
      BY <3>1, <3>2 DEF NotAfter
  <2>2. ASSUME NEW k \in Nat, k \in S PROVE k + 1 \in S
    <3> SUFFICES ASSUME k + 1 < n PROVE NotAfter(s[n - (k + 1)], s[n])
      OBVIOUS
    <3> DEFINE j == n - (k + 1)
    <3>1. j \in 1 .. n - 1 /\ j \in 1 .. n /\ j + 1 \in 1 .. n /\ n \in 1 .. n
          /\ n - k = j + 1
      BY <1>1
    <3>2. Key[data[s[j + 1]]] <= Key[data[s[n]]]
      BY <1>1, <2>2, <3>1 DEF NotAfter
    <3> HIDE DEF j
    <3>3. Key[data[s[j]]] <= Key[data[s[j + 1]]]
      BY <1>3, <3>1
    <3>4. Key[data[s[j]]] <= Key[data[s[n]]]
      BY <1>2, <3>1, <3>2, <3>3
    <3> QED
      BY <3>4 DEF NotAfter, j
  <2> HIDE DEF S
  <2> QED BY <2>1, <2>2, SetInduction
<1>5. n - i \in Nat /\ n - i < n /\ n - (n - i) = i
  BY <1>1 DEF n
<1> QED
  BY <1>4, <1>5 DEF n

(* merge_sort relinks the nodes of the list in order.                      *)
LEMMA SortLinks ==
  ASSUME NEW c, Chain(c), data \in [Nodes -> Data], Sort
  PROVE  \E s \in Lists : Chain(s)' /\ Len(s) = Len(c) /\ Elements(s) = Elements(c) /\ Ordered(s)
<1>0. PICK s : s = merge_sorted[c]
  OBVIOUS
<1> DEFINE n == Len(s)
<1>1. Front = c /\ c \in Lists /\ Distinct(c) /\ Elements(c) = live /\ length = Len(c)
  BY FrontIs DEF Chain, Linked
<1>2. s \in Lists /\ Elements(s) = Elements(c) /\ Distinct(s) /\ Ordered(s)
  <2>1. s \in Lists /\ SortOK(c, s)
    BY <1>0, <1>1, SortUnfolds, SortCorrect
  <2> QED
    BY <1>1, <2>1 DEF SortOK
<1>3. /\ first' = IF s = <<>> THEN Null ELSE s[1]
      /\ last' = LastOf(s)
      /\ next' = [m \in Nodes |-> Relinked(s, m)]
      /\ live' = live /\ length' = length
  <2>1. merge_sorted[Front] = s
    BY <1>0, <1>1
  <2> QED
    BY <2>1 DEF Sort
<1>4. n = Len(c)
  <2>1. Cardinality(Elements(s)) = n /\ Cardinality(Elements(c)) = Len(c)
    BY <1>1, <1>2, DistinctLength
  <2> QED
    BY <1>2, <2>1
<1>5. ASSUME NEW i \in 1 .. n
      PROVE  next'[s[i]] = IF i = n THEN Null ELSE s[i + 1]
  <2>1. DOMAIN s = 1 .. n /\ s[i] \in Nodes
    BY <1>2 DEF Lists
  <2>2. \A j \in 1 .. n : s[j] = s[i] => j = i
    BY <1>2 DEF Distinct
  <2>3. (CHOOSE j \in DOMAIN s : s[j] = s[i]) = i
    BY <2>1, <2>2
  <2>4. \E j \in DOMAIN s : s[j] = s[i]
    BY <2>1
  <2>5. Relinked(s, s[i]) = IF i = n THEN Null ELSE s[i + 1]
    BY <2>3, <2>4, Zenon DEF Relinked
  <2> QED
    BY <1>3, <2>1, <2>5
<1>6. Linked(s, first', next', live')
  BY <1>1, <1>2, <1>3, <1>5 DEF Linked
<1>7. last' = LastOf(s) /\ length' = Len(s)
  BY <1>1, <1>3, <1>4
<1>8. Chain(s)'
  BY <1>6, <1>7 DEF Chain
<1> QED
  BY <1>2, <1>4, <1>8
-----------------------------------------------------------------------------
FileTypes ==
  /\ next \in [Nodes -> Pointers]
  /\ prev \in [Nodes -> Pointers]
  /\ data \in [Nodes -> Data]
  /\ scan = NoScan
  /\ phase \in {"read", "load"}
  /\ found \in Seq(Data)
  /\ \A i, j \in 1 .. Len(found) : found[i] = found[j] => i = j
  /\ loaded \in Seq(Data)

(* The nodes of the list in the order of the directory: prev still follows *)
(* it, whatever the sort has done.                                         *)
Directory(d) ==
  /\ d \in Lists
  /\ Distinct(d)
  /\ Len(d) = Len(found)
  /\ \A i \in 1 .. Len(found) :
       data[d[i]] = found[i] /\ prev[d[i]] = IF i = 1 THEN Null ELSE d[i - 1]

(* Where the directory had the file that sorts last; 0 if it had none.     *)
SortsLast(g) ==
  /\ g \in 0 .. Len(found)
  /\ g = 0 => Len(found) = 0
  /\ g # 0 => \A i \in 1 .. Len(found) : Key[found[i]] <= Key[found[g]]

(* The pops go back through the directory from there.                      *)
Backwards(d, g) ==
  LET k == Len(loaded) IN
  /\ k <= g
  /\ k = g => g = Len(found)
  /\ live = Elements(d) \ {d[i] : i \in (g - k) + 1 .. g}
  /\ length = Len(found) - k
  /\ last = IF k < g THEN d[g - k] ELSE Null
  /\ \A i \in 1 .. k : loaded[i] = found[(g - i) + 1]
  /\ wrong => k = g - 1 /\ g < Len(found)

Reading == loaded = <<>> /\ ~wrong /\ ~strayed /\ \E d : Directory(d) /\ Chain(d)

Loading == \E d, g : Directory(d) /\ SortsLast(g) /\ Backwards(d, g)

FileInv ==
  /\ FileTypes
  /\ phase = "read" => Reading
  /\ phase = "load" => Loading
  /\ ~strayed => \E c : Chain(c)

LEMMA DirectoryFacts ==
  ASSUME NEW d, Directory(d), FileTypes
  PROVE  /\ Len(found) \in Nat
         /\ \A i \in 1 .. Len(found) : d[i] \in Nodes /\ d[i] \in Elements(d) /\ d[i] # Null
         /\ \A i, j \in 1 .. Len(found) : d[i] = d[j] => i = j
         /\ Elements(d) = {d[i] : i \in 1 .. Len(found)}
<1>1. Len(found) \in Nat
  BY DEF FileTypes
<1>2. \A i \in 1 .. Len(found) : d[i] \in Nodes
  BY DEF Directory, Lists
<1>3. Null \notin Nodes
  BY ListAssumption
<1> QED
  BY <1>1, <1>2, <1>3 DEF Directory, Distinct, Elements

LEMMA FileInit == FInit => FileInv
<1> SUFFICES ASSUME FInit PROVE FileInv
  OBVIOUS
<1>1. /\ next = [n \in Nodes |-> Null] /\ prev = [n \in Nodes |-> Null]
      /\ data \in [Nodes -> Data]
      /\ first = Null /\ last = Null /\ length = 0 /\ live = {} /\ scan = NoScan
      /\ wrong = FALSE /\ strayed = FALSE /\ phase = "read" /\ found = <<>> /\ loaded = <<>>
  <2>1. data = [n \in Nodes |-> CHOOSE d \in Data : TRUE]
    BY DEF FInit, SInit, Init
  <2>2. (CHOOSE d \in Data : TRUE) \in Data
    BY ListAssumption
  <2> QED
    BY <2>1, <2>2 DEF FInit, SInit, Init
<1>2. FileTypes
  BY <1>1 DEF FileTypes, Pointers
<1>3. Elements(<<>>) = {} /\ Distinct(<<>>) /\ <<>> \in Lists /\ Len(<<>>) = 0
  BY DEF Elements, Distinct, Lists
<1>4. Chain(<<>>)
  BY <1>1, <1>3 DEF Chain, Linked, LastOf
<1>5. Directory(<<>>)
  BY <1>1, <1>3 DEF Directory
<1> QED
  BY <1>1, <1>2, <1>4, <1>5 DEF FileInv, Reading

LEMMA ReadFileKeeps ==
  ASSUME FileInv, ReadFile
  PROVE  FileInv'
<1>1. PICK n \in Nodes, f \in Data :
         /\ \A i \in DOMAIN found : found[i] # f
         /\ Push(n, f)
         /\ found' = Append(found, f)
  BY DEF ReadFile
<1>2. PICK d : Directory(d) /\ Chain(d)
  BY DEF FileInv, ReadFile, Reading
<1> DEFINE a == Append(d, n)
           m == Len(found)
<1>3. FileTypes /\ phase = "read" /\ loaded = <<>> /\ ~wrong /\ ~strayed
  BY DEF FileInv, ReadFile, Reading
<1>4. /\ m \in Nat
      /\ \A i \in 1 .. m : d[i] \in Nodes /\ d[i] \in Elements(d)
      /\ Len(d) = m /\ d \in Lists /\ Distinct(d)
      /\ live = Elements(d)
      /\ DOMAIN found = 1 .. m
  <2>1. DOMAIN found = 1 .. m
    BY <1>3 DEF FileTypes
  <2> QED
    BY <1>2, <1>3, <2>1, DirectoryFacts DEF Directory, Chain, Linked
<1>5. Chain(a)'
  BY <1>1, <1>2, <1>3, PushLinks DEF FileTypes
<1>6. /\ n \notin live
      /\ data' = [data EXCEPT ![n] = f]
      /\ prev' = [prev EXCEPT ![n] = Back]
      /\ scan' = scan /\ wrong' = wrong
      /\ next' = Linkage(n)
  BY <1>1 DEF Push
<1>7. Back = IF m = 0 THEN Null ELSE d[m]
  BY <1>2, <1>4, FrontIs, Zenon DEF Back, Chain
<1>8. Back \in Pointers
  <2>1. m # 0 => m \in 1 .. m
    BY <1>4
  <2> QED
    BY <1>4, <1>7, <2>1 DEF Pointers
<1>9. /\ Len(found') = m + 1 /\ found' \in Seq(Data)
      /\ \A i \in 1 .. m : found'[i] = found[i]
      /\ found'[m + 1] = f
  BY <1>1, <1>3 DEF FileTypes
<1>10. /\ a \in Lists /\ Len(a) = m + 1 /\ Distinct(a)
       /\ \A i \in 1 .. m : a[i] = d[i]
       /\ a[m + 1] = n
  BY <1>4, <1>6, AppendFacts
<1> HIDE DEF a, m
<1>11. m \in Nat /\ 1 .. m + 1 = 1 .. m \cup {m + 1} /\ m + 1 \notin 1 .. m
  BY <1>4
<1>12. FileTypes'
  <2>1. Linkage(n) \in [Nodes -> Pointers]
    BY <1>3, <1>8 DEF FileTypes, Linkage, Put, Pointers
  <2>2. \A i, j \in 1 .. m + 1 : found'[i] = found'[j] => i = j
    <3>1. \A i, j \in 1 .. m : found[i] = found[j] => i = j
      BY <1>3 DEF FileTypes, m
    <3>2. \A i \in 1 .. m : found[i] # f
      BY <1>1, <1>4
    <3> QED
      BY <1>9, <1>11, <3>1, <3>2
  <2>3. phase' = phase /\ loaded' = loaded
    BY DEF ReadFile
  <2> QED
    BY <1>3, <1>6, <1>8, <1>9, <2>1, <2>2, <2>3 DEF FileTypes
<1>13. Directory(a)'
  <2>1. ASSUME NEW i \in 1 .. m + 1
        PROVE  data'[a[i]] = found'[i] /\ prev'[a[i]] = IF i = 1 THEN Null ELSE a[i - 1]
    <3>1. CASE i = m + 1
      <4>1. a[i] = n /\ data'[n] = f /\ prev'[n] = Back
        BY <1>3, <1>6, <1>10, <3>1 DEF FileTypes
      <4>2. Back = IF i = 1 THEN Null ELSE a[i - 1]
        <5>1. CASE m = 0
          BY <1>7, <3>1, <5>1
        <5>2. CASE m # 0
          <6>1. i # 1 /\ i - 1 = m /\ m \in 1 .. m
            BY <1>11, <3>1, <5>2
          <6>2. a[m] = d[m]
            BY <1>10, <6>1
          <6> QED
            BY <1>7, <5>2, <6>1, <6>2
        <5> QED
          BY <5>1, <5>2
      <4> QED
        BY <1>9, <3>1, <4>1, <4>2
    <3>2. CASE i \in 1 .. m
      <4>1. a[i] = d[i] /\ d[i] \in Nodes /\ d[i] # n
        BY <1>4, <1>6, <1>10, <3>2
      <4>2. data'[d[i]] = data[d[i]] /\ prev'[d[i]] = prev[d[i]]
        BY <1>3, <1>6, <4>1 DEF FileTypes
      <4>3. data[d[i]] = found[i] /\ prev[d[i]] = IF i = 1 THEN Null ELSE d[i - 1]
        BY <1>2, <3>2 DEF Directory, m
      <4>4. i # 1 => i - 1 \in 1 .. m
        BY <1>11, <3>2
      <4> QED
        BY <1>9, <1>10, <3>2, <4>1, <4>2, <4>3, <4>4
    <3> QED
      BY <1>11, <3>1, <3>2
  <2> QED
    BY <1>9, <1>10, <2>1 DEF Directory
<1>14. phase' = "read" /\ loaded' = <<>> /\ ~wrong' /\ ~strayed'
  BY <1>3, <1>6 DEF ReadFile
<1>15. Reading'
  BY <1>5, <1>13, <1>14 DEF Reading
<1> QED
  BY <1>5, <1>12, <1>14, <1>15 DEF FileInv

(* The sort leaves a chain, and the last of its nodes is that of the file  *)
(* that sorts last.                                                        *)
LEMMA SortFilesKeeps ==
  ASSUME FileInv, SortFiles
  PROVE  FileInv'
<1>1. FileTypes /\ loaded = <<>> /\ ~wrong /\ ~strayed
  BY DEF FileInv, SortFiles, Reading
<1>2. PICK d : Directory(d) /\ Chain(d)
  BY DEF FileInv, SortFiles, Reading
<1>3. data \in [Nodes -> Data]
  BY <1>1 DEF FileTypes
<1>4. PICK s \in Lists : Chain(s)' /\ Len(s) = Len(d) /\ Elements(s) = Elements(d) /\ Ordered(s)
  BY <1>2, <1>3, SortLinks DEF SortFiles
<1>5. /\ UNCHANGED <<length, prev, data, live, scan, wrong, strayed, found, loaded>>
      /\ phase' = "load"
  BY DEF SortFiles, Sort
<1>6. next' \in [Nodes -> Pointers]
  <2>1. PICK t : next' = [n \in Nodes |-> Relinked(t, n)] /\ t \in {merge_sorted[Front]}
    BY DEF SortFiles, Sort
  <2>2. d \in Lists /\ Front = d
    BY <1>2, FrontIs DEF Directory
  <2>3. t \in Lists
    BY <2>1, <2>2, SortUnfolds
  <2>4. ASSUME NEW n \in Nodes PROVE Relinked(t, n) \in Pointers
    <3>1. CASE \E i \in DOMAIN t : t[i] = n
      <4> DEFINE i == CHOOSE i \in DOMAIN t : t[i] = n
      <4>1. i \in DOMAIN t
        BY <3>1
      <4>2. Relinked(t, n) = IF i = Len(t) THEN Null ELSE t[i + 1]
        BY <3>1, Zenon DEF Relinked
      <4> HIDE DEF i
      <4>3. i # Len(t) => t[i + 1] \in Nodes
        BY <2>3, <4>1 DEF Lists
      <4> QED
        BY <4>2, <4>3 DEF Pointers
    <3>2. CASE ~\E i \in DOMAIN t : t[i] = n
      <4>1. Relinked(t, n) = next[n]
        BY <3>2, Zenon DEF Relinked
      <4> QED
        BY <1>1, <4>1 DEF FileTypes
    <3> QED
      BY <3>1, <3>2
  <2> QED
    BY <2>1, <2>4
<1>7. FileTypes'
  BY <1>1, <1>5, <1>6 DEF FileTypes
<1>8. Directory(d)'
  BY <1>2, <1>5 DEF Directory
<1> DEFINE m == Len(found)
<1>9. /\ m \in Nat
      /\ \A i \in 1 .. m : d[i] \in Nodes /\ data[d[i]] = found[i]
      /\ \A i, j \in 1 .. m : d[i] = d[j] => i = j
      /\ Elements(d) = {d[i] : i \in 1 .. m}
      /\ Len(s) = m
  BY <1>1, <1>2, <1>4, DirectoryFacts DEF Directory
<1>10. Elements(s) = {s[i] : i \in 1 .. m}
  BY <1>9 DEF Elements
<1>11. \A i \in 1 .. m : NotAfter(s[i], s[m])
  BY <1>3, <1>4, <1>9, OrderedLast
<1>12. PICK g \in 0 .. m : IF m = 0 THEN g = 0 ELSE g # 0 /\ d[g] = s[m]
  <2> HIDE DEF m
  <2>1. CASE m = 0
    BY <2>1
  <2>2. CASE m # 0
    <3>1. m \in 1 .. m
      BY <1>9, <2>2
    <3>2. s[m] \in Elements(d)
      BY <1>4, <1>10, <3>1
    <3>3. PICK g \in 1 .. m : s[m] = d[g]
      BY <1>9, <3>2
    <3> QED
      BY <2>2, <3>3
  <2> QED
    BY <2>1, <2>2
<1>13. SortsLast(g)'
  <2>1. ASSUME g # 0, NEW i \in 1 .. m PROVE Key[found[i]] <= Key[found[g]]
    <3> HIDE DEF m
    <3>1. m # 0 /\ g \in 1 .. m /\ d[g] = s[m]
      BY <1>12, <2>1
    <3>2. d[i] \in Elements(s)
      BY <1>4, <1>9
    <3>3. PICK j \in 1 .. m : d[i] = s[j]
      BY <1>10, <3>2
    <3>4. Key[data[d[i]]] <= Key[data[d[g]]]
      BY <1>11, <3>1, <3>3 DEF NotAfter
    <3> QED
      BY <1>9, <3>1, <3>4
  <2> QED
    BY <1>5, <1>12, <2>1 DEF SortsLast
<1>14. Backwards(d, g)'
  <2>1. Len(loaded') = 0
    BY <1>1, <1>5
  <2>2. live' = Elements(d)
    BY <1>2, <1>5 DEF Chain, Linked
  <2>3. (g - 0) + 1 .. g = {} /\ 1 .. 0 = {}
    BY <1>12
  <2>4. length' = m
    BY <1>2, <1>5 DEF Chain, Directory
  <2>5. last' = IF 0 < g THEN d[g - 0] ELSE Null
    <3>1. last' = LastOf(s)
      BY <1>4 DEF Chain
    <3>2. s = <<>> <=> m = 0
      BY <1>4, <1>9, TailFacts
    <3> HIDE DEF m
    <3>3. last' = IF m = 0 THEN Null ELSE s[m]
      BY <1>9, <3>1, <3>2 DEF LastOf, m
    <3>4. g - 0 = g /\ (0 < g <=> m # 0)
      BY <1>9, <1>12
    <3> QED
      BY <1>12, <3>3, <3>4
  <2>6. 0 <= g /\ (0 = g => g = m)
    BY <1>12
  <2>7. m - 0 = m
    BY <1>9
  <2>8. found' = found /\ ~wrong'
    BY <1>1, <1>5
  <2> QED
    BY <2>1, <2>2, <2>3, <2>4, <2>5, <2>6, <2>7, <2>8 DEF Backwards
<1>15. Loading'
  BY <1>8, <1>13, <1>14 DEF Loading
<1> QED
  BY <1>4, <1>5, <1>7, <1>15 DEF FileInv

(* The facts that the steps of a pop need: the last node is that of the    *)
(* next file on the way back, and prev leads to the one before it.         *)
LEMMA BackwardsFacts ==
  ASSUME FileTypes, NEW d, Directory(d), NEW g, SortsLast(g), Backwards(d, g),
         NEW k, k = Len(loaded), length # 0
  PROVE  /\ k \in Nat /\ k < g /\ g - k \in 1 .. Len(found) /\ g \in 1 .. Len(found)
         /\ last = d[g - k] /\ last \in live
         /\ data[last] = found[g - k]
         /\ prev[last] = IF g - k = 1 THEN Null ELSE d[(g - k) - 1]
         /\ g - k # 1 => prev[last] \in live
         /\ g - k = 1 => prev[last] \notin live
<1> DEFINE n == Len(found)
<1>1. /\ n \in Nat /\ k \in Nat
      /\ \A i \in 1 .. n : d[i] \in Elements(d) /\ d[i] # Null /\ d[i] \in Nodes
      /\ \A i, j \in 1 .. n : d[i] = d[j] => i = j
  BY DirectoryFacts DEF FileTypes
<1>2. /\ k <= g
      /\ k = g => g = n
      /\ live = Elements(d) \ {d[i] : i \in (g - k) + 1 .. g}
      /\ length = n - k
      /\ last = IF k < g THEN d[g - k] ELSE Null
  BY DEF Backwards
<1>3. g \in 0 .. n
  BY DEF SortsLast
<1>4. \A i \in 1 .. n : data[d[i]] = found[i] /\ prev[d[i]] = IF i = 1 THEN Null ELSE d[i - 1]
  BY DEF Directory
<1>5. Null \notin live
  BY <1>1, <1>2, ListAssumption, ElementsType DEF Directory
<1> HIDE DEF n
<1>6. k < g /\ g - k \in 1 .. n /\ g \in 1 .. n
  BY <1>1, <1>2, <1>3
<1>7. ASSUME NEW i \in 1 .. g - k PROVE d[i] \in live
  <2>1. i \in 1 .. n
    BY <1>1, <1>3, <1>6
  <2>2. ASSUME NEW j \in (g - k) + 1 .. g PROVE d[j] # d[i]
    <3>1. j \in 1 .. n /\ j # i
      BY <1>1, <1>3, <1>6
    <3> QED
      BY <1>1, <2>1, <3>1
  <2> QED
    BY <1>1, <1>2, <2>1, <2>2
<1>8. g - k \in 1 .. g - k /\ (g - k # 1 => (g - k) - 1 \in 1 .. g - k)
  BY <1>6
<1> QED
  BY <1>1, <1>2, <1>4, <1>5, <1>6, <1>7, <1>8 DEF n

LEMMA PopKeeps ==
  ASSUME FileInv, PopFile, Pop, NEW d, Directory(d), NEW g, SortsLast(g), Backwards(d, g)
  PROVE  Backwards(d, g)'
<1> DEFINE n == Len(found)
           k == Len(loaded)
<1>1. FileTypes /\ length # 0 /\ ~wrong
  BY DEF FileInv, Pop, Ready
<1>2. /\ k \in Nat /\ k < g /\ g - k \in 1 .. n /\ g \in 1 .. n
      /\ last = d[g - k] /\ last \in live
      /\ data[last] = found[g - k]
      /\ prev[last] = IF g - k = 1 THEN Null ELSE d[(g - k) - 1]
      /\ g - k = 1 => prev[last] \notin live
  BY <1>1, BackwardsFacts
<1>3. /\ n \in Nat
      /\ live = Elements(d) \ {d[i] : i \in (g - k) + 1 .. g}
      /\ length = n - k
      /\ \A i \in 1 .. k : loaded[i] = found[(g - i) + 1]
  BY <1>1, DirectoryFacts DEF Backwards
<1>4. /\ ~wrong' /\ returned' = data[last]
      /\ last' = NewLast
      /\ live' = live \ {last}
      /\ length' = length - 1
      /\ length # 1 => prev[last] \in live
      /\ found' = found
  BY <1>1 DEF Pop, Taken, PopFile
<1>5. loaded' = Append(loaded, returned')
  BY <1>1, <1>4, Zenon DEF PopFile
<1>6. /\ Len(loaded') = k + 1
      /\ \A i \in 1 .. k : loaded'[i] = loaded[i]
      /\ loaded'[k + 1] = found[g - k]
  BY <1>1, <1>2, <1>4, <1>5, AppendProperties DEF FileTypes
<1> HIDE DEF n, k
<1>7. k + 1 <= g /\ (k + 1 = g => g = n)
  BY <1>2, <1>3, <1>4
<1>8. live' = Elements(d) \ {d[i] : i \in (g - (k + 1)) + 1 .. g}
  <2>1. (g - (k + 1)) + 1 .. g = ((g - k) + 1 .. g) \cup {g - k}
    BY <1>2
  <2> QED
    BY <1>2, <1>3, <1>4, <2>1
<1>9. length' = n - (k + 1)
  BY <1>2, <1>3, <1>4
<1>10. last' = IF k + 1 < g THEN d[g - (k + 1)] ELSE Null
  <2>1. CASE length = 1
    <3>1. ~(k + 1 < g)
      BY <1>2, <1>3, <2>1
    <3> QED
      BY <1>4, <2>1, <3>1 DEF NewLast
  <2>2. CASE length # 1
    <3>1. k + 1 < g /\ g - k # 1 /\ (g - k) - 1 = g - (k + 1)
      BY <1>2, <1>4, <2>2
    <3> QED
      BY <1>2, <1>4, <2>2, <3>1 DEF NewLast
  <2> QED
    BY <2>1, <2>2
<1>11. ASSUME NEW i \in 1 .. k + 1 PROVE loaded'[i] = found[(g - i) + 1]
  <2>1. CASE i = k + 1
    <3>1. (g - i) + 1 = g - k
      BY <1>2, <2>1
    <3> QED
      BY <1>6, <2>1, <3>1
  <2>2. CASE i # k + 1
    <3>1. i \in 1 .. k
      BY <1>2, <2>2
    <3> QED
      BY <1>3, <1>6, <3>1
  <2> QED
    BY <2>1, <2>2
<1> QED
  BY <1>4, <1>6, <1>7, <1>8, <1>9, <1>10, <1>11 DEF Backwards, n

LEMMA GoWrongKeeps ==
  ASSUME FileInv, PopFile, GoWrong, NEW d, Directory(d), NEW g, SortsLast(g), Backwards(d, g)
  PROVE  Backwards(d, g)'
<1> DEFINE n == Len(found)
           k == Len(loaded)
<1>1. FileTypes
  BY DEF FileInv
<1>2. /\ length # 0
      /\ last \notin live \/ (length # 1 /\ prev[last] \notin live)
  BY <1>1, Zenon DEF GoWrong, Misused, Searching, Found, FileTypes
<1>3. /\ k \in Nat /\ k < g /\ g \in 1 .. n
      /\ last \in live
      /\ g - k # 1 => prev[last] \in live
  BY <1>1, <1>2, BackwardsFacts
<1>4. n \in Nat /\ length = n - k
  BY <1>1, DirectoryFacts DEF Backwards
<1>5. k = g - 1 /\ g < n
  <2> HIDE DEF k, n
  <2>1. g - k = 1 /\ length # 1
    BY <1>2, <1>3
  <2> QED
    BY <1>3, <1>4, <2>1
<1>6. UNCHANGED <<listVars, live>> /\ wrong' /\ found' = found
  BY DEF GoWrong, PopFile
<1>7. loaded' = loaded
  BY <1>6, Zenon DEF PopFile
<1> QED
  BY <1>5, <1>6, <1>7 DEF Backwards, listVars

LEMMA PopFileKeeps ==
  ASSUME FileInv, PopFile
  PROVE  FileInv'
<1>1. FileTypes /\ phase = "load"
  BY DEF FileInv, PopFile
<1>2. PICK d, g : Directory(d) /\ SortsLast(g) /\ Backwards(d, g)
  BY <1>1 DEF FileInv, Loading
<1>3. UNCHANGED <<prev, data, scan, phase, found>>
  BY DEF PopFile, SPop, Pop, PopNothing, GoWrong, nodeVars
<1>4. Directory(d)' /\ SortsLast(g)'
  BY <1>2, <1>3 DEF Directory, SortsLast
<1>5. CASE Pop
  <2>1. Backwards(d, g)'
    BY <1>2, <1>5, PopKeeps
  <2>2. next' \in [Nodes -> Pointers]
    <3>1. next' = Put(next, NewLast, Null)
      BY <1>5 DEF Pop
    <3>2. \A p : Put(next, p, Null) \in [Nodes -> Pointers]
      BY <1>1 DEF Put, FileTypes, Pointers
    <3> QED
      BY <3>1, <3>2
  <2>3. loaded' \in Seq(Data)
    <3>1. length # 0 => Len(loaded) \in Nat /\ last \in live /\ data[last] \in Data
      <4>1. ASSUME length # 0
            PROVE  /\ g - Len(loaded) \in 1 .. Len(found)
                   /\ last \in live
                   /\ data[last] = found[g - Len(loaded)]
        BY <1>1, <1>2, <4>1, BackwardsFacts
      <4> QED
        BY <1>1, <4>1 DEF FileTypes
    <3>2. returned' \in Data /\ loaded' = Append(loaded, returned')
      <4>1. length # 0 /\ ~wrong' /\ returned' = data[last]
        BY <1>5 DEF Pop, Taken, Ready
      <4> QED
        BY <3>1, <4>1, Zenon DEF PopFile
    <3> QED
      BY <1>1, <3>2 DEF FileTypes
  <2>4. FileTypes'
    BY <1>1, <1>3, <2>2, <2>3 DEF FileTypes
  <2>5. ASSUME ~strayed' PROVE (\E c : Chain(c))'
    <3>1. ~strayed /\ ~Stray
      BY <2>5 DEF PopFile, SPop
    <3>2. PICK c : Chain(c)
      BY <3>1 DEF FileInv
    <3>3. Chain(SubSeq(c, 1, Len(c) - 1))'
      BY <1>1, <1>5, <3>1, <3>2, PopLinks DEF FileTypes
    <3> QED
      BY <3>3
  <2> QED
    BY <1>1, <1>3, <1>4, <2>1, <2>4, <2>5 DEF FileInv, Loading
<1>6. CASE PopNothing
  <2>1. UNCHANGED <<first, last, length, next, live, wrong>> /\ length = 0
    BY <1>6 DEF PopNothing, listVars, nodeVars
  <2>2. loaded' = loaded
    BY <2>1, Zenon DEF PopFile
  <2>3. Backwards(d, g)' /\ FileTypes'
    BY <1>1, <1>2, <1>3, <2>1, <2>2 DEF Backwards, FileTypes
  <2>4. ASSUME ~strayed' PROVE (\E c : Chain(c))'
    <3>1. PICK c : Chain(c)
      BY <2>4 DEF FileInv, PopFile, SPop
    <3>2. Chain(c)'
      BY <2>1, <3>1 DEF Chain
    <3> QED
      BY <3>2
  <2> QED
    BY <1>1, <1>3, <1>4, <2>3, <2>4 DEF FileInv, Loading
<1>7. CASE GoWrong
  <2>1. UNCHANGED <<first, last, length, next, live>> /\ wrong'
    BY <1>7 DEF GoWrong, listVars, nodeVars
  <2>2. loaded' = loaded
    BY <2>1, Zenon DEF PopFile
  <2>3. Backwards(d, g)'
    BY <1>2, <1>7, GoWrongKeeps
  <2>4. FileTypes'
    BY <1>1, <1>3, <2>1, <2>2 DEF FileTypes
  <2>5. ASSUME ~strayed' PROVE (\E c : Chain(c))'
    <3>1. PICK c : Chain(c)
      BY <2>5 DEF FileInv, PopFile, SPop
    <3>2. Chain(c)'
      BY <2>1, <3>1 DEF Chain
    <3> QED
      BY <3>2
  <2> QED
    BY <1>1, <1>3, <1>4, <2>3, <2>4, <2>5 DEF FileInv, Loading
<1> QED
  BY <1>5, <1>6, <1>7 DEF PopFile, SPop

LEMMA FileNext ==
  ASSUME FileInv, LNext \/ UNCHANGED lvars
  PROVE  FileInv'
<1>1. CASE UNCHANGED fvars
  <2>1. UNCHANGED <<first, last, length, next, prev, data, live, scan, wrong,
                    strayed, phase, found, loaded>>
    BY <1>1 DEF fvars, svars, vars, listVars, nodeVars
  <2>2. FileTypes <=> FileTypes'
    BY <2>1 DEF FileTypes
  <2>3. \A c : Chain(c) <=> Chain(c)'
    BY <2>1 DEF Chain
  <2>4. \A d : Directory(d) <=> Directory(d)'
    BY <2>1 DEF Directory
  <2>5. \A d, g : Backwards(d, g) <=> Backwards(d, g)'
    BY <2>1 DEF Backwards
  <2>6. \A g : SortsLast(g) <=> SortsLast(g)'
    BY <2>1 DEF SortsLast
  <2>7. Reading => Reading'
    BY <2>1, <2>3, <2>4 DEF Reading
  <2>8. Loading => Loading'
    BY <2>4, <2>5, <2>6 DEF Loading
  <2> QED
    BY <2>1, <2>2, <2>3, <2>7, <2>8 DEF FileInv
<1>2. CASE ReadFile
  BY <1>2, ReadFileKeeps
<1>3. CASE SortFiles
  BY <1>3, SortFilesKeeps
<1>4. CASE PopFile
  BY <1>4, PopFileKeeps
<1> QED
  BY <1>1, <1>2, <1>3, <1>4 DEF LNext, Initialise, LoadNull, LoadNext, lvars

LEMMA FileInvariance == LSpec => []FileInv
<1>1. LInit => FileInv
  BY FileInit DEF LInit
<1>2. FileInv /\ [LNext]_lvars => FileInv'
  BY FileNext
<1> QED
  BY <1>1, <1>2, PTL DEF LSpec

(* However many files the directory has, the list of their names stays     *)
(* complete until a pop meets a prev pointer that the sort of loader_init  *)
(* has left stale.                                                         *)
THEOREM ListCompleteUntilStray == LSpec => []CompleteUntilStray
<1>1. FileInv => CompleteUntilStray
  <2> SUFFICES ASSUME FileInv, ~strayed PROVE CompleteUntilStray
    BY DEF CompleteUntilStray
  <2>1. PICK c : Chain(c)
    BY DEF FileInv
  <2> QED
    BY <2>1, ChainComplete DEF CompleteUntilStray
<1> QED
  BY <1>1, FileInvariance, PTL

LEMMA GreatestIs ==
  ASSUME FileTypes, NEW g, SortsLast(g), g # 0
  PROVE  Greatest = g
<1> DEFINE n == Len(found)
<1>1. n \in Nat /\ DOMAIN found = 1 .. n /\ g \in 1 .. n
  BY DEF FileTypes, SortsLast
<1>2. \A i \in 1 .. n : found[i] \in Data /\ Key[found[i]] \in Int
  BY KeyAssumption DEF FileTypes
<1>3. \A i, j \in 1 .. n : found[i] = found[j] => i = j
  BY DEF FileTypes
<1>4. \A i \in 1 .. n : Key[found[i]] <= Key[found[g]]
  BY DEF SortsLast
<1> HIDE DEF n
<1>5. ASSUME NEW k \in 1 .. n, \A i \in 1 .. n : Key[found[i]] <= Key[found[k]]
      PROVE  k = g
  <2>1. Key[found[g]] <= Key[found[k]] /\ Key[found[k]] <= Key[found[g]]
    BY <1>1, <1>4, <1>5
  <2>2. Key[found[g]] = Key[found[k]]
    BY <1>1, <1>2, <2>1
  <2>3. found[g] = found[k]
    BY <1>1, <1>2, <2>2, PathAssumption
  <2> QED
    BY <1>1, <1>3, <2>3
<1>6. Greatest = CHOOSE k \in 1 .. n : \A i \in 1 .. n : Key[found[i]] <= Key[found[k]]
  BY <1>1 DEF Greatest
<1> QED
  BY <1>1, <1>4, <1>5, <1>6

(* Whatever the directory holds and however it is ordered, the loader gets *)
(* the file that sorts last first, then those before it in the directory,  *)
(* one after the other, and follows a NULL pointer after the first of them *)
(* if others are left.                                                     *)
THEOREM DirectoryLoadedBackwards == LSpec => []LoadsBackThroughDirectory
<1>1. FileInv => LoadsBackThroughDirectory
  <2> SUFFICES ASSUME FileInv PROVE LoadsBackThroughDirectory
    OBVIOUS
  <2>1. FileTypes /\ phase \in {"read", "load"}
    BY DEF FileInv, FileTypes
  <2>2. CASE phase = "read"
    <3>1. loaded = <<>> /\ ~wrong
      BY <2>2 DEF FileInv, Reading
    <3> QED
      BY <3>1 DEF LoadsBackThroughDirectory
  <2>3. CASE phase = "load"
    <3>1. PICK d, g : Directory(d) /\ SortsLast(g) /\ Backwards(d, g)
      BY <2>3 DEF FileInv, Loading
    <3> DEFINE k == Len(loaded)
    <3>2. /\ k \in Nat /\ DOMAIN loaded = 1 .. k /\ Len(found) \in Nat
          /\ g \in 0 .. Len(found) /\ k <= g
          /\ \A i \in 1 .. k : loaded[i] = found[(g - i) + 1]
          /\ wrong => k = g - 1 /\ g < Len(found)
      BY <2>1, <3>1 DEF FileTypes, SortsLast, Backwards
    <3>3. g # 0 => Greatest = g
      BY <2>1, <3>1, GreatestIs
    <3> HIDE DEF k
    <3>4. ASSUME NEW i \in 1 .. k PROVE loaded[i] = found[Greatest - i + 1]
      <4>1. g # 0
        BY <3>2
      <4> QED
        BY <3>2, <3>3, <4>1
    <3>5. ASSUME wrong PROVE k = Greatest - 1 /\ Greatest < Len(found)
      <4>1. g # 0
        BY <3>2, <3>5
      <4> QED
        BY <3>2, <3>3, <3>5, <4>1
    <3> QED
      BY <3>2, <3>4, <3>5 DEF LoadsBackThroughDirectory, k
  <2> QED
    BY <2>1, <2>2, <2>3
<1> QED
  BY <1>1, FileInvariance, PTL

(* Only loader_init sorts the list.                                        *)
LEMMA OnlySortFilesSorts ==
  ASSUME FileInv, [LNext]_lvars, Sort, svars' # svars
  PROVE  SortFiles
<1>1. length \in Int
  <2>1. CASE phase = "read"
    <3>1. PICK d : Directory(d) /\ Chain(d)
      BY <2>1 DEF FileInv, Reading
    <3> QED
      BY <3>1, FrontIs DEF Chain
  <2>2. CASE phase = "load"
    <3>1. PICK d, g : Directory(d) /\ SortsLast(g) /\ Backwards(d, g)
      BY <2>2 DEF FileInv, Loading
    <3>2. length = Len(found) - Len(loaded) /\ Len(found) \in Nat /\ Len(loaded) \in Nat
      BY <3>1 DEF Backwards, FileInv, FileTypes
    <3> QED
      BY <3>2
  <2> QED
    BY <2>1, <2>2 DEF FileInv, FileTypes
<1>2. UNCHANGED <<length, prev, data, live, scan, returned, wrong, strayed>> /\ ~wrong
  BY DEF Sort, Ready
<1>3. ~ReadFile
  <2> SUFFICES ASSUME ReadFile PROVE FALSE
    OBVIOUS
  <2>1. length' = length + 1
    BY DEF ReadFile, Push
  <2> QED
    BY <1>1, <1>2, <2>1
<1>4. ~UNCHANGED svars
  OBVIOUS
<1>5. ~PopFile
  <2>1. ASSUME Pop PROVE FALSE
    <3>1. length' = length - 1
      BY <2>1 DEF Pop
    <3> QED
      BY <1>1, <1>2, <3>1
  <2>2. ASSUME PopNothing PROVE FALSE
    BY <1>2, <1>4, <2>2 DEF PopNothing, svars, vars
  <2>3. ASSUME GoWrong PROVE FALSE
    BY <1>2, <2>3 DEF GoWrong
  <2> QED
    BY <2>1, <2>2, <2>3 DEF PopFile, SPop
<1>6. ~UNCHANGED fvars
  BY <1>4 DEF fvars
<1> QED
  BY <1>3, <1>5, <1>6 DEF LNext, Initialise, LoadNull, LoadNext, lvars

(* The sort of loader_init keeps every node of the list, each once, and    *)
(* leaves them in an order in which none is greater than the next, however *)
(* many files there are and whatever order strcmp gives their names.       *)
THEOREM NamesSorted == LSpec => SortSorts
<1> DEFINE A == /\ Len(Front') = Len(Front)
                /\ {Front'[i] : i \in DOMAIN Front'} = {Front[i] : i \in DOMAIN Front}
                /\ \A i \in 1 .. Len(Front') - 1 : compare(Front'[i], Front'[i + 1]) <= 0
<1>1. ASSUME FileInv, [LNext]_lvars PROVE [Sort => A]_svars
  <2> SUFFICES ASSUME Sort, svars' # svars PROVE A
    OBVIOUS
  <2>1. SortFiles
    BY <1>1, OnlySortFilesSorts
  <2>2. PICK d : Directory(d) /\ Chain(d)
    BY <1>1, <2>1 DEF FileInv, SortFiles, Reading
  <2>3. data \in [Nodes -> Data]
    BY <1>1 DEF FileInv, FileTypes
  <2>4. PICK s \in Lists : Chain(s)' /\ Len(s) = Len(d) /\ Elements(s) = Elements(d) /\ Ordered(s)
    BY <2>2, <2>3, SortLinks
  <2>5. Front = d /\ DOMAIN d = 1 .. Len(d)
    BY <2>2, FrontIs
  <2>6. Front' = s
    <3>1. Linked(s, first', next', live')
      BY <2>4 DEF Chain
    <3> QED
      BY <3>1, AlongIs DEF Front
  <2>7. DOMAIN s = 1 .. Len(s)
    BY DEF Lists
  <2>8. ASSUME NEW i \in 1 .. Len(s) - 1 PROVE compare(s[i], s[i + 1]) <= 0
    <3>1. s[i] \in Nodes /\ s[i + 1] \in Nodes
      BY DEF Lists
    <3>2. Key[data[s[i]]] \in Int /\ Key[data[s[i + 1]]] \in Int
      BY <2>3, <3>1, KeyAssumption
    <3>3. Key[data[s[i]]] <= Key[data[s[i + 1]]]
      BY <2>4 DEF Ordered, NotAfter
    <3> QED
      BY <3>2, <3>3 DEF compare
  <2> QED
    BY <2>4, <2>5, <2>6, <2>7, <2>8 DEF Elements
<1>2. SortSorts <=> [][Sort => A]_svars
  BY DEF SortSorts
<1> QED
  BY <1>1, <1>2, FileInvariance, PTL DEF LSpec
-----------------------------------------------------------------------------
LEMMA ModFacts ==
  ASSUME NEW a \in Int, NEW b \in Nat \ {0}
  PROVE  a % b \in 0 .. b - 1 /\ a \div b \in Int /\ a = b * (a \div b) + (a % b)
  OBVIOUS

LEMMA SizeFacts ==
  /\ MemWords \in Nat \ {0} /\ FrameWords \in Nat \ {0} /\ tlb_max_space \in Nat \ {0}
  /\ Registers \in Nat /\ EXIT_CODE \in Nat
  /\ Registers > 4 /\ FrameWords <= MemWords
  /\ Headers.code \in Nat /\ Headers.data \in Nat
  BY MmuAssumption, LoaderAssumption

Mems == [0 .. MemWords - 1 -> Int]
Tlbs == [0 .. tlb_max_space - 1 -> [page : Int, frame : Int]]
Copies == [mem : Mems, tlb : Tlbs, va : Int, how : {"done", "half", "ended"}]
Lines == Seq(Nat \cup {Bad})

LEMMA WriteType ==
  ASSUME NEW mem \in Mems, NEW a \in Int
  PROVE  pm_read_word(mem, a) \in Int /\ \A w \in Int : pm_write_word(mem, a, w) \in Mems
<1>1. a % MemWords \in 0 .. MemWords - 1
  BY SizeFacts, ModFacts
<1> QED
  BY <1>1 DEF pm_read_word, pm_write_word, Mems

LEMMA AddressTypes ==
  ASSUME NEW mem \in Mems, NEW tl \in Tlbs, NEW ptbr \in Int, NEW va \in Int
  PROVE  /\ mmu_resolve(mem, tl, ptbr, va) \in Int
         /\ TlbAfter(mem, tl, ptbr, va) \in Tlbs
         /\ FrameFromMemory(mem, ptbr, va) \in Int
         /\ Slot(va) \in 0 .. tlb_max_space - 1
<1>1. Page(va) \in Int /\ Offset(va) \in Int
  BY SizeFacts, ModFacts DEF Page, Offset
<1>2. Slot(va) \in 0 .. tlb_max_space - 1
  BY <1>1, SizeFacts, ModFacts DEF Slot
<1>3. FrameFromMemory(mem, ptbr, va) \in Int
  <2> DEFINE w == pm_read_word(mem, ptbr + 1 + Page(va))
  <2>1. w \in Int
    <3>1. ptbr + 1 + Page(va) \in Int
      BY <1>1
    <3> QED
      BY <3>1, WriteType
  <2> HIDE DEF w
  <2>2. w % FrameWords \in Int
    BY <2>1, SizeFacts, ModFacts
  <2>3. w - (w % FrameWords) \in Int
    BY <2>1, <2>2
  <2> QED
    BY <2>3 DEF FrameFromMemory, FrameStart, w
<1>4. tl[Slot(va)].frame \in Int
  BY <1>2 DEF Tlbs
<1>5. mmu_resolve(mem, tl, ptbr, va) \in Int
  BY <1>1, <1>3, <1>4 DEF mmu_resolve
<1>6. TlbAfter(mem, tl, ptbr, va) \in Tlbs
  BY <1>1, <1>3 DEF TlbAfter, Entered, Tlbs
<1> QED
  BY <1>2, <1>3, <1>5, <1>6

(* What a line does to a copy, case by case.                               *)
Written(o, ptbr, line) ==
  [mem |-> pm_write_word(o.mem, mmu_resolve(o.mem, o.tlb, ptbr, o.va), line),
   tlb |-> TlbAfter(o.mem, o.tlb, ptbr, o.va),
   va |-> NextAddress(o.va),
   how |-> "done"]

LEMMA LineCases ==
  ASSUME NEW o, NEW ptbr, NEW line
  PROVE  LineCopied(o, ptbr, line) =
           IF o.how # "done" THEN o
           ELSE IF line = Bad THEN [o EXCEPT !.how = "half"]
           ELSE IF ~Resolves(o.mem, o.tlb, ptbr, o.va) THEN [o EXCEPT !.how = "ended"]
           ELSE Written(o, ptbr, line)
  BY Zenon DEF LineCopied, Written

LEMMA LineType ==
  ASSUME NEW o \in Copies, NEW ptbr \in Int, NEW line \in Nat \cup {Bad}
  PROVE  LineCopied(o, ptbr, line) \in Copies
<1>1. o.mem \in Mems /\ o.tlb \in Tlbs /\ o.va \in Int
  BY DEF Copies
<1>2. [o EXCEPT !.how = "half"] \in Copies /\ [o EXCEPT !.how = "ended"] \in Copies
  BY DEF Copies
<1>3. line \in Int
  BY DEF Bad
<1>4. Written(o, ptbr, line) \in Copies
  <2>1. pm_write_word(o.mem, mmu_resolve(o.mem, o.tlb, ptbr, o.va), line) \in Mems
    BY <1>1, <1>3, AddressTypes, WriteType
  <2>2. TlbAfter(o.mem, o.tlb, ptbr, o.va) \in Tlbs
    BY <1>1, AddressTypes
  <2>3. NextAddress(o.va) \in Int
    BY <1>1 DEF NextAddress
  <2> QED
    BY <2>1, <2>2, <2>3 DEF Written, Copies
<1> QED
  BY <1>2, <1>4, LineCases

Copying(f, mem, ptbr, lines) ==
  /\ f \in [0 .. Len(lines) -> Copies]
  /\ f[0] = [mem |-> mem, tlb |-> tlb, va |-> 0, how |-> "done"]
  /\ \A i \in 1 .. Len(lines) : f[i] = LineCopied(f[i - 1], ptbr, lines[i])
  /\ Copied(mem, ptbr, lines) = f[Len(lines)]

LEMMA CopySteps ==
  ASSUME NEW mem \in Mems, tlb \in Tlbs, NEW ptbr \in Int, NEW lines \in Lines
  PROVE  \E f : Copying(f, mem, ptbr, lines)
<1> DEFINE n == Len(lines)
           x == [mem |-> mem, tlb |-> tlb, va |-> 0, how |-> "done"]
           Body(h) == [i \in 0 .. n |-> IF i = 0 THEN x
                                        ELSE LineCopied(h[i - 1], ptbr, lines[i])]
           after == CHOOSE h : h = Body(h)
           round == [p \in (1 .. n) \X Copies |-> LineCopied(p[2], ptbr, lines[p[1]])]
<1>1. n \in Nat /\ \A i \in 1 .. n : lines[i] \in Nat \cup {Bad}
  BY DEF Lines
<1>2. x \in Copies
  BY DEF Copies
<1>3. Copied(mem, ptbr, lines) = after[n]
  BY DEF Copied
<1> HIDE DEF n, x
<1>4. ASSUME NEW i \in 1 .. n, NEW o \in Copies PROVE LineCopied(o, ptbr, lines[i]) \in Copies
  BY <1>1, LineType
<1>5. IsLoop(n, Copies, x, round)
  <2>1. round \in [(1 .. n) \X Copies -> Copies]
    <3>1. ASSUME NEW p \in (1 .. n) \X Copies PROVE LineCopied(p[2], ptbr, lines[p[1]]) \in Copies
      BY <1>4
    <3> QED
      BY <3>1
  <2> HIDE DEF round
  <2> QED
    BY <1>1, <1>2, <2>1 DEF IsLoop
<1>6. \A i \in 1 .. n, o \in Copies : round[<<i, o>>] = LineCopied(o, ptbr, lines[i])
  OBVIOUS
<1> HIDE DEF round
<1>7. PICK h : Left(n, Copies, x, round, h)
  BY <1>5, Loop, Zenon
<1>8. h \in [0 .. n -> Copies] /\ h = Body(h)
  <2>1. h \in [0 .. n -> Copies]
    BY <1>7 DEF Left
  <2>2. h = [i \in 0 .. n |-> IF i = 0 THEN x ELSE round[<<i, h[i - 1]>>]]
    BY <1>7 DEF Left
  <2>3. ASSUME NEW i \in 0 .. n, i # 0
        PROVE  round[<<i, h[i - 1]>>] = LineCopied(h[i - 1], ptbr, lines[i])
    <3>1. i \in 1 .. n /\ i - 1 \in 0 .. n
      BY <1>1, <2>3
    <3>2. h[i - 1] \in Copies
      BY <2>1, <3>1
    <3> QED
      BY <1>6, <3>1, <3>2
  <2> QED
    BY <2>1, <2>2, <2>3
<1>9. after = Body(after)
  BY <1>8, Zenon
<1> HIDE DEF after
<1>10. /\ DOMAIN after = 0 .. n
       /\ after[0] = x
       /\ \A i \in 1 .. n : after[i] = LineCopied(after[i - 1], ptbr, lines[i])
  BY <1>1, <1>9
<1>11. \A i \in 0 .. n : after[i] \in Copies
  <2>1. \A i \in 1 .. n : after[i - 1] \in Copies => after[i] \in Copies
    BY <1>4, <1>10
  <2> QED
    BY <1>1, <1>2, <1>10, <2>1, LoopKeeps
<1>12. after \in [0 .. n -> Copies]
  <2>1. after = [i \in 0 .. n |-> after[i]]
    BY <1>9, <1>10
  <2> QED
    BY <1>11, <2>1
<1>13. Copying(after, mem, ptbr, lines)
  BY <1>3, <1>10, <1>12 DEF Copying, n, x
<1> QED
  BY <1>13

(* The lines of a program before its first bad one.                        *)
GoodOf(lines) == {k \in 1 .. Len(lines) : \A j \in 1 .. k : lines[j] # Bad}

LEMMA CopyOutcome ==
  ASSUME NEW mem, NEW ptbr, NEW lines \in Lines, NEW f, Copying(f, mem, ptbr, lines),
         NEW o, o = Copied(mem, ptbr, lines)
  PROVE  /\ o \in Copies
         /\ o.how = "done" => GoodOf(lines) = 1 .. Len(lines)
         /\ o.how = "half" => GoodOf(lines) # 1 .. Len(lines)
<1> DEFINE n == Len(lines)
           Bads(i) == \E j \in 1 .. i : lines[j] = Bad
           S == {i \in Nat : i <= n => /\ f[i].how = "done" => ~Bads(i)
                                       /\ f[i].how = "half" => Bads(i)}
<1>1. /\ n \in Nat
      /\ f \in [0 .. n -> Copies]
      /\ f[0].how = "done"
      /\ \A i \in 1 .. n : f[i] = LineCopied(f[i - 1], ptbr, lines[i])
      /\ o = f[n]
  BY DEF Copying, Lines
<1> HIDE DEF n
<1>2. 0 \in S
  BY <1>1
<1>3. ASSUME NEW i \in Nat, i \in S PROVE i + 1 \in S
  <2> SUFFICES ASSUME i + 1 <= n
               PROVE  /\ f[i + 1].how = "done" => ~Bads(i + 1)
                      /\ f[i + 1].how = "half" => Bads(i + 1)
    OBVIOUS
  <2>1. i + 1 \in 1 .. n /\ (i + 1) - 1 = i /\ i \in 0 .. n
    BY <1>1
  <2>2. f[i + 1] = LineCopied(f[i], ptbr, lines[i + 1]) /\ f[i] \in Copies
    BY <1>1, <2>1
  <2>3. /\ f[i].how = "done" => ~Bads(i)
        /\ f[i].how = "half" => Bads(i)
    BY <1>1, <1>3, <2>1
  <2>4. Bads(i + 1) <=> Bads(i) \/ lines[i + 1] = Bad
    <3>1. 1 .. i + 1 = 1 .. i \cup {i + 1}
      OBVIOUS
    <3> QED
      BY <3>1
  <2> DEFINE p == f[i]
             line == lines[i + 1]
  <2>5. CASE p.how # "done"
    <3>1. f[i + 1] = p
      BY <2>2, <2>5, LineCases
    <3> QED
      BY <2>3, <2>4, <2>5, <3>1
  <2>6. CASE p.how = "done" /\ line = Bad
    <3>1. f[i + 1] = [p EXCEPT !.how = "half"]
      BY <2>2, <2>6, LineCases
    <3>2. f[i + 1].how = "half"
      BY <2>2, <3>1 DEF Copies
    <3> QED
      BY <2>4, <2>6, <3>2
  <2>7. CASE p.how = "done" /\ line # Bad
    <3>1. \/ f[i + 1] = [p EXCEPT !.how = "ended"]
          \/ f[i + 1] = Written(p, ptbr, line)
      BY <2>2, <2>7, LineCases
    <3>2. f[i + 1].how \in {"ended", "done"}
      BY <2>2, <3>1 DEF Copies, Written
    <3> QED
      BY <2>3, <2>4, <2>7, <3>2
  <2> QED
    BY <2>5, <2>6, <2>7
<1>4. n \in S
  <2>1. Nat \subseteq S
    <3> HIDE DEF S
    <3> QED BY <1>2, <1>3, SetInduction
  <2> QED
    BY <1>1, <2>1
<1>5. /\ o.how = "done" => ~Bads(n)
      /\ o.how = "half" => Bads(n)
  BY <1>1, <1>4
<1>6. GoodOf(lines) = 1 .. n <=> ~Bads(n)
  <2>1. ASSUME ~Bads(n), NEW k \in 1 .. n PROVE k \in GoodOf(lines)
    <3>1. \A j \in 1 .. k : j \in 1 .. n
      BY <1>1
    <3> QED
      BY <2>1, <3>1 DEF GoodOf, n
  <2>2. ASSUME NEW k \in 1 .. n, lines[k] = Bad PROVE k \notin GoodOf(lines)
    <3>1. k \in 1 .. k
      BY <1>1
    <3> QED
      BY <2>2, <3>1 DEF GoodOf
  <2>3. GoodOf(lines) \subseteq 1 .. n
    BY DEF GoodOf, n
  <2> QED
    BY <2>1, <2>2, <2>3
<1>7. o \in Copies
  BY <1>1
<1> QED
  BY <1>5, <1>6, <1>7 DEF n

LEMMA SmallMod ==
  ASSUME NEW a \in Nat, NEW b \in Nat \ {0}, a < b
  PROVE  a % b = a /\ a \div b = 0
  OBVIOUS

(* The frame to which the page table at address 0 leads page 0 of a        *)
(* program, unless the TLB knows another.                                  *)
Frame0(mem) == IF tlb[0].page = 0 THEN tlb[0].frame ELSE FrameStart(mem[1 % MemWords])

(* The memory after the first i lines, of those before the first bad one,  *)
(* have gone to the frame fr.                                              *)
Through(mem, lines, fr, i) ==
  [a \in 0 .. MemWords - 1 |->
     LET k == ((a - fr) % MemWords) + 1 IN
     IF k \in GoodOf(lines) /\ k <= i THEN lines[k] ELSE mem[a]]

CopiedSoFar(p, mem, lines, fr, i) ==
  p.how # "ended" =>
    /\ p.mem = Through(mem, lines, fr, i)
    /\ p.how = "half" => \E j \in 1 .. i : lines[j] = Bad
    /\ p.how = "done" =>
         /\ p.va = i /\ \A j \in 1 .. i : lines[j] # Bad
         /\ IF p.tlb[0].page = 0 THEN p.tlb[0].frame = fr
            ELSE FrameStart(p.mem[1 % MemWords]) = fr

LEMMA ThroughNext ==
  ASSUME NEW mem, NEW lines, NEW fr \in Int, NEW i \in Nat, i + 1 \notin GoodOf(lines)
  PROVE  Through(mem, lines, fr, i + 1) = Through(mem, lines, fr, i)
<1>1. \A k \in GoodOf(lines) : k <= i + 1 <=> k <= i
  BY DEF GoodOf
<1> QED
  BY <1>1 DEF Through

(* The word that is i words behind the start of a frame, in a memory that  *)
(* wraps around.                                                           *)
LEMMA WordOfFrame ==
  ASSUME NEW fr \in Int, NEW i \in 0 .. MemWords - 1, NEW b \in 0 .. MemWords - 1
  PROVE  (b - fr) % MemWords = i <=> b = (i + fr) % MemWords
<1> DEFINE M == MemWords
<1>1. M \in Nat \ {0}
  BY SizeFacts
<1> HIDE DEF M
<1>2. PICK q \in Int, r \in 0 .. M - 1 : b - fr = M * q + r /\ r = (b - fr) % M
  <2>1. b - fr \in Int
    BY <1>1 DEF M
  <2> QED
    BY <1>1, <2>1, ModFacts
<1>3. PICK t \in Int, u \in 0 .. M - 1 : i + fr = M * t + u /\ u = (i + fr) % M
  <2>1. i + fr \in Int
    BY <1>1 DEF M
  <2> QED
    BY <1>1, <2>1, ModFacts
<1>4. \A x \in Int : M * x < M /\ -M < M * x => x = 0
  BY <1>1
<1>5. q + t \in Int /\ M * (q + t) = M * q + M * t /\ M * q \in Int /\ M * t \in Int
  BY <1>1
<1>6. i \in 0 .. M - 1 /\ b \in 0 .. M - 1
  BY DEF M
<1>7. ASSUME r = i PROVE b = u
  <2>1. M * (q + t) = b - u
    BY <1>2, <1>3, <1>5, <1>6, <1>7
  <2>2. b - u < M /\ -M < b - u
    BY <1>1, <1>3, <1>6
  <2>3. q + t = 0
    BY <1>4, <1>5, <2>1, <2>2
  <2>4. M * (q + t) = 0
    BY <1>1, <2>3
  <2> QED
    BY <1>3, <1>6, <2>1, <2>4
<1>8. ASSUME b = u PROVE r = i
  <2>1. M * (q + t) = i - r
    BY <1>2, <1>3, <1>5, <1>6, <1>8
  <2>2. i - r < M /\ -M < i - r
    BY <1>1, <1>2, <1>6
  <2>3. q + t = 0
    BY <1>4, <1>5, <2>1, <2>2
  <2>4. M * (q + t) = 0
    BY <1>1, <2>3
  <2> QED
    BY <1>2, <1>6, <2>1, <2>4
<1> QED
  BY <1>2, <1>3, <1>7, <1>8 DEF M

(* Where an address of page 0 leads, and that its frame is known then.     *)
LEMMA PageAddress ==
  ASSUME NEW mem \in Mems, NEW tl \in Tlbs, NEW va \in 0 .. FrameWords - 1, NEW fr \in Int,
         IF tl[0].page = 0 THEN tl[0].frame = fr ELSE FrameStart(mem[1 % MemWords]) = fr
  PROVE  /\ mmu_resolve(mem, tl, 0, va) = va + fr
         /\ TlbAfter(mem, tl, 0, va)[0].page = 0
         /\ TlbAfter(mem, tl, 0, va)[0].frame = fr
<1>1. Page(va) = 0 /\ Offset(va) = va
  BY SizeFacts, SmallMod DEF Page, Offset
<1>2. Slot(va) = 0 /\ 0 \in 0 .. tlb_max_space - 1
  BY <1>1, SizeFacts, SmallMod DEF Slot
<1>3. Match(tl, va) <=> tl[0].page = 0
  BY <1>1, <1>2 DEF Match
<1>4. FrameFromMemory(mem, 0, va) = FrameStart(mem[1 % MemWords])
  <2>1. 0 + 1 + Page(va) = 1
    BY <1>1
  <2> QED
    BY <2>1 DEF FrameFromMemory, pm_read_word
<1>5. mmu_resolve(mem, tl, 0, va) = va + fr
  BY <1>1, <1>2, <1>3, <1>4 DEF mmu_resolve
<1>6. CASE tl[0].page = 0
  BY <1>3, <1>5, <1>6 DEF TlbAfter
<1>7. CASE tl[0].page # 0
  <2> DEFINE e == [page |-> 0, frame |-> fr]
  <2>1. TlbAfter(mem, tl, 0, va) = [tl EXCEPT ![0] = e]
    BY <1>1, <1>2, <1>3, <1>4, <1>7 DEF TlbAfter, Entered
  <2>2. [tl EXCEPT ![0] = e][0] = e
    BY <1>2 DEF Tlbs
  <2>3. e.page = 0 /\ e.frame = fr
    OBVIOUS
  <2> HIDE DEF e
  <2> QED
    BY <1>5, <2>1, <2>2, <2>3
<1> QED
  BY <1>6, <1>7

LEMMA LineOfPage ==
  ASSUME NEW mem \in Mems, NEW fr \in Int, NEW lines \in Lines,
         NEW i \in Nat, i + 1 <= Len(lines),
         GoodOf(lines) \subseteq 1 .. FrameWords,
         NEW p \in Copies, CopiedSoFar(p, mem, lines, fr, i)
  PROVE  CopiedSoFar(LineCopied(p, 0, lines[i + 1]), mem, lines, fr, i + 1)
<1> DEFINE line == lines[i + 1]
           n == Len(lines)
<1>0. n \in Nat /\ i + 1 \in 1 .. n /\ line \in Nat \cup {Bad}
  BY DEF Lines
<1>1. 1 .. i + 1 = 1 .. i \cup {i + 1}
  OBVIOUS
<1>2. p.how \in {"done", "half", "ended"}
  BY DEF Copies
<1>3. CASE p.how = "ended"
  BY <1>3, LineCases DEF CopiedSoFar
<1>4. CASE p.how = "half"
  <2>1. LineCopied(p, 0, line) = p
    BY <1>4, LineCases
  <2>2. PICK j \in 1 .. i : lines[j] = Bad
    BY <1>4 DEF CopiedSoFar
  <2>3. j \in 1 .. i + 1 /\ i + 1 \notin GoodOf(lines)
    BY <1>1, <2>2 DEF GoodOf
  <2>4. Through(mem, lines, fr, i + 1) = Through(mem, lines, fr, i)
    BY <2>3, ThroughNext
  <2> QED
    BY <1>4, <2>1, <2>2, <2>3, <2>4 DEF CopiedSoFar
<1>5. CASE p.how = "done" /\ line = Bad
  <2>1. LineCopied(p, 0, line) = [p EXCEPT !.how = "half"]
    BY <1>5, LineCases
  <2> DEFINE q == [p EXCEPT !.how = "half"]
  <2>2. q.how = "half" /\ q.mem = p.mem
    BY DEF Copies
  <2>3. i + 1 \in 1 .. i + 1 /\ i + 1 \notin GoodOf(lines)
    BY <1>5 DEF GoodOf
  <2>4. Through(mem, lines, fr, i + 1) = Through(mem, lines, fr, i)
    BY <2>3, ThroughNext
  <2> HIDE DEF q
  <2>5. CopiedSoFar(q, mem, lines, fr, i + 1)
    BY <1>5, <2>2, <2>3, <2>4 DEF CopiedSoFar
  <2> QED
    BY <2>1, <2>5 DEF q
<1>6. CASE p.how = "done" /\ line # Bad
  <2>1. /\ p.va = i /\ p.mem = Through(mem, lines, fr, i)
        /\ \A j \in 1 .. i : lines[j] # Bad
        /\ IF p.tlb[0].page = 0 THEN p.tlb[0].frame = fr
           ELSE FrameStart(p.mem[1 % MemWords]) = fr
    BY <1>6 DEF CopiedSoFar
  <2>2. p.tlb \in Tlbs /\ p.mem \in Mems
    BY DEF Copies
  <2>3. \A j \in 1 .. i + 1 : lines[j] # Bad
    BY <1>1, <1>6, <2>1
  <2>4. i + 1 \in GoodOf(lines)
    BY <1>0, <2>3 DEF GoodOf
  <2>5. i \in 0 .. FrameWords - 1 /\ i \in 0 .. MemWords - 1
    <3>1. i + 1 \in 1 .. FrameWords
      BY <2>4
    <3> QED
      BY <3>1, SizeFacts
  <2> DEFINE a == (i + fr) % MemWords
             q == Written(p, 0, line)
  <2>6. a \in 0 .. MemWords - 1
    <3>1. i + fr \in Int
      OBVIOUS
    <3> QED
      BY <3>1, SizeFacts, ModFacts
  <2>7. /\ mmu_resolve(p.mem, p.tlb, 0, i) = i + fr
        /\ TlbAfter(p.mem, p.tlb, 0, i)[0].page = 0
        /\ TlbAfter(p.mem, p.tlb, 0, i)[0].frame = fr
    BY <2>1, <2>2, <2>5, PageAddress
  <2>8. /\ q.how = "done" /\ q.va = i + 1
        /\ q.tlb = TlbAfter(p.mem, p.tlb, 0, i)
        /\ q.mem = [p.mem EXCEPT ![a] = line]
    BY <2>1, <2>7 DEF Written, NextAddress, pm_write_word
  <2>9. LineCopied(p, 0, line) = q \/ LineCopied(p, 0, line) = [p EXCEPT !.how = "ended"]
    BY <1>6, LineCases
  <2> HIDE DEF q
  <2>10. [p.mem EXCEPT ![a] = line] = Through(mem, lines, fr, i + 1)
    <3> DEFINE t == Through(mem, lines, fr, i)
               u == Through(mem, lines, fr, i + 1)
    <3>1. DOMAIN p.mem = 0 .. MemWords - 1
      BY <2>2 DEF Mems
    <3>2. u[a] = line
      <4>1. ((a - fr) % MemWords) + 1 = i + 1
        BY <2>5, <2>6, WordOfFrame
      <4> HIDE DEF a
      <4> QED
        BY <2>4, <2>6, <4>1 DEF Through
    <3>3. ASSUME NEW b \in 0 .. MemWords - 1, b # a PROVE u[b] = t[b]
      <4> DEFINE k == ((b - fr) % MemWords) + 1
      <4>1. (b - fr) % MemWords \in Int
        <5>1. b - fr \in Int
          BY SizeFacts
        <5> QED
          BY <5>1, SizeFacts, ModFacts
      <4>2. (b - fr) % MemWords # i
        BY <2>5, <3>3, WordOfFrame
      <4>3. k \in Int /\ k # i + 1
        BY <4>1, <4>2
      <4> HIDE DEF k
      <4>4. k <= i + 1 <=> k <= i
        BY <4>3
      <4> QED
        BY <4>4 DEF Through, k
    <3>4. DOMAIN u = 0 .. MemWords - 1 /\ u = [b \in 0 .. MemWords - 1 |-> u[b]]
      BY DEF Through
    <3> HIDE DEF a, t, u
    <3>5. [p.mem EXCEPT ![a] = line] = [b \in 0 .. MemWords - 1 |-> IF b = a THEN line ELSE t[b]]
      BY <2>1, <3>1 DEF t
    <3>6. \A b \in 0 .. MemWords - 1 : u[b] = IF b = a THEN line ELSE t[b]
      BY <3>2, <3>3
    <3>7. [p.mem EXCEPT ![a] = line] = u
      BY <3>4, <3>5, <3>6
    <3> QED
      BY <3>7 DEF u
  <2> HIDE DEF a
  <2>11. CopiedSoFar(q, mem, lines, fr, i + 1)
    BY <2>3, <2>7, <2>8, <2>10 DEF CopiedSoFar
  <2>12. [p EXCEPT !.how = "ended"].how = "ended"
    BY DEF Copies
  <2> QED
    BY <2>9, <2>11, <2>12 DEF CopiedSoFar
<1> QED
  BY <1>2, <1>3, <1>4, <1>5, <1>6

(* A program of one page, up to its first bad line.                        *)
LEMMA PageCopied ==
  ASSUME NEW mem \in Mems, tlb \in Tlbs, NEW lines \in Lines,
         GoodOf(lines) \subseteq 1 .. FrameWords,
         NEW f, Copying(f, mem, 0, lines), Copied(mem, 0, lines).how # "ended"
  PROVE  Copied(mem, 0, lines).mem = Through(mem, lines, Frame0(mem), Len(lines))
<1> DEFINE n == Len(lines)
           fr == Frame0(mem)
           S == {i \in Nat : i <= n => CopiedSoFar(f[i], mem, lines, fr, i)}
<1>1. /\ n \in Nat
      /\ f \in [0 .. n -> Copies]
      /\ f[0] = [mem |-> mem, tlb |-> tlb, va |-> 0, how |-> "done"]
      /\ \A i \in 1 .. n : f[i] = LineCopied(f[i - 1], 0, lines[i])
      /\ Copied(mem, 0, lines) = f[n]
  BY DEF Copying, Lines
<1>2. fr \in Int
  <2>1. 0 \in 0 .. tlb_max_space - 1
    BY SizeFacts
  <2>2. tlb[0].frame \in Int
    BY <2>1 DEF Tlbs
  <2>3. 1 % MemWords \in 0 .. MemWords - 1
    BY SizeFacts, ModFacts
  <2> DEFINE w == mem[1 % MemWords]
  <2>4. w \in Int
    BY <2>3 DEF Mems
  <2> HIDE DEF w
  <2>5. w % FrameWords \in Int
    BY <2>4, SizeFacts, ModFacts
  <2>6. FrameStart(w) \in Int
    BY <2>4, <2>5 DEF FrameStart
  <2> QED
    BY <2>2, <2>6 DEF Frame0, w
<1>3. 0 \in S
  <2>1. \A k \in GoodOf(lines) : ~(k <= 0)
    BY DEF GoodOf
  <2>2. Through(mem, lines, fr, 0) = mem
    BY <2>1 DEF Through, Mems
  <2>3. IF tlb[0].page = 0 THEN tlb[0].frame = fr ELSE FrameStart(mem[1 % MemWords]) = fr
    BY DEF Frame0
  <2> HIDE DEF fr
  <2>4. CopiedSoFar(f[0], mem, lines, fr, 0)
    BY <1>1, <2>2, <2>3 DEF CopiedSoFar
  <2> QED
    BY <2>4
<1> HIDE DEF fr
<1>4. ASSUME NEW i \in Nat, i \in S PROVE i + 1 \in S
  <2> SUFFICES ASSUME i + 1 <= n PROVE CopiedSoFar(f[i + 1], mem, lines, fr, i + 1)
    OBVIOUS
  <2>1. i + 1 \in 1 .. n /\ (i + 1) - 1 = i /\ i \in 0 .. n /\ i + 1 <= n
    BY <1>1
  <2>2. f[i + 1] = LineCopied(f[i], 0, lines[i + 1]) /\ f[i] \in Copies
    BY <1>1, <2>1
  <2>3. CopiedSoFar(f[i], mem, lines, fr, i)
    BY <1>1, <1>4
  <2> QED
    BY <1>2, <2>1, <2>2, <2>3, LineOfPage
<1>5. Nat \subseteq S
  <2> HIDE DEF S
  <2> QED BY <1>3, <1>4, SetInduction
<1>6. CopiedSoFar(f[n], mem, lines, fr, n)
  BY <1>1, <1>5
<1> QED
  BY <1>1, <1>6 DEF CopiedSoFar, fr
-----------------------------------------------------------------------------
Fields == Nat \cup {Unset}
Pcbs == [0 .. PcbWords - 1 -> Fields]

(* Where the pcb's fields are, and what the snapshot overwrites.           *)
LEMMA FieldFacts ==
  /\ PcbWords \in Nat /\ PcbWords > 5
  /\ \A i \in {status, memory_map_data, memory_map_code, pgb} :
       i \in 0 .. PcbWords - 1
  /\ pgb \in SnapshotAt + 1 .. SnapshotAt + SnapshotWords - 1
  /\ pgb \notin {SnapshotAt, status, memory_map_data}
  /\ NewPcb \in Pcbs
  /\ PR_READY \in Nat
<1>1. Registers \in Nat /\ Registers > 4
  BY SizeFacts
<1>2. PcbWords \in Nat /\ PcbWords > 5
  BY <1>1 DEF PcbWords
<1> QED
  BY <1>1, <1>2 DEF status, memory_map_data, memory_map_code, pgb, SnapshotAt,
                    SnapshotWords, NewPcb, Pcbs, Fields, PR_READY

LEMMA SnapshotFacts ==
  ASSUME NEW p \in Pcbs, NEW PC \in Nat
  PROVE  /\ SnapshotInit(p, PC) \in Pcbs
         /\ SnapshotInit(p, PC)[pgb] = 0
<1>1. DOMAIN p = 0 .. PcbWords - 1
  BY DEF Pcbs
<1>2. SnapshotInit(p, PC) \in Pcbs
  <2>1. ASSUME NEW i \in 0 .. PcbWords - 1
        PROVE  (IF i = SnapshotAt THEN PC
                ELSE IF i \in SnapshotAt + 1 .. SnapshotAt + SnapshotWords - 1 THEN 0
                ELSE p[i]) \in Fields
    BY DEF Pcbs, Fields
  <2> QED
    BY <1>1, <2>1 DEF SnapshotInit, Pcbs
<1>3. SnapshotInit(p, PC)[pgb] = 0
  BY <1>1, FieldFacts DEF SnapshotInit
<1> QED
  BY <1>2, <1>3

NullPcb(table) ==
  SnapshotInit([NewPcb EXCEPT ![pgb] = table, ![memory_map_data] = 0, ![memory_map_code] = 0], 0)

ProgramPcb(table) ==
  [SnapshotInit([NewPcb EXCEPT ![pgb] = table, ![memory_map_code] = Headers.code], Headers.code)
     EXCEPT ![memory_map_data] = Headers.data]

LEMMA PcbFacts ==
  ASSUME NEW table \in Nat
  PROVE  /\ NullPcb(table) # NoPcb /\ NullPcb(table)[pgb] = 0
         /\ ProgramPcb(table) \in Pcbs /\ ProgramPcb(table)[pgb] = 0
<1> DEFINE null == NullPcb(table)
<1>1. [NewPcb EXCEPT ![pgb] = table, ![memory_map_data] = 0, ![memory_map_code] = 0] \in Pcbs
  BY FieldFacts DEF Pcbs, Fields
<1>2. null \in Pcbs /\ null[pgb] = 0
  BY <1>1, SnapshotFacts DEF NullPcb
<1>3. null # NoPcb
  <2>1. DOMAIN null = 0 .. PcbWords - 1 /\ 0 \in 0 .. PcbWords - 1
    BY <1>2, FieldFacts DEF Pcbs
  <2>2. DOMAIN NoPcb = {}
    BY DEF NoPcb
  <2> QED
    BY <2>1, <2>2
<1>4. [NewPcb EXCEPT ![pgb] = table, ![memory_map_code] = Headers.code] \in Pcbs
  BY FieldFacts, SizeFacts DEF Pcbs, Fields
<1> DEFINE s == SnapshotInit([NewPcb EXCEPT ![pgb] = table, ![memory_map_code] = Headers.code],
                             Headers.code)
<1>5. s \in Pcbs /\ s[pgb] = 0
  BY <1>4, SizeFacts, SnapshotFacts
<1> HIDE DEF s
<1>6. ProgramPcb(table) = [s EXCEPT ![memory_map_data] = Headers.data]
  BY DEF ProgramPcb, s
<1>7. ProgramPcb(table) \in Pcbs /\ ProgramPcb(table)[pgb] = 0
  BY <1>5, <1>6, FieldFacts, SizeFacts DEF Pcbs, Fields
<1> QED
  BY <1>2, <1>3, <1>7

(* A pcb keeps its page table when it becomes ready.                       *)
LEMMA ReadyPcb ==
  ASSUME NEW p \in Pcbs
  PROVE  LET q == [p EXCEPT ![status] = PR_READY] IN q \in Pcbs /\ q[pgb] = p[pgb]
  BY FieldFacts DEF Pcbs, Fields

LEMMA FileFacts ==
  ASSUME NEW c \in Contents
  PROVE  /\ c.lines \in Lines
         /\ c.kind \in {"gone", "short", "program"}
         /\ c.kind = "gone" <=> c = Gone
         /\ c.kind # "program" => c.lines = <<>>
         /\ Len(c.lines) \in Nat
<1>1. c \in {Gone, Short} \/ (c = Program(c.lines) /\ c.lines \in Lines)
  BY LoaderAssumption DEF Lines
<1>2. <<>> \in Lines
  BY DEF Lines
<1>3. c.lines \in Lines
  BY <1>1, <1>2 DEF Gone, Short
<1>4. /\ Gone.kind = "gone" /\ Gone.lines = <<>>
      /\ Short.kind = "short" /\ Short.lines = <<>>
      /\ Program(c.lines).kind = "program"
  BY DEF Gone, Short, Program
<1> QED
  BY <1>1, <1>3, <1>4 DEF Lines

(* What the variables of the loader hold; before the null process is set   *)
(* up nothing has been loaded.                                             *)
LoaderTypes ==
  /\ memory \in Mems
  /\ tlb \in Tlbs
  /\ queue \in Seq(Pcbs)
  /\ read \in Seq(Contents)
  /\ ended \in BOOLEAN
  /\ Len(queue) <= Len(read)
  /\ ~ended => Len(queue) = Len(read)
  /\ null_pcb # NoPcb => null_pcb[pgb] = 0
  /\ null_pcb = NoPcb => read = <<>>

PcbsOK ==
  \A i \in 1 .. Len(queue) : queue[i][pgb] = IF read[i].kind = "short" THEN Unset ELSE 0

LEMMA LoaderTypesFacts ==
  ASSUME LoaderTypes
  PROVE  /\ Len(queue) \in Nat /\ Len(read) \in Nat
         /\ DOMAIN queue = 1 .. Len(queue) /\ DOMAIN read = 1 .. Len(read)
         /\ \A i \in 1 .. Len(read) : read[i] \in Contents
BY DEF LoaderTypes

(* What a step takes from the file it has read.                            *)
Takes(file) ==
  \/ file.kind = "gone" /\ LoadGone
  \/ file.kind = "short" /\ LoadShort
  \/ file.kind = "program" /\ LoadRefused
  \/ file.kind = "program" /\ LoadProgram(file.lines)

LoaderUnchanged == UNCHANGED <<memory, tlb, null_pcb, queue, read, open, ended>>

LEMMA LoadNextCases ==
  ASSUME LoadNext
  PROVE  /\ null_pcb # NoPcb /\ ~ended /\ null_pcb' = null_pcb
         /\ \/ LoaderUnchanged
            \/ \E file \in Contents : read' = Append(read, file) /\ Takes(file)
<1>1. null_pcb # NoPcb /\ ~ended /\ null_pcb' = null_pcb
  BY DEF LoadNext
<1>2. CASE length = 0 \/ wrong'
  <2>1. UNCHANGED <<memvars, queue, read, open, ended>>
    BY <1>2, Zenon DEF LoadNext
  <2> QED
    BY <1>1, <2>1 DEF LoaderUnchanged, memvars
<1>3. CASE ~(length = 0 \/ wrong')
  <2>1. PICK file \in Contents :
          /\ read' = Append(read, file)
          /\ CASE file.kind = "gone" -> LoadGone
               [] file.kind = "short" -> LoadShort
               [] file.kind = "program" -> LoadRefused \/ LoadProgram(file.lines)
    BY <1>3, Zenon DEF LoadNext
  <2>2. file.kind \in {"gone", "short", "program"}
    BY FileFacts
  <2>3. CASE file.kind = "gone"
    <3>1. LoadGone
      BY <2>1, <2>3
    <3> QED
      BY <1>1, <2>1, <2>3, <3>1 DEF Takes
  <2>4. CASE file.kind = "short"
    <3>1. LoadShort
      BY <2>1, <2>4
    <3> QED
      BY <1>1, <2>1, <2>4, <3>1 DEF Takes
  <2>5. CASE file.kind = "program"
    <3>1. LoadRefused \/ LoadProgram(file.lines)
      BY <2>1, <2>5
    <3> QED
      BY <1>1, <2>1, <2>5, <3>1 DEF Takes
  <2> QED
    BY <2>2, <2>3, <2>4, <2>5
<1> QED
  BY <1>2, <1>3

LEMMA TableFacts ==
  ASSUME NEW mem \in Mems, NEW g \in Grants
  PROVE  TableWritten(mem, g) \in Mems /\ g.table \in Nat
<1>1. g.table \in Nat /\ g.frames \in Seq(Nat)
  BY LoaderAssumption
<1>2. \A i \in DOMAIN g.frames : g.frames[i] \in Nat
  BY <1>1
<1>3. Len(g.frames) \in Nat
  BY <1>1
<1>4. DOMAIN mem = 0 .. MemWords - 1 /\ \A a \in 0 .. MemWords - 1 : mem[a] \in Int
  BY DEF Mems
<1>5. TableWritten(mem, g) \in Mems
  BY <1>2, <1>3, <1>4 DEF TableWritten, Mems
<1> QED
  BY <1>1, <1>5

(* A step that loads a program, in terms of the copy it makes.             *)
ProgramLoaded(lines, g, mem, o) ==
  /\ g \in Granted(FramesNeeded(Len(lines)))
  /\ mem = TableWritten(memory, g) /\ mem \in Mems
  /\ o = Copied(mem, 0, lines) /\ o \in Copies
  /\ \E f : Copying(f, mem, 0, lines)
  /\ memory' = o.mem
  /\ tlb' = IF o.how = "done" THEN Flushed ELSE o.tlb
  /\ open' = IF o.how = "done" THEN open ELSE open + 1
  /\ ended' = (o.how = "ended")
  /\ IF o.how = "ended" THEN queue' = queue
     ELSE queue' = Append(queue, [ProgramPcb(g.table) EXCEPT ![status] = PR_READY])

LEMMA LoadProgramDoes ==
  ASSUME LoaderTypes, NEW lines \in Lines, LoadProgram(lines)
  PROVE  \E g \in Grants : \E mem, o : ProgramLoaded(lines, g, mem, o)
<1> DEFINE n == FramesNeeded(Len(lines))
<1>1. PICK g \in Granted(n) :
        LET o == Copied(TableWritten(memory, g), ProgramPcb(g.table)[pgb], lines)
        IN  /\ memory' = o.mem
            /\ tlb' = TlbLeft(o)
            /\ open' = IF o.how = "done" THEN open ELSE open + 1
            /\ ended' = (o.how = "ended")
            /\ IF o.how = "ended" THEN UNCHANGED queue ELSE Queued(ProgramPcb(g.table))
  BY Zenon DEF LoadProgram, ProgramPcb
<1>2. g \in Grants
  BY DEF Granted
<1>3. PICK mem : mem = TableWritten(memory, g)
  OBVIOUS
<1>4. mem \in Mems /\ g.table \in Nat
  BY <1>2, <1>3, TableFacts DEF LoaderTypes
<1>5. ProgramPcb(g.table)[pgb] = 0
  BY <1>4, PcbFacts
<1>6. PICK o : o = Copied(mem, 0, lines)
  OBVIOUS
<1>7. PICK f : Copying(f, mem, 0, lines)
  BY <1>4, CopySteps DEF LoaderTypes
<1>8. o \in Copies
  BY <1>6, <1>7, CopyOutcome
<1>9. o = Copied(TableWritten(memory, g), ProgramPcb(g.table)[pgb], lines)
  BY <1>3, <1>5, <1>6
<1>10. /\ memory' = o.mem
       /\ tlb' = TlbLeft(o)
       /\ open' = IF o.how = "done" THEN open ELSE open + 1
       /\ ended' = (o.how = "ended")
       /\ IF o.how = "ended" THEN UNCHANGED queue ELSE Queued(ProgramPcb(g.table))
  BY <1>1, <1>9, Zenon
<1>11. tlb' = IF o.how = "done" THEN Flushed ELSE o.tlb
  BY <1>10 DEF TlbLeft
<1>12. IF o.how = "ended" THEN queue' = queue
       ELSE queue' = Append(queue, [ProgramPcb(g.table) EXCEPT ![status] = PR_READY])
  BY <1>10 DEF Queued
<1>13. ProgramLoaded(lines, g, mem, o)
  BY <1>3, <1>4, <1>6, <1>7, <1>8, <1>10, <1>11, <1>12, Zenon DEF ProgramLoaded
<1> QED
  BY <1>2, <1>13

LEMMA TypesInit == LInit => LoaderTypes /\ PcbsOK
<1> SUFFICES ASSUME LInit PROVE LoaderTypes /\ PcbsOK
  OBVIOUS
<1>1. /\ memory = [a \in 0 .. MemWords - 1 |-> 0]
      /\ tlb = Flushed /\ null_pcb = NoPcb
      /\ queue = <<>> /\ read = <<>> /\ ended = FALSE
  BY DEF LInit
<1>2. memory \in Mems /\ tlb \in Tlbs
  BY <1>1 DEF Mems, Tlbs, Flushed, Inactive
<1>3. \A S : <<>> \in Seq(S) /\ Len(<<>>) = 0 /\ DOMAIN <<>> = {}
  OBVIOUS
<1>4. PcbsOK
  BY <1>1, <1>3 DEF PcbsOK
<1>5. /\ queue \in Seq(Pcbs) /\ read \in Seq(Contents)
      /\ Len(queue) = 0 /\ Len(read) = 0
  BY <1>1, <1>3
<1>6. LoaderTypes
  <2>1. ended \in BOOLEAN
    BY <1>1
  <2>2. Len(queue) <= Len(read) /\ Len(queue) = Len(read)
    BY <1>5
  <2>3. (null_pcb # NoPcb => null_pcb[pgb] = 0) /\ (null_pcb = NoPcb => read = <<>>)
    BY <1>1
  <2> QED
    BY <1>2, <1>5, <2>1, <2>2, <2>3, Zenon DEF LoaderTypes
<1> QED
  BY <1>4, <1>6

(* load_null_pcb leaves the loader as it was, and the null process with    *)
(* the page table at address 0, wherever the one it was given is.          *)
LEMMA LoadNullDoes ==
  ASSUME LoaderTypes, LoadNull
  PROVE  /\ null_pcb = NoPcb /\ ~ended /\ ended' \in BOOLEAN
         /\ UNCHANGED <<tlb, queue, read, open>>
         /\ memory' \in Mems
         /\ null_pcb' = NoPcb \/ null_pcb'[pgb] = 0
         /\ ended' \/ null_pcb' # NoPcb
<1>1. null_pcb = NoPcb /\ ~ended /\ UNCHANGED <<tlb, queue, read, open>>
  BY DEF LoadNull
<1>2. memory \in Mems /\ ended \in BOOLEAN
  BY DEF LoaderTypes
<1>3. CASE ended' = TRUE /\ UNCHANGED <<memory, null_pcb>>
  BY <1>1, <1>2, <1>3
<1>4. ASSUME NEW g \in Granted(1),
             memory' = pm_write_word(TableWritten(memory, g),
                                     mmu_resolve(TableWritten(memory, g), Flushed,
                                                 NullPcb(g.table)[pgb], 0), EXIT_CODE),
             null_pcb' = NullPcb(g.table), UNCHANGED ended
      PROVE  memory' \in Mems /\ null_pcb' # NoPcb /\ null_pcb'[pgb] = 0
  <2>1. PICK mem \in Mems : mem = TableWritten(memory, g)
    BY <1>2, TableFacts DEF Granted
  <2>2. NullPcb(g.table) # NoPcb /\ NullPcb(g.table)[pgb] = 0
    <3>1. g.table \in Nat
      BY <1>2, TableFacts DEF Granted
    <3> QED
      BY <3>1, PcbFacts
  <2>3. Flushed \in Tlbs
    BY DEF Tlbs, Flushed, Inactive
  <2>4. mmu_resolve(mem, Flushed, 0, 0) \in Int
    BY <2>1, <2>3, AddressTypes
  <2>5. memory' = pm_write_word(mem, mmu_resolve(mem, Flushed, 0, 0), EXIT_CODE)
    BY <1>4, <2>1, <2>2
  <2>6. memory' \in Mems
    BY <2>1, <2>4, <2>5, WriteType, SizeFacts
  <2> QED
    BY <1>4, <2>2, <2>6
<1>5. \/ ended' = TRUE /\ UNCHANGED <<memory, null_pcb>>
      \/ \E g \in Granted(1) :
           /\ memory' = pm_write_word(TableWritten(memory, g),
                                      mmu_resolve(TableWritten(memory, g), Flushed,
                                                  NullPcb(g.table)[pgb], 0), EXIT_CODE)
           /\ null_pcb' = NullPcb(g.table) /\ UNCHANGED ended
  BY Zenon DEF LoadNull, NullPcb
<1> QED
  BY <1>1, <1>2, <1>3, <1>4, <1>5

LEMMA LoadNullTypes ==
  ASSUME LoaderTypes, PcbsOK, LoadNull
  PROVE  LoaderTypes' /\ PcbsOK'
<1>1. /\ null_pcb = NoPcb /\ ~ended /\ ended' \in BOOLEAN
      /\ UNCHANGED <<tlb, queue, read, open>>
      /\ memory' \in Mems
      /\ null_pcb' = NoPcb \/ null_pcb'[pgb] = 0
  BY LoadNullDoes
<1> QED
  BY <1>1 DEF LoaderTypes, PcbsOK

(* A step that reads a file, keeps the pcbs there are.                     *)
LEMMA AppendAt ==
  ASSUME NEW S, NEW s \in Seq(S), NEW x \in S, NEW t, t = Append(s, x)
  PROVE  /\ t \in Seq(S) /\ Len(s) \in Nat /\ Len(t) = Len(s) + 1
         /\ \A i \in 1 .. Len(s) : t[i] = s[i]
         /\ t[Len(s) + 1] = x
  BY AppendProperties

LEMMA TakesTypes ==
  ASSUME LoaderTypes, PcbsOK, null_pcb # NoPcb, ~ended, null_pcb' = null_pcb,
         NEW file \in Contents, read' = Append(read, file), Takes(file)
  PROVE  LoaderTypes' /\ PcbsOK'
<1> DEFINE n == Len(read)
           Pgb(c) == IF c.kind = "short" THEN Unset ELSE 0
<1>1. /\ n \in Nat /\ Len(queue) = n /\ null_pcb[pgb] = 0 /\ queue \in Seq(Pcbs)
  BY LoaderTypesFacts DEF LoaderTypes
<1>2. /\ read' \in Seq(Contents) /\ Len(read') = n + 1
      /\ \A i \in 1 .. n : read'[i] = read[i]
      /\ read'[n + 1] = file
  BY AppendAt DEF LoaderTypes
<1>3. \A i \in 1 .. n : queue[i][pgb] = Pgb(read[i])
  BY <1>1 DEF PcbsOK
<1> HIDE DEF n
(* The steps that leave the queue as it was end the program.               *)
<1>4. ASSUME memory' \in Mems, tlb' \in Tlbs, ended' = TRUE, queue' = queue
      PROVE  LoaderTypes' /\ PcbsOK'
  <2>1. ended' \in BOOLEAN /\ Len(queue') <= Len(read') /\ ended'
    BY <1>1, <1>2, <1>4
  <2>2. LoaderTypes'
    BY <1>1, <1>2, <1>4, <2>1, Zenon DEF LoaderTypes
  <2>3. PcbsOK'
    BY <1>1, <1>2, <1>3, <1>4 DEF PcbsOK
  <2> QED
    BY <2>2, <2>3
(* The others add one pcb to it.                                           *)
<1>5. ASSUME memory' \in Mems, tlb' \in Tlbs, ended' = FALSE,
             NEW q \in Pcbs, queue' = Append(queue, q), q[pgb] = Pgb(file)
      PROVE  LoaderTypes' /\ PcbsOK'
  <2>1. /\ queue' \in Seq(Pcbs) /\ Len(queue') = n + 1
        /\ \A i \in 1 .. n : queue'[i] = queue[i]
        /\ queue'[n + 1] = q
    BY <1>1, <1>5, AppendAt
  <2>2. LoaderTypes'
    <3>1. Len(queue') <= Len(read') /\ Len(queue') = Len(read')
      BY <1>1, <1>2, <2>1
    <3>2. null_pcb'[pgb] = 0 /\ null_pcb' # NoPcb
      BY <1>1
    <3> QED
      BY <1>2, <1>5, <2>1, <3>1, <3>2 DEF LoaderTypes
  <2>3. ASSUME NEW i \in 1 .. n + 1 PROVE queue'[i][pgb] = Pgb(read'[i])
    <3>1. CASE i = n + 1
      BY <1>2, <1>5, <2>1, <3>1
    <3>2. CASE i # n + 1
      <4>1. i \in 1 .. n
        BY <1>1, <3>2
      <4> QED
        BY <1>2, <1>3, <2>1, <4>1
    <3> QED
      BY <3>1, <3>2
  <2> QED
    BY <2>1, <2>2, <2>3 DEF PcbsOK
<1>6. memory \in Mems /\ tlb \in Tlbs /\ ended \in BOOLEAN
  BY DEF LoaderTypes
<1> HIDE DEF Pgb
<1>7. CASE \/ file.kind = "gone" /\ LoadGone
           \/ file.kind = "program" /\ LoadRefused
  <2>1. ended' = TRUE /\ UNCHANGED <<memory, tlb, queue>>
    BY <1>7 DEF LoadGone, LoadRefused, memvars
  <2> QED
    BY <1>4, <1>6, <2>1
<1>8. CASE file.kind = "short" /\ LoadShort
  <2> DEFINE q == [NewPcb EXCEPT ![status] = PR_READY]
  <2>1. queue' = Append(queue, q) /\ UNCHANGED <<memory, tlb, ended>>
    BY <1>8 DEF LoadShort, Queued, memvars
  <2>2. NewPcb[pgb] = Unset
    BY FieldFacts DEF NewPcb
  <2>3. q \in Pcbs /\ q[pgb] = Pgb(file)
    BY <1>8, <2>2, FieldFacts, ReadyPcb DEF Pgb
  <2> HIDE DEF q
  <2> QED
    BY <1>5, <1>6, <2>1, <2>3
<1>9. CASE file.kind = "program" /\ LoadProgram(file.lines)
  <2>0. PICK g \in Grants : \E mem, o : ProgramLoaded(file.lines, g, mem, o)
    BY <1>9, LoadProgramDoes, FileFacts
  <2>1. PICK mem, o : ProgramLoaded(file.lines, g, mem, o)
    BY <2>0
  <2>2. /\ memory' \in Mems /\ tlb' \in Tlbs
        /\ ended' = (o.how = "ended")
        /\ IF o.how = "ended" THEN queue' = queue
           ELSE queue' = Append(queue, [ProgramPcb(g.table) EXCEPT ![status] = PR_READY])
    <3>1. o.mem \in Mems /\ o.tlb \in Tlbs /\ Flushed \in Tlbs
      BY <2>1 DEF ProgramLoaded, Copies, Tlbs, Flushed, Inactive
    <3> QED
      BY <2>1, <3>1 DEF ProgramLoaded
  <2>3. CASE o.how = "ended"
    BY <1>4, <2>2, <2>3
  <2>4. CASE o.how # "ended"
    <3> DEFINE q == [ProgramPcb(g.table) EXCEPT ![status] = PR_READY]
    <3>1. g.table \in Nat
      BY <1>6, TableFacts
    <3>2. q \in Pcbs /\ q[pgb] = 0
      BY <3>1, PcbFacts, ReadyPcb
    <3>3. q[pgb] = Pgb(file)
      BY <1>9, <3>2 DEF Pgb
    <3>4. queue' = Append(queue, q) /\ ended' = FALSE
      BY <2>2, <2>4
    <3> HIDE DEF q
    <3> QED
      BY <1>5, <2>2, <3>2, <3>3, <3>4
  <2> QED
    BY <2>3, <2>4
<1> QED
  BY <1>7, <1>8, <1>9 DEF Takes

(* What a step does to the loader's own variables.                         *)
LEMMA LoaderSteps ==
  ASSUME [LNext]_lvars
  PROVE  \/ LoaderUnchanged
         \/ LoadNull
         \/ /\ null_pcb # NoPcb /\ ~ended /\ null_pcb' = null_pcb
            /\ \E file \in Contents : read' = Append(read, file) /\ Takes(file)
<1>1. CASE Initialise
  BY <1>1 DEF Initialise, LoaderUnchanged, memvars
<1>2. CASE LoadNull
  BY <1>2
<1>3. CASE LoadNext
  BY <1>3, LoadNextCases
<1>4. CASE UNCHANGED lvars
  BY <1>4 DEF lvars, LoaderUnchanged, memvars
<1> QED
  BY <1>1, <1>2, <1>3, <1>4 DEF LNext

LEMMA LoaderInvariance == LSpec => [](LoaderTypes /\ PcbsOK)
<1>1. LInit => LoaderTypes /\ PcbsOK
  BY TypesInit
<1>2. LoaderTypes /\ PcbsOK /\ [LNext]_lvars => LoaderTypes' /\ PcbsOK'
  <2> SUFFICES ASSUME LoaderTypes, PcbsOK, [LNext]_lvars PROVE LoaderTypes' /\ PcbsOK'
    OBVIOUS
  <2>1. CASE LoaderUnchanged
    BY <2>1 DEF LoaderUnchanged, LoaderTypes, PcbsOK
  <2>2. CASE LoadNull
    BY <2>2, LoadNullTypes
  <2>3. CASE /\ null_pcb # NoPcb /\ ~ended /\ null_pcb' = null_pcb
             /\ \E file \in Contents : read' = Append(read, file) /\ Takes(file)
    BY <2>3, TakesTypes
  <2> QED
    BY <2>1, <2>2, <2>3, LoaderSteps
<1> QED
  BY <1>1, <1>2, PTL DEF LSpec

(* Whatever mmu_malloc returns, the pcb does not keep it: the snapshot is  *)
(* zeroed over the pcb's own fields, so that the null process and each     *)
(* process that has a program run with the page table at address 0, however*)
(* many there are and whatever the files hold.                             *)
THEOREM PageTablesLost == LSpec => []TableLost
<1>1. LoaderTypes /\ PcbsOK => TableLost
  <2> SUFFICES ASSUME LoaderTypes, PcbsOK PROVE TableLost
    OBVIOUS
  <2>1. DOMAIN queue = 1 .. Len(queue)
    BY LoaderTypesFacts
  <2>2. null_pcb # NoPcb => null_pcb[pgb] = 0
    BY DEF LoaderTypes
  <2> QED
    BY <2>1, <2>2 DEF TableLost, PcbsOK
<1> QED
  BY <1>1, LoaderInvariance, PTL
-----------------------------------------------------------------------------
(* The files of which a bad line was read, the one in the middle of which  *)
(* the program ended, and all that were never closed.                      *)
Cut(i) == GoodOf(read[i].lines) # 1 .. Len(read[i].lines)
Dead(i) == ended /\ i = Len(read) /\ read[i] # Gone
NotClosed == {i \in 1 .. Len(read) : Cut(i) \/ Dead(i) \/ read[i].kind = "short"}

LeftOpen ==
  /\ open = Cardinality(NotClosed)
  /\ tlb # Flushed =>
       \E i \in 1 .. Len(read) :
         (Cut(i) \/ Dead(i)) /\ \A j \in i + 1 .. Len(read) : read[j].kind # "program"

(* How a file that is read adds to them.                                   *)
LEMMA OneMoreFile ==
  ASSUME LoaderTypes, ~ended, NEW file \in Contents, read' = Append(read, file)
  PROVE  LET n == Len(read)
             left == \/ GoodOf(file.lines) # 1 .. Len(file.lines)
                     \/ ended' /\ file # Gone
                     \/ file.kind = "short"
         IN  /\ n \in Nat /\ Len(read') = n + 1 /\ read'[n + 1] = file
             /\ \A i \in 1 .. n : read'[i] = read[i]
             /\ left => Cardinality(NotClosed') = Cardinality(NotClosed) + 1
             /\ ~left => NotClosed' = NotClosed
             /\ \A i \in 1 .. n : Cut(i) => Cut(i)'
<1> DEFINE left == \/ GoodOf(file.lines) # 1 .. Len(file.lines)
                   \/ ended' /\ file # Gone
                   \/ file.kind = "short"
<1>1. PICK n \in Nat : n = Len(read)
  BY LoaderTypesFacts
<1>2. Len(read') = n + 1 /\ read'[n + 1] = file /\ \A i \in 1 .. n : read'[i] = read[i]
  BY <1>1, AppendAt DEF LoaderTypes
<1>3. NotClosed \subseteq 1 .. n
  BY <1>1 DEF NotClosed
<1>4. IsFiniteSet(NotClosed)
  <2>1. IsFiniteSet(1 .. n)
    BY <1>1, FS_Interval
  <2> QED
    BY <1>3, <2>1, FS_Subset
<1>5. n + 1 \notin NotClosed
  BY <1>1, <1>3
<1>6. ASSUME NEW i \in 1 .. n PROVE i \in NotClosed' <=> i \in NotClosed
  <2>1. i \in 1 .. n + 1 /\ i # n + 1 /\ read'[i] = read[i]
    BY <1>1, <1>2
  <2>2. Cut(i)' <=> Cut(i)
    BY <2>1 DEF Cut
  <2>3. ~Dead(i)' /\ ~Dead(i)
    BY <1>1, <1>2, <2>1 DEF Dead
  <2> QED
    BY <1>1, <1>2, <2>1, <2>2, <2>3 DEF NotClosed
<1>7. n + 1 \in NotClosed' <=> left
  <2>1. n + 1 \in 1 .. Len(read')
    BY <1>1, <1>2
  <2>2. Cut(n + 1)' <=> GoodOf(file.lines) # 1 .. Len(file.lines)
    BY <1>2 DEF Cut
  <2>3. Dead(n + 1)' <=> ended' /\ file # Gone
    BY <1>2 DEF Dead
  <2> QED
    BY <1>2, <2>1, <2>2, <2>3 DEF NotClosed
<1>8. NotClosed' \subseteq 1 .. n + 1
  BY <1>2 DEF NotClosed
<1>9. 1 .. n + 1 = 1 .. n \cup {n + 1}
  BY <1>1
<1> HIDE DEF left
<1>10. ASSUME left PROVE Cardinality(NotClosed') = Cardinality(NotClosed) + 1
  <2>1. NotClosed' = NotClosed \cup {n + 1}
    BY <1>3, <1>6, <1>7, <1>8, <1>9, <1>10
  <2> QED
    BY <1>4, <1>5, <2>1, FS_AddElement
<1>11. ASSUME ~left PROVE NotClosed' = NotClosed
  BY <1>3, <1>6, <1>7, <1>8, <1>9, <1>11
<1>12. \A i \in 1 .. n : Cut(i) => Cut(i)'
  BY <1>2 DEF Cut
<1> QED
  BY <1>1, <1>2, <1>10, <1>11, <1>12 DEF left

LEMMA LeftOpenTakes ==
  ASSUME LoaderTypes, LeftOpen, ~ended,
         NEW file \in Contents, read' = Append(read, file), Takes(file)
  PROVE  LeftOpen'
<1>1. PICK n \in Nat : n = Len(read)
  BY LoaderTypesFacts
<1> DEFINE left == \/ GoodOf(file.lines) # 1 .. Len(file.lines)
                   \/ ended' /\ file # Gone
                   \/ file.kind = "short"
<1>2. /\ Len(read') = n + 1 /\ read'[n + 1] = file
      /\ \A i \in 1 .. n : read'[i] = read[i]
      /\ left => Cardinality(NotClosed') = Cardinality(NotClosed) + 1
      /\ ~left => NotClosed' = NotClosed
      /\ \A i \in 1 .. n : Cut(i) => Cut(i)'
  BY <1>1, OneMoreFile
<1>3. open = Cardinality(NotClosed)
  BY DEF LeftOpen
<1>4. GoodOf(<<>>) = 1 .. Len(<<>>)
  BY DEF GoodOf
(* The TLB is left as it was, and the file is no program.                  *)
<1>5. ASSUME tlb' = tlb, tlb' # Flushed, file.kind # "program"
      PROVE  \E i \in 1 .. Len(read') :
               (Cut(i)' \/ Dead(i)') /\ \A j \in i + 1 .. Len(read') : read'[j].kind # "program"
  <2>1. PICK i \in 1 .. n : Cut(i) /\ \A j \in i + 1 .. n : read[j].kind # "program"
    BY <1>1, <1>5 DEF LeftOpen, Dead
  <2>2. i \in 1 .. Len(read') /\ Cut(i)'
    BY <1>2, <2>1
  <2>3. ASSUME NEW j \in i + 1 .. Len(read') PROVE read'[j].kind # "program"
    <3>1. j = n + 1 \/ (j \in i + 1 .. n /\ j \in 1 .. n)
      BY <1>2, <2>1
    <3> QED
      BY <1>2, <1>5, <2>1, <3>1
  <2> QED
    BY <2>2, <2>3
(* The file itself was not read to its end.                                *)
<1>6. ASSUME Cut(n + 1)' \/ Dead(n + 1)'
      PROVE  \E i \in 1 .. Len(read') :
               (Cut(i)' \/ Dead(i)') /\ \A j \in i + 1 .. Len(read') : read'[j].kind # "program"
  <2>1. n + 1 \in 1 .. Len(read') /\ (n + 1) + 1 .. Len(read') = {}
    BY <1>2
  <2> QED
    BY <1>6, <2>1
<1>7. /\ Cut(n + 1)' <=> GoodOf(file.lines) # 1 .. Len(file.lines)
      /\ Dead(n + 1)' <=> ended' /\ file # Gone
  BY <1>2 DEF Cut, Dead
<1> HIDE DEF left
<1>8. CASE file.kind = "gone" /\ LoadGone
  <2>1. open' = open /\ tlb' = tlb
    BY <1>8 DEF LoadGone, memvars
  <2>2. ~left
    BY <1>4, <1>8, FileFacts DEF left
  <2> QED
    BY <1>2, <1>3, <1>5, <1>8, <2>1, <2>2 DEF LeftOpen
<1>9. CASE file.kind = "short" /\ LoadShort
  <2>1. open' = open + 1 /\ tlb' = tlb
    BY <1>9 DEF LoadShort, memvars
  <2>2. left
    BY <1>9 DEF left
  <2> QED
    BY <1>2, <1>3, <1>5, <1>9, <2>1, <2>2 DEF LeftOpen
<1>10. CASE file.kind = "program" /\ LoadRefused
  <2>1. open' = open + 1 /\ ended'
    BY <1>10 DEF LoadRefused
  <2>2. file # Gone
    BY <1>10 DEF Gone
  <2>3. left /\ Dead(n + 1)'
    BY <1>7, <2>1, <2>2 DEF left
  <2> QED
    BY <1>2, <1>3, <1>6, <2>1, <2>3 DEF LeftOpen
<1>11. CASE file.kind = "program" /\ LoadProgram(file.lines)
  <2>1. file # Gone /\ file.kind # "short"
    BY <1>11 DEF Gone
  <2>1a. PICK g \in Grants : \E mem, o : ProgramLoaded(file.lines, g, mem, o)
    BY <1>11, LoadProgramDoes, FileFacts
  <2>2. PICK mem, o : ProgramLoaded(file.lines, g, mem, o)
    BY <2>1a
  <2>3. /\ o = Copied(mem, 0, file.lines) /\ \E f : Copying(f, mem, 0, file.lines)
        /\ tlb' = IF o.how = "done" THEN Flushed ELSE o.tlb
        /\ open' = IF o.how = "done" THEN open ELSE open + 1
        /\ ended' = (o.how = "ended")
    BY <2>2, Zenon DEF ProgramLoaded
  <2>4. /\ o.how \in {"done", "half", "ended"}
        /\ o.how = "done" => GoodOf(file.lines) = 1 .. Len(file.lines)
        /\ o.how = "half" => GoodOf(file.lines) # 1 .. Len(file.lines)
    BY <2>3, CopyOutcome, FileFacts DEF Copies
  <2>5. CASE o.how = "done"
    <3>1. tlb' = Flushed /\ open' = open /\ ~ended'
      BY <2>3, <2>5
    <3>2. ~left
      BY <2>1, <2>4, <2>5, <3>1 DEF left
    <3> QED
      BY <1>2, <1>3, <3>1, <3>2 DEF LeftOpen
  <2>6. CASE o.how # "done"
    <3>1. open' = open + 1
      BY <2>3, <2>6
    <3>2. left /\ (Cut(n + 1)' \/ Dead(n + 1)')
      BY <1>7, <2>1, <2>3, <2>4, <2>6 DEF left
    <3> QED
      BY <1>2, <1>3, <1>6, <3>1, <3>2 DEF LeftOpen
  <2> QED
    BY <2>5, <2>6
<1> QED
  BY <1>8, <1>9, <1>10, <1>11 DEF Takes

LEMMA LeftOpenNext ==
  ASSUME LoaderTypes, LeftOpen, [LNext]_lvars
  PROVE  LeftOpen'
<1>1. CASE LoaderUnchanged
  BY <1>1 DEF LoaderUnchanged, LeftOpen, NotClosed, Cut, Dead
<1>2. CASE LoadNull
  <2>1. read = <<>> /\ read' = read /\ tlb' = tlb /\ open' = open
    BY <1>2, LoadNullDoes DEF LoaderTypes
  <2>2. NotClosed = {} /\ NotClosed' = {} /\ 1 .. Len(read) = {}
    BY <2>1 DEF NotClosed
  <2> QED
    BY <2>1, <2>2 DEF LeftOpen
<1>3. CASE /\ null_pcb # NoPcb /\ ~ended /\ null_pcb' = null_pcb
           /\ \E file \in Contents : read' = Append(read, file) /\ Takes(file)
  BY <1>3, LeftOpenTakes
<1> QED
  BY <1>1, <1>2, <1>3, LoaderSteps

LEMMA LeftOpenInit == LInit => LeftOpen
<1> SUFFICES ASSUME LInit PROVE LeftOpen
  OBVIOUS
<1>1. read = <<>> /\ open = 0 /\ tlb = Flushed
  BY DEF LInit
<1>2. NotClosed = {}
  BY <1>1 DEF NotClosed
<1> QED
  BY <1>1, <1>2, FS_EmptySet DEF LeftOpen

(* However many files are loaded, and whatever they hold, one stays open   *)
(* for each that was not loaded to its end, and the loader's TLB holds     *)
(* entries of an earlier program only until the next one is loaded.        *)
THEOREM OpenFilesCounted == LSpec => []FlushedUnlessHalf
<1>1. LoaderTypes /\ LeftOpen => FlushedUnlessHalf
  <2> SUFFICES ASSUME LoaderTypes, LeftOpen PROVE FlushedUnlessHalf
    OBVIOUS
  <2> DEFINE n == Len(read)
             half == {i \in DOMAIN read : Good(i) # DOMAIN read[i].lines}
             short == {i \in DOMAIN read : read[i].kind = "short"}
             dead == {i \in DOMAIN read : ended /\ i = Len(read) /\ read[i] # Gone}
  <2>1. DOMAIN read = 1 .. n /\ n \in Nat
    BY LoaderTypesFacts
  <2>2. ASSUME NEW i \in 1 .. n PROVE Good(i) # DOMAIN read[i].lines <=> Cut(i)
    <3>1. DOMAIN read[i].lines = 1 .. Len(read[i].lines)
      BY LoaderTypesFacts, FileFacts DEF Lines
    <3> QED
      BY <3>1 DEF Good, GoodOf, Cut
  <2>3. half = {i \in 1 .. n : Cut(i)} /\ dead = {i \in 1 .. n : Dead(i)}
    BY <2>1, <2>2 DEF Dead
  <2>4. half \cup short \cup dead = NotClosed
    BY <2>1, <2>3 DEF NotClosed
  <2>5. open = Cardinality(half \cup short \cup dead)
    BY <2>4 DEF LeftOpen
  <2>6. ASSUME tlb # Flushed
        PROVE  \E i \in half \cup dead : \A j \in i + 1 .. Len(read) : read[j].kind # "program"
    <3>1. PICK i \in 1 .. n :
            (Cut(i) \/ Dead(i)) /\ \A j \in i + 1 .. n : read[j].kind # "program"
      BY <2>6 DEF LeftOpen
    <3>2. i \in half \cup dead
      BY <2>3, <3>1
    <3> QED
      BY <3>1, <3>2
  <2> QED
    BY <2>5, <2>6 DEF FlushedUnlessHalf
<1> QED
  BY <1>1, LeftOpenInit, LeftOpenNext, LoaderInvariance, PTL DEF LSpec
-----------------------------------------------------------------------------
(* A program of one page goes, in place of the frame it was granted, to    *)
(* the frame to which the word at address 1 leads once its table is        *)
(* written, or to the one that the TLB has kept of an earlier load - for   *)
(* all sizes of the memory, the frames and the TLB, wherever mmu_malloc    *)
(* puts tables and frames, and even if the lines overwrite that word.      *)
THEOREM ProgramsThroughTable0 == LSpec => ProgramGoesThroughTable0
<1> DEFINE file == read'[Len(read')]
           good == Good(Len(read))'
           A == read' # read /\ file.kind = "program" /\ ~ended' /\ good \subseteq 1 .. FrameWords =>
                  \E g \in Granted(FramesNeeded(Len(file.lines))) :
                    LET mem == TableWritten(memory, g)
                        frame == IF tlb[0].page = 0 THEN tlb[0].frame
                                 ELSE FrameStart(mem[1 % MemWords])
                    IN  memory' = [a \in 0 .. MemWords - 1 |->
                                     LET k == ((a - frame) % MemWords) + 1
                                     IN  IF k \in good THEN file.lines[k] ELSE mem[a]]
<1>1. ASSUME LoaderTypes, [LNext]_lvars PROVE A
  <2> SUFFICES ASSUME read' # read, file.kind = "program", ~ended', good \subseteq 1 .. FrameWords
               PROVE  \E g \in Granted(FramesNeeded(Len(file.lines))) :
                        memory' = [a \in 0 .. MemWords - 1 |->
                                     LET mem == TableWritten(memory, g)
                                         k == ((a - Frame0(mem)) % MemWords) + 1
                                     IN  IF k \in good THEN file.lines[k] ELSE mem[a]]
    BY Zenon DEF Frame0
  <2>1. PICK c \in Contents : read' = Append(read, c) /\ Takes(c)
    BY <1>1, LoaderSteps, LoadNullDoes DEF LoaderUnchanged
  <2>2. file = c
    <3>1. Len(read') = Len(read) + 1 /\ read'[Len(read) + 1] = c
      BY <1>1, <2>1, AppendAt DEF LoaderTypes
    <3> QED
      BY <3>1
  <2>3. good = GoodOf(c.lines) /\ c.lines \in Lines
    <3>1. c.lines \in Lines
      BY FileFacts
    <3>2. DOMAIN c.lines = 1 .. Len(c.lines)
      BY <3>1 DEF Lines
    <3>3. good = {k \in DOMAIN c.lines : \A j \in 1 .. k : c.lines[j] # Bad}
      BY <2>2 DEF Good
    <3> QED
      BY <3>1, <3>2, <3>3 DEF GoodOf
  <2>4. c.kind = "program"
    BY <2>2
  <2> HIDE DEF file, good
  <2>5. LoadProgram(c.lines)
    BY <2>1, <2>4 DEF Takes, LoadRefused
  <2>5a. PICK g \in Grants : \E mem, o : ProgramLoaded(c.lines, g, mem, o)
    BY <1>1, <2>3, <2>5, LoadProgramDoes
  <2>6. PICK mem, o : ProgramLoaded(c.lines, g, mem, o)
    BY <2>5a
  <2>7. /\ g \in Granted(FramesNeeded(Len(c.lines))) /\ mem = TableWritten(memory, g)
        /\ mem \in Mems /\ o = Copied(mem, 0, c.lines)
        /\ \E f : Copying(f, mem, 0, c.lines)
        /\ memory' = o.mem /\ ended' = (o.how = "ended")
    BY <2>6, Zenon DEF ProgramLoaded
  <2>8. memory' = Through(mem, c.lines, Frame0(mem), Len(c.lines))
    <3>1. GoodOf(c.lines) \subseteq 1 .. FrameWords /\ tlb \in Tlbs /\ o.how # "ended"
      BY <1>1, <2>3, <2>7 DEF LoaderTypes
    <3> QED
      BY <2>3, <2>7, <3>1, PageCopied
  <2>9. \A k \in good : k <= Len(c.lines)
    BY <2>3 DEF GoodOf
  <2>10. memory' = [a \in 0 .. MemWords - 1 |->
                      LET k == ((a - Frame0(mem)) % MemWords) + 1
                      IN  IF k \in good THEN c.lines[k] ELSE mem[a]]
    BY <2>3, <2>8, <2>9 DEF Through
  <2> QED
    BY <2>2, <2>7, <2>10, Zenon
<1>2. LoaderTypes /\ [LNext]_lvars => [A]_lvars
  BY <1>1
<1> QED
  BY <1>2, LoaderInvariance, PTL DEF LSpec, ProgramGoesThroughTable0
=============================================================================
