------------------------------ MODULE Induction ------------------------------
(***************************************************************************)
(* Induction and recursion over the natural numbers in terms of sets and   *)
(* functions, for the recursive functions of the modules.                  *)
(***************************************************************************)
EXTENDS Integers, WellFoundedInduction, TLAPS

LEMMA SetInduction ==
  ASSUME NEW S, 0 \in S, \A n \in Nat : n \in S => n + 1 \in S
  PROVE  Nat \subseteq S
<1> SUFFICES ASSUME Nat \ S # {} PROVE FALSE
  OBVIOUS
<1> DEFINE R == {ss \in Nat \X Nat : ss[1] < ss[2]}
<1>1. IsWellFoundedOn(R, Nat)
  BY NatLessThanWellFounded DEF OpToRel
<1>2. PICK m \in Nat \ S : \A k \in Nat \ S : <<k, m>> \notin R
  BY <1>1, WFMin
<1>3. m # 0 /\ m - 1 \in Nat /\ (m - 1) + 1 = m
  BY <1>2
<1>4. m - 1 \notin S
  BY <1>3
<1>5. <<m - 1, m>> \in R
  BY <1>3
<1> QED
  BY <1>2, <1>3, <1>4, <1>5

(* What holds of an argument if it holds of all smaller ones holds of all. *)
LEMMA SizeInduction ==
  ASSUME NEW P, NEW S, NEW size, \A p \in P : size[p] \in Nat,
         \A p \in P : (\A q \in P : size[q] < size[p] => q \in S) => p \in S
  PROVE  P \subseteq S
<1> DEFINE T == {n \in Nat : \A p \in P : size[p] < n => p \in S}
<1>1. 0 \in T
  OBVIOUS
<1>2. ASSUME NEW n \in Nat, n \in T PROVE n + 1 \in T
  <2> SUFFICES ASSUME NEW p \in P, size[p] < n + 1 PROVE p \in S
    OBVIOUS
  <2>1. \A q \in P : size[q] < size[p] => q \in S
    BY <1>2
  <2> QED
    BY <2>1
<1>3. Nat \subseteq T
  <2> HIDE DEF T
  <2> QED BY <1>1, <1>2, SetInduction
<1>4. ASSUME NEW p \in P PROVE p \in S
  <2>1. size[p] + 1 \in T /\ size[p] \in Nat
    BY <1>3
  <2> QED
    BY <2>1
<1> QED
  BY <1>4

(* A function can be applied again and again. *)
Iterates(X, x, step, g) ==
  g \in [Nat -> X] /\ g[0] = x /\ \A n \in Nat : g[n + 1] = step[g[n]]

LEMMA Iteration ==
  ASSUME NEW X, NEW x, NEW step, x \in X, step \in [X -> X]
  PROVE  \E g : Iterates(X, x, step, g)
<1> DEFINE Begins(h, n) == /\ h \in [0 .. n -> X]
                           /\ h[0] = x
                           /\ \A i \in 0 .. n - 1 : h[i + 1] = step[h[i]]
           S == {n \in Nat : \E h : Begins(h, n)}
<1>1. Nat \subseteq S
  <2>1. 0 \in S
    <3>1. Begins([i \in 0 .. 0 |-> x], 0)
      OBVIOUS
    <3> QED BY <3>1
  <2>2. ASSUME NEW n \in Nat, n \in S PROVE n + 1 \in S
    <3>1. PICK h : Begins(h, n)
      BY <2>2
    <3> DEFINE k == [i \in 0 .. n + 1 |-> IF i = n + 1 THEN step[h[n]] ELSE h[i]]
    <3>2. k \in [0 .. n + 1 -> X]
      BY <3>1
    <3>3. \A i \in 0 .. n : k[i + 1] = step[k[i]]
      BY <3>1
    <3>4. Begins(k, n + 1)
      BY <3>1, <3>2, <3>3
    <3> HIDE DEF Begins, k
    <3> QED BY <3>4
  <2> HIDE DEF S
  <2> QED BY <2>1, <2>2, SetInduction
<1>2. ASSUME NEW m \in Nat, NEW n \in Nat, NEW h, NEW k, Begins(h, m), Begins(k, n)
      PROVE  \A i \in Nat : i <= m /\ i <= n => h[i] = k[i]
  <2> DEFINE T == {i \in Nat : i <= m /\ i <= n => h[i] = k[i]}
  <2>1. 0 \in T
    BY <1>2
  <2>2. ASSUME NEW i \in Nat, i \in T PROVE i + 1 \in T
    BY <1>2, <2>2
  <2>3. Nat \subseteq T
    <3> HIDE DEF T
    <3> QED BY <2>1, <2>2, SetInduction
  <2> QED BY <2>3
<1> DEFINE H(n) == CHOOSE h : Begins(h, n)
           g == [n \in Nat |-> H(n)[n]]
<1>3. \A n \in Nat : Begins(H(n), n)
  <2> HIDE DEF Begins
  <2> QED BY <1>1
<1> HIDE DEF H
<1>4. g \in [Nat -> X] /\ g[0] = x
  BY <1>3
<1>5. ASSUME NEW n \in Nat PROVE g[n + 1] = step[g[n]]
  <2>1. Begins(H(n + 1), n + 1) /\ Begins(H(n), n)
    BY <1>3
  <2>2. H(n + 1)[n] = H(n)[n]
    <3> HIDE DEF Begins
    <3> QED BY <1>2, <2>1
  <2> QED BY <2>1, <2>2
<1> QED
  BY <1>4, <1>5 DEF Iterates

(* A function that is defined by its values for smaller arguments.         *)
Recursive(P, V, size, body) ==
  LET F == [P -> V] IN
  /\ size \in [P -> Nat]
  /\ F # {}
  /\ body \in [F -> F]
  /\ \A g, h \in F : \A p \in P :
       (\A q \in P : size[q] < size[p] => g[q] = h[q]) => body[g][p] = body[h][p]

Solution(P, V, body, f) == f \in [P -> V] /\ f = body[f]

LEMMA Recursion ==
  ASSUME NEW P, NEW V, NEW size, NEW body, Recursive(P, V, size, body)
  PROVE  \E f : Solution(P, V, body, f)
<1> SUFFICES ASSUME NEW F, F # {}, F = [P -> V], size \in [P -> Nat], body \in [F -> F],
                    \A g, h \in F : \A p \in P :
                      (\A q \in P : size[q] < size[p] => g[q] = h[q]) => body[g][p] = body[h][p]
             PROVE  \E f \in F : f = body[f]
  BY DEF Recursive, Solution
<1>1. PICK g : g \in [Nat -> F] /\ \A n \in Nat : g[n + 1] = body[g[n]]
  <2>1. PICK x : x \in F
    OBVIOUS
  <2>2. \E g : Iterates(F, x, body, g)
    BY <2>1, Iteration, Zenon
  <2> QED
    BY <2>2 DEF Iterates
<1> DEFINE S == {n \in Nat : \A p \in P, d \in Nat : size[p] < n => g[n + d][p] = g[n][p]}
<1>2. Nat \subseteq S
  <2>1. 0 \in S
    OBVIOUS
  <2>2. ASSUME NEW n \in Nat, n \in S PROVE n + 1 \in S
    <3> SUFFICES ASSUME NEW p \in P, NEW d \in Nat, size[p] < n + 1
                 PROVE  g[(n + 1) + d][p] = g[n + 1][p]
      BY <2>2
    <3>1. \A q \in P : size[q] < size[p] => g[n + d][q] = g[n][q]
      BY <2>2
    <3>2. body[g[n + d]][p] = body[g[n]][p]
      <4>1. g[n + d] \in F /\ g[n] \in F
        BY <1>1
      <4> QED BY <3>1, <4>1
    <3>3. (n + 1) + d = (n + d) + 1 /\ n + d \in Nat
      BY <2>2, SimpleArithmetic
    <3>4. g[(n + d) + 1] = body[g[n + d]] /\ g[n + 1] = body[g[n]]
      BY <1>1, <3>3
    <3> QED
      BY <3>2, <3>3, <3>4
  <2> HIDE DEF S
  <2> QED
    BY <2>1, <2>2, SetInduction
<1> DEFINE f == [p \in P |-> g[size[p] + 1][p]]
<1>3. f \in F
  <2>1. ASSUME NEW p \in P PROVE g[size[p] + 1][p] \in V
    <3>1. g[size[p] + 1] \in F
      BY <1>1
    <3> QED BY <3>1
  <2> QED BY <2>1
<1>4. ASSUME NEW p \in P PROVE f[p] = body[f][p]
  <2>1. ASSUME NEW q \in P, size[q] < size[p] PROVE g[size[p]][q] = f[q]
    <3> DEFINE n == size[q] + 1
               d == size[p] - n
    <3>1. n \in Nat /\ d \in Nat /\ n + d = size[p] /\ size[q] < n
      BY <2>1
    <3>2. g[n + d][q] = g[n][q]
      <4> HIDE DEF d, n
      <4> QED BY <1>2, <3>1
    <3> QED
      BY <3>1, <3>2
  <2>2. body[g[size[p]]][p] = body[f][p]
    <3>1. g[size[p]] \in F
      BY <1>1
    <3> HIDE DEF f
    <3> QED BY <1>3, <2>1, <3>1, Zenon
  <2>3. g[size[p] + 1] = body[g[size[p]]]
    BY <1>1
  <2> QED
    BY <2>2, <2>3
<1>5. f = body[f]
  <2> HIDE DEF f
  <2> QED BY <1>3, <1>4
<1> QED
  BY <1>3, <1>5

(* A loop of n rounds: what is left after i rounds comes of what was left  *)
(* after i - 1.                                                            *)
IsLoop(n, X, x, round) ==
  n \in Nat /\ x \in X /\ round \in [(1 .. n) \X X -> X]

Left(n, X, x, round, f) ==
  /\ f \in [0 .. n -> X]
  /\ f = [i \in 0 .. n |-> IF i = 0 THEN x ELSE round[<<i, f[i - 1]>>]]

LEMMA Loop ==
  ASSUME NEW n, NEW X, NEW x, NEW round, IsLoop(n, X, x, round)
  PROVE  \E f : Left(n, X, x, round, f)
<1> SUFFICES ASSUME n \in Nat, x \in X, round \in [(1 .. n) \X X -> X]
             PROVE  \E f \in [0 .. n -> X] :
                      f = [i \in 0 .. n |-> IF i = 0 THEN x ELSE round[<<i, f[i - 1]>>]]
  BY DEF IsLoop, Left
<1> DEFINE P == 0 .. n
           F == [P -> X]
           size == [i \in P |-> i]
           Round(f) == [i \in P |-> IF i = 0 THEN x ELSE round[<<i, f[i - 1]>>]]
           body == [f \in F |-> Round(f)]
<1>1. size \in [P -> Nat]
  OBVIOUS
<1>2. F # {}
  <2>1. [i \in P |-> x] \in F
    OBVIOUS
  <2> QED BY <2>1
<1>3. body \in [F -> F]
  <2>1. ASSUME NEW f \in F PROVE Round(f) \in F
    <3>1. ASSUME NEW i \in P, i # 0 PROVE round[<<i, f[i - 1]>>] \in X
      <4>1. i \in 1 .. n /\ f[i - 1] \in X
        BY <3>1
      <4> QED BY <4>1
    <3> QED BY <3>1
  <2> HIDE DEF F, Round
  <2> QED BY <2>1
<1>4. ASSUME NEW g \in F, NEW h \in F, NEW p \in P,
             \A q \in P : size[q] < size[p] => g[q] = h[q]
      PROVE  body[g][p] = body[h][p]
  <2>1. p # 0 => g[p - 1] = h[p - 1]
    BY <1>4
  <2>2. Round(g)[p] = Round(h)[p]
    BY <2>1
  <2> HIDE DEF F, Round
  <2> QED BY <2>2
<1>5. Recursive(P, X, size, body)
  <2> HIDE DEF P, size, body
  <2> QED BY <1>1, <1>2, <1>3, <1>4 DEF Recursive
<1>6. \E f : Solution(P, X, body, f)
  <2> HIDE DEF P, size, body
  <2> QED BY <1>5, Recursion, Zenon
<1> QED
  <2>1. \A f \in F : body[f] = Round(f)
    OBVIOUS
  <2> HIDE DEF body
  <2> QED BY <1>6, <2>1 DEF Solution

(* What holds before a loop and is kept by its rounds holds after it.      *)
LEMMA LoopKeeps ==
  ASSUME NEW n \in Nat, NEW X, NEW f, f[0] \in X,
         \A i \in 1 .. n : f[i - 1] \in X => f[i] \in X
  PROVE  \A i \in 0 .. n : f[i] \in X
<1> DEFINE S == {i \in Nat : i \in 0 .. n => f[i] \in X}
<1>1. 0 \in S
  OBVIOUS
<1>2. ASSUME NEW i \in Nat, i \in S PROVE i + 1 \in S
  <2>1. CASE i + 1 \in 1 .. n
    BY <1>2, <2>1
  <2>2. CASE i + 1 \notin 1 .. n
    BY <2>2
  <2> QED
    BY <2>1, <2>2
<1>3. Nat \subseteq S
  <2> HIDE DEF S
  <2> QED BY <1>1, <1>2, SetInduction
<1> QED
  BY <1>3
=============================================================================
