------------------------- MODULE PrioRunQueueProofs -------------------------
(***************************************************************************)
(* Theorems about PrioRunQueue: for all sets of pcbs and priorities, the   *)
(* two arrays hold each pcb once, where its priority says, and together    *)
(* give up the most urgent pcb first.                                      *)
(***************************************************************************)
EXTENDS PrioRunQueue, FiniteSetTheorems, SequenceTheorems, TLAPS

(* Finitely many priorities have a least one. *)
LEMMA Least ==
  ASSUME NEW S, S \subseteq Nat, S # {}
  PROVE  \E x \in S : \A y \in S : x <= y
<1> DEFINE T == {0 .. x : x \in S}
           R == StrictSubsetOrdering(Nat)
<1>1. IsWellFoundedOn(R, FiniteSubsetsOf(Nat))
  BY FS_StrictSubsetOrderingWellFounded
<1>2. ASSUME NEW x \in S PROVE 0 .. x \in FiniteSubsetsOf(Nat)
  BY FS_Interval DEF FiniteSubsetsOf
<1>3. T \subseteq FiniteSubsetsOf(Nat) /\ T # {}
  BY <1>2
<1> HIDE DEF R, T
<1>4. PICK m \in T : \A t \in T : ~ (<<t, m>> \in R)
  BY <1>1, <1>3, WFMin
<1>5. PICK x \in S : m = 0 .. x
  BY DEF T
<1>6. ASSUME NEW y \in S, y < x PROVE FALSE
  <2>1. 0 .. y \in T /\ 0 .. y \subseteq 0 .. x /\ x \in 0 .. x /\ x \notin 0 .. y
    BY <1>6 DEF T
  <2>2. 0 .. y \in SUBSET Nat /\ 0 .. x \in SUBSET Nat
    OBVIOUS
  <2>3. <<0 .. y, 0 .. x>> \in R
    BY <2>1, <2>2 DEF R, StrictSubsetOrdering
  <2> QED BY <1>4, <1>5, <2>1, <2>3
<1> QED BY <1>6

LEMMA FirstNotEmptyFacts ==
  ASSUME NEW lists \in [Prios -> Seq(Pcbs)], \E p \in Prios : lists[p] # <<>>
  PROVE  /\ FirstNotEmpty(lists) \in Prios
         /\ lists[FirstNotEmpty(lists)] # <<>>
         /\ \A p \in Prios : lists[p] # <<>> => FirstNotEmpty(lists) <= p
<1> DEFINE S == {p \in Prios : lists[p] # <<>>}
<1>1. Prios \subseteq Nat
  BY RunQueueAssumption DEF Prios
<1>2. S \subseteq Nat /\ S # {}
  BY <1>1
<1>3. \E p \in S : \A r \in S : p <= r
  BY <1>2, Least
<1> QED BY <1>3 DEF FirstNotEmpty

LEMMA LevelType ==
  ASSUME NEW x \in Pcbs
  PROVE  Level(x) \in Prios
  BY RunQueueAssumption DEF Level, Prios
-----------------------------------------------------------------------------
(* A queue that is as it should be, with its counts. *)
Good(q, n) ==
  /\ q \in [Arrays -> [Prios -> Seq(Pcbs)]]
  /\ n \in [Arrays -> Int]
  /\ Counted(q, n)
  /\ Placed(q)

LEMMA HeldFinite ==
  ASSUME NEW q, NEW a
  PROVE  IsFiniteSet(Held(q, a)) /\ Cardinality(Held(q, a)) \in Nat
<1>1. Held(q, a) \in SUBSET Pcbs
  BY DEF Held
<1> QED BY <1>1, RunQueueAssumption, FS_Subset, FS_CardinalityType

LEMMA HeldNone ==
  ASSUME NEW q, NEW n, Good(q, n), NEW a \in Arrays
  PROVE  n[a] = 0 <=> \A p \in Prios : q[a][p] = <<>>
<1>1. n[a] = 0 <=> Held(q, a) = {}
  BY HeldFinite, FS_EmptySet DEF Good, Counted
<1>2. \A p \in Prios : q[a][p] \in Seq(Pcbs)
  BY DEF Good
<1>3. ASSUME NEW p \in Prios, q[a][p] # <<>> PROVE Held(q, a) # {}
  <2>1. 1 \in DOMAIN q[a][p] /\ q[a][p][1] \in Pcbs
    BY <1>2, <1>3, EmptySeq, ElementOfSeq
  <2> QED BY <2>1 DEF Held
<1>4. ASSUME \A p \in Prios : q[a][p] = <<>> PROVE Held(q, a) = {}
  BY <1>4 DEF Held
<1> QED BY <1>1, <1>3, <1>4

(* linkedlist_push of a pcb that is in none of the lists. *)
LEMMA PushGood ==
  ASSUME NEW q, NEW n, Good(q, n), NEW a \in Arrays, NEW x \in Pcbs,
         \A b \in Arrays : x \notin Held(q, b)
  PROVE  /\ Good(Pushed(q, a, Level(x), x), [n EXCEPT ![a] = @ + 1])
         /\ \A b \in Arrays, y \in Pcbs :
              y \in Held(Pushed(q, a, Level(x), x), b) <=> y \in Held(q, b) \/ (b = a /\ y = x)
<1> DEFINE l == Level(x)
           s == q[a][l]
           t == Append(s, x)
           u == Pushed(q, a, l, x)
           top == Len(s) + 1
<1>1. l \in Prios /\ s \in Seq(Pcbs)
  BY LevelType DEF Good
<1>2. /\ t \in Seq(Pcbs)
      /\ top \in DOMAIN t /\ t[top] = x /\ top \notin DOMAIN s
      /\ \A i \in DOMAIN s : i \in DOMAIN t /\ t[i] = s[i]
      /\ \A i \in DOMAIN t : i = top \/ i \in DOMAIN s
  <2>1. /\ t \in Seq(Pcbs) /\ Len(t) = top /\ t[top] = x
        /\ \A i \in 1 .. Len(s) : t[i] = s[i]
    BY <1>1, AppendProperties
  <2>2. Len(s) \in Nat /\ DOMAIN s = 1 .. Len(s) /\ DOMAIN t = 1 .. top
    BY <1>1, <2>1, LenProperties
  <2> HIDE DEF t, s
  <2> QED BY <2>1, <2>2
<1>3. /\ u \in [Arrays -> [Prios -> Seq(Pcbs)]]
      /\ u[a][l] = t
      /\ \A b \in Arrays, p \in Prios : b # a \/ p # l => u[b][p] = q[b][p]
  BY <1>1, <1>2 DEF Pushed, Good
<1> HIDE DEF l, s, t, u, top
<1>4. \A b \in Arrays, p \in Prios : \A i \in DOMAIN q[b][p] : q[b][p][i] # x /\ q[b][p][i] \in Pcbs
  <2> TAKE b \in Arrays, p \in Prios
  <2> TAKE i \in DOMAIN q[b][p]
  <2>1. q[b][p] \in Seq(Pcbs)
    BY DEF Good
  <2>2. q[b][p][i] \in Pcbs
    BY <2>1, ElementOfSeq
  <2> QED BY <2>2 DEF Held
<1>5. ASSUME NEW b \in Arrays PROVE Held(u, b) = IF b = a THEN Held(q, a) \cup {x} ELSE Held(q, b)
  <2>1. CASE b # a
    <3>1. \A p \in Prios : u[b][p] = q[b][p]
      BY <2>1, <1>3
    <3> QED BY <2>1, <3>1 DEF Held
  <2>2. CASE b = a
    <3>1. x \in Held(u, a)
      BY <1>1, <1>2, <1>3 DEF Held
    <3>2. ASSUME NEW y \in Held(q, a) PROVE y \in Held(u, a)
      <4>0. PICK p \in Prios : \E i \in DOMAIN q[a][p] : q[a][p][i] = y
        BY DEF Held
      <4>1. PICK i \in DOMAIN q[a][p] : q[a][p][i] = y
        BY <4>0
      <4>2. i \in DOMAIN u[a][p] /\ u[a][p][i] = y
        BY <4>1, <1>2, <1>3 DEF s
      <4> QED BY <4>2 DEF Held
    <3>3. ASSUME NEW y \in Held(u, a), y # x PROVE y \in Held(q, a)
      <4>0. PICK p \in Prios : \E i \in DOMAIN u[a][p] : u[a][p][i] = y
        BY DEF Held
      <4>1. PICK i \in DOMAIN u[a][p] : u[a][p][i] = y
        BY <4>0
      <4>2. i \in DOMAIN q[a][p] /\ q[a][p][i] = y
        BY <4>1, <3>3, <1>2, <1>3 DEF s
      <4> QED BY <4>2 DEF Held
    <3> QED BY <2>2, <3>1, <3>2, <3>3
  <2> QED BY <2>1, <2>2
<1>6. Counted(u, [n EXCEPT ![a] = @ + 1])
  <2> SUFFICES ASSUME NEW b \in Arrays
               PROVE  [n EXCEPT ![a] = @ + 1][b] = Cardinality(Held(u, b))
    BY DEF Counted
  <2>1. Cardinality(Held(q, a) \cup {x}) = Cardinality(Held(q, a)) + 1
    BY HeldFinite, FS_AddElement
  <2> QED BY <2>1, <1>5 DEF Good, Counted
<1>7. Placed(u)
  <2> SUFFICES ASSUME NEW b \in Arrays, NEW c \in Arrays, NEW p \in Prios, NEW r \in Prios,
                      NEW i \in DOMAIN u[b][p], NEW j \in DOMAIN u[c][r],
                      u[b][p][i] = u[c][r][j]
               PROVE  b = c /\ p = r /\ i = j /\ p = Level(u[b][p][i])
    BY DEF Placed
  <2> DEFINE New(d, o, k) == d = a /\ o = l /\ k = top
  <2>1. New(b, p, i) \/ (i \in DOMAIN q[b][p] /\ u[b][p][i] = q[b][p][i])
    BY <1>2, <1>3 DEF s
  <2>2. New(c, r, j) \/ (j \in DOMAIN q[c][r] /\ u[c][r][j] = q[c][r][j])
    BY <1>2, <1>3 DEF s
  <2>3. New(b, p, i) => u[b][p][i] = x
    BY <1>2, <1>3
  <2>4. New(c, r, j) => u[c][r][j] = x
    BY <1>2, <1>3
  <2>5. New(b, p, i) <=> New(c, r, j)
    BY <2>1, <2>2, <2>3, <2>4, <1>4
  <2>6. CASE New(b, p, i)
    BY <2>3, <2>5, <2>6 DEF l
  <2>7. CASE ~ New(b, p, i)
    BY <2>1, <2>2, <2>5, <2>7 DEF Good, Placed
  <2> QED BY <2>6, <2>7
<1>8. [n EXCEPT ![a] = @ + 1] \in [Arrays -> Int]
  BY DEF Good
<1> QED BY <1>3, <1>5, <1>6, <1>7, <1>8 DEF Good, l, u

(* Where a pcb is, its priority says. *)
LEMMA InList ==
  ASSUME NEW q, NEW n, Good(q, n), NEW a \in Arrays, NEW p \in Prios, NEW i \in DOMAIN q[a][p]
  PROVE  /\ q[a][p][i] \in Pcbs
         /\ q[a][p][i] \in Held(q, a)
         /\ Level(q[a][p][i]) = p
<1>1. q[a][p] \in Seq(Pcbs)
  BY DEF Good
<1>2. q[a][p][i] \in Pcbs
  BY <1>1, ElementOfSeq
<1> QED BY <1>2 DEF Held, Good, Placed

LEMMA HeldLevel ==
  ASSUME NEW q, NEW n, Good(q, n), NEW a \in Arrays, NEW x \in Held(q, a)
  PROVE  Level(x) \in Prios /\ q[a][Level(x)] # <<>>
<1>1. PICK p \in Prios : \E i \in DOMAIN q[a][p] : q[a][p][i] = x
  BY DEF Held
<1>2. q[a][p] # <<>> /\ Level(x) = p
  BY <1>1, InList
<1> QED BY <1>2

LEMMA Ends ==
  ASSUME NEW s \in Seq(Pcbs), s # <<>>
  PROVE  Len(s) \in DOMAIN s /\ 1 \in DOMAIN s /\ Len(s) \in Nat \ {0}
<1>1. Len(s) \in Nat /\ Len(s) # 0 /\ DOMAIN s = 1 .. Len(s)
  BY EmptySeq, LenProperties
<1> QED BY <1>1

(* linkedlist_pop on a list that is not empty. *)
LEMMA PopGood ==
  ASSUME NEW q, NEW n, Good(q, n), NEW a \in Arrays, NEW p \in Prios, q[a][p] # <<>>
  PROVE  /\ Newest(q[a][p]) \in Held(q, a)
         /\ Level(Newest(q[a][p])) = p
         /\ Good(Popped(q, a, p), [n EXCEPT ![a] = @ - 1])
         /\ \A b \in Arrays, y \in Pcbs :
              y \in Held(Popped(q, a, p), b) <=> y \in Held(q, b) /\ (b = a => y # Newest(q[a][p]))
<1> DEFINE s == q[a][p]
           top == Len(s)
           t == SubSeq(s, 1, top - 1)
           x == Newest(q[a][p])
           u == Popped(q, a, p)
<1>1. s \in Seq(Pcbs)
  BY DEF Good
<1>2. /\ t \in Seq(Pcbs)
      /\ top \in DOMAIN s /\ s[top] = x
      /\ \A i \in DOMAIN t : i \in DOMAIN s /\ t[i] = s[i] /\ i # top
      /\ \A i \in DOMAIN s : i = top \/ i \in DOMAIN t
  <2>1. top \in Nat \ {0} /\ DOMAIN s = 1 .. top
    BY <1>1, Ends, LenProperties
  <2>2. \A i \in 1 .. top - 1 : s[i] \in Pcbs
    BY <1>1, <2>1, ElementOfSeq
  <2>3. t \in Seq(Pcbs) /\ Len(t) = top - 1 /\ \A i \in 1 .. top - 1 : t[i] = s[i]
    BY <1>1, <2>1, <2>2, SubSeqProperties
  <2>4. DOMAIN t = 1 .. top - 1
    BY <2>3, LenProperties
  <2>5. s[top] = x
    BY DEF Newest
  <2> HIDE DEF s, t, top, x
  <2> QED BY <2>1, <2>3, <2>4, <2>5
<1>3. /\ u \in [Arrays -> [Prios -> Seq(Pcbs)]]
      /\ u[a][p] = t
      /\ \A b \in Arrays, r \in Prios : b # a \/ r # p => u[b][r] = q[b][r]
  BY <1>1, <1>2 DEF Popped, Good
<1>4. x \in Held(q, a) /\ Level(x) = p
  BY <1>2, InList
<1> HIDE DEF s, t, u, x, top
<1>5. ASSUME NEW b \in Arrays, NEW r \in Prios, NEW i \in DOMAIN u[b][r]
      PROVE  i \in DOMAIN q[b][r] /\ u[b][r][i] = q[b][r][i]
  BY <1>2, <1>3 DEF s
<1>6. ASSUME NEW b \in Arrays, NEW r \in Prios, NEW i \in DOMAIN q[b][r], q[b][r][i] # x
      PROVE  i \in DOMAIN u[b][r]
  BY <1>2, <1>3, <1>6 DEF s
<1>7. ASSUME NEW r \in Prios, NEW i \in DOMAIN u[a][r] PROVE u[a][r][i] # x
  <2>1. i \in DOMAIN q[a][r] /\ u[a][r][i] = q[a][r][i]
    BY <1>5
  <2>2. CASE r = p /\ i = top
    BY <2>2, <1>2, <1>3
  <2>3. CASE ~ (r = p /\ i = top)
    <3>1. q[a][r][i] # q[a][p][top]
      BY <2>1, <2>3, <1>2 DEF Good, Placed, s
    <3> QED BY <3>1, <2>1, <1>2 DEF s
  <2> QED BY <2>2, <2>3
<1>8. ASSUME NEW b \in Arrays
      PROVE  Held(u, b) = IF b = a THEN Held(q, a) \ {x} ELSE Held(q, b)
  <2>1. CASE b # a
    <3>1. \A r \in Prios : u[b][r] = q[b][r]
      BY <2>1, <1>3
    <3> QED BY <2>1, <3>1 DEF Held
  <2>2. CASE b = a
    <3>1. ASSUME NEW y \in Held(u, a) PROVE y \in Held(q, a) /\ y # x
      <4>1. PICK r \in Prios : \E i \in DOMAIN u[a][r] : u[a][r][i] = y
        BY DEF Held
      <4>2. PICK i \in DOMAIN u[a][r] : u[a][r][i] = y
        BY <4>1
      <4>3. i \in DOMAIN q[a][r] /\ q[a][r][i] = y /\ y # x
        BY <4>2, <1>5, <1>7
      <4> QED BY <4>3 DEF Held
    <3>2. ASSUME NEW y \in Held(q, a), y # x PROVE y \in Held(u, a)
      <4>1. PICK r \in Prios : \E i \in DOMAIN q[a][r] : q[a][r][i] = y
        BY DEF Held
      <4>2. PICK i \in DOMAIN q[a][r] : q[a][r][i] = y
        BY <4>1
      <4>3. i \in DOMAIN u[a][r] /\ u[a][r][i] = y
        BY <4>2, <3>2, <1>5, <1>6
      <4> QED BY <4>3 DEF Held
    <3> QED BY <2>2, <3>1, <3>2
  <2> QED BY <2>1, <2>2
<1>9. Counted(u, [n EXCEPT ![a] = @ - 1])
  <2> SUFFICES ASSUME NEW b \in Arrays
               PROVE  [n EXCEPT ![a] = @ - 1][b] = Cardinality(Held(u, b))
    BY DEF Counted
  <2>1. Cardinality(Held(q, a) \ {x}) = Cardinality(Held(q, a)) - 1
    BY <1>4, HeldFinite, FS_RemoveElement
  <2> QED BY <2>1, <1>8 DEF Good, Counted
<1>10. Placed(u)
  BY <1>5 DEF Placed, Good
<1>11. [n EXCEPT ![a] = @ - 1] \in [Arrays -> Int]
  BY DEF Good
<1> QED BY <1>3, <1>4, <1>8, <1>9, <1>10, <1>11 DEF Good, x, u

LEMMA OneArray ==
  ASSUME NEW q, NEW n, Good(q, n), NEW a \in Arrays, NEW b \in Arrays,
         NEW x \in Held(q, a), x \in Held(q, b)
  PROVE  a = b
  BY DEF Held, Good, Placed

(* The first list that is not empty holds the most urgent of an array. *)
LEMMA FirstIsUrgent ==
  ASSUME NEW q, NEW n, Good(q, n), NEW a \in Arrays, n[a] # 0
  PROVE  /\ FirstNotEmpty(q[a]) \in Prios
         /\ q[a][FirstNotEmpty(q[a])] # <<>>
         /\ \A x \in Held(q, a) : FirstNotEmpty(q[a]) <= Level(x)
<1>1. q[a] \in [Prios -> Seq(Pcbs)] /\ \E p \in Prios : q[a][p] # <<>>
  BY HeldNone DEF Good
<1>2. \A p \in Prios : q[a][p] # <<>> => FirstNotEmpty(q[a]) <= p
  BY <1>1, FirstNotEmptyFacts
<1> QED BY <1>1, <1>2, FirstNotEmptyFacts, HeldLevel
-----------------------------------------------------------------------------
Inv == TypeOK /\ Good(queue, nr_active)

(* _rq_prio_fifo_update_sched moves pcbs to the active array, and leaves   *)
(* none behind that is more urgent than all that are active.               *)
LEMMA UpdateFacts ==
  ASSUME Inv, active # Unset
  PROVE  /\ active \in Arrays /\ expired \in Arrays /\ active # expired
         /\ NewActive \in Arrays /\ NewExpired \in Arrays /\ NewActive # NewExpired
         /\ Good(NewQueue, NewNrActive)
         /\ \A x : (\E b \in Arrays : x \in Held(NewQueue, b)) <=> x \in Waiting
         /\ \A x \in Held(queue, active) : x \in Held(NewQueue, NewActive)
         /\ NewNrActive[NewActive] = 0 => Waiting = {}
         /\ NewNrActive[NewActive] # 0 =>
              /\ NextList \in Prios
              /\ NewQueue[NewActive][NextList] # <<>>
              /\ \A x \in Waiting : NextList <= Level(x)
<1>1. active \in Arrays /\ expired \in Arrays /\ active # expired /\ Arrays = {active, expired}
  BY RunQueueAssumption DEF Inv, TypeOK, Arrays
<1>2. Good(queue, nr_active) /\ nr_active[active] \in Int /\ nr_active[expired] \in Int
  BY <1>1 DEF Inv, Good
<1>3. \A x : x \in Waiting <=> x \in Held(queue, active) \/ x \in Held(queue, expired)
  BY <1>1 DEF Waiting, Arrays
<1>4. \A a \in Arrays : nr_active[a] = 0 <=> Held(queue, a) = {}
  BY <1>2, HeldFinite, FS_EmptySet DEF Good, Counted
<1>5. CASE ~ Migrate
  <2>1. NewQueue = queue /\ NewNrActive = nr_active
    BY <1>5 DEF NewQueue, NewNrActive
  <2>2. NewActive \in Arrays /\ NewExpired \in Arrays /\ NewActive # NewExpired
    BY <1>1 DEF NewActive, NewExpired
  <2>3. Held(queue, NewExpired) = {}
    BY <1>1, <1>4, <1>5 DEF Migrate, Exchange, NewExpired
  <2>4. \A x : x \in Waiting <=> x \in Held(queue, NewActive)
    BY <1>1, <1>3, <2>2, <2>3
  <2>5. \A x \in Held(queue, active) : x \in Held(queue, NewActive)
    BY <1>3, <2>4
  <2>6. nr_active[NewActive] = 0 => Waiting = {}
    BY <1>4, <2>2, <2>4
  <2>7. nr_active[NewActive] # 0 =>
          /\ NextList \in Prios
          /\ queue[NewActive][NextList] # <<>>
          /\ \A x \in Waiting : NextList <= Level(x)
    BY <1>2, <2>1, <2>2, <2>4, FirstIsUrgent DEF NextList
  <2>8. \A x : (\E b \in Arrays : x \in Held(queue, b)) <=> x \in Waiting
    BY <1>1, <1>3
  <2> QED BY <1>1, <1>2, <2>1, <2>2, <2>5, <2>6, <2>7, <2>8
<1>6. CASE Migrate
  <2> DEFINE p == FirstNotEmpty(queue[expired])
             x == Newest(queue[expired][p])
             q == Popped(queue, expired, p)
             n == [nr_active EXCEPT ![expired] = @ - 1]
  <2>1. NewActive = active /\ NewExpired = expired
    BY <1>6 DEF Migrate, Exchange, NewActive, NewExpired
  <2>2. /\ p \in Prios /\ queue[expired][p] # <<>>
        /\ \A y \in Held(queue, expired) : p <= Level(y)
    BY <1>1, <1>2, <1>6, FirstIsUrgent DEF Migrate
  <2>3. x \in Held(queue, expired) /\ Level(x) = p
    BY <1>1, <1>2, <2>2, PopGood
  <2>4. Good(q, n)
    BY <1>1, <1>2, <2>2, PopGood
  <2>5. \A b \in Arrays, y \in Pcbs :
          y \in Held(q, b) <=> y \in Held(queue, b) /\ (b = expired => y # x)
    BY <1>1, <1>2, <2>2, PopGood
  <2>6. NewQueue = Pushed(q, active, Level(x), x)
    BY <1>6, <2>3 DEF NewQueue
  <2>7. NewNrActive = [n EXCEPT ![active] = @ + 1]
    BY <1>1, <1>6 DEF NewNrActive, Inv, TypeOK
  <2> HIDE DEF q, n, x, p
  <2>8. x \in Pcbs /\ \A b \in Arrays : x \notin Held(q, b)
    <3>1. x \in Pcbs
      BY <2>3 DEF Held
    <3>2. x \notin Held(queue, active)
      BY <1>1, <1>2, <2>3, OneArray
    <3> QED BY <3>1, <3>2, <2>5, <1>1
  <2>9. /\ Good(NewQueue, NewNrActive)
        /\ \A b \in Arrays, y \in Pcbs :
             y \in Held(NewQueue, b) <=> y \in Held(q, b) \/ (b = active /\ y = x)
    <3> DEFINE u == Pushed(q, active, Level(x), x)
               m == [n EXCEPT ![active] = @ + 1]
    <3>1. Good(u, m)
      BY <1>1, <2>4, <2>8, PushGood
    <3>2. \A b \in Arrays, y \in Pcbs : y \in Held(u, b) <=> y \in Held(q, b) \/ (b = active /\ y = x)
      BY <1>1, <2>4, <2>8, PushGood
    <3> HIDE DEF u, m
    <3>3. NewQueue = u /\ NewNrActive = m
      BY <2>6, <2>7 DEF u, m
    <3> QED BY <3>1, <3>2, <3>3
  <2>10. /\ Held(NewQueue, active) = Held(queue, active) \cup {x}
         /\ Held(NewQueue, expired) = Held(queue, expired) \ {x}
    <3>1. \A b \in Arrays : Held(NewQueue, b) \subseteq Pcbs /\ Held(queue, b) \subseteq Pcbs
      BY DEF Held
    <3> QED BY <1>1, <2>5, <2>8, <2>9, <3>1
  <2>11. NewNrActive[active] # 0
    <3>1. Held(NewQueue, active) # {}
      BY <2>10
    <3> QED BY <1>1, <2>9, <3>1, HeldFinite, FS_EmptySet DEF Good, Counted
  <2>12. /\ NextList \in Prios /\ NewQueue[active][NextList] # <<>>
         /\ \A y \in Held(NewQueue, active) : NextList <= Level(y)
    BY <1>1, <2>1, <2>9, <2>11, FirstIsUrgent DEF NextList
  <2>13. ASSUME NEW y \in Held(queue, expired) PROVE NextList <= Level(y)
    <3>1. NextList <= p /\ p <= Level(y)
      BY <2>2, <2>3, <2>10, <2>12
    <3>2. y \in Pcbs /\ Level(y) \in Prios
      BY LevelType DEF Held
    <3> QED BY <3>1, <3>2, <2>2, <2>12, RunQueueAssumption DEF Prios
  <2>14. \A y \in Waiting : NextList <= Level(y)
    BY <1>3, <2>10, <2>12, <2>13
  <2>15. \A y : (\E b \in Arrays : y \in Held(NewQueue, b)) <=> y \in Waiting
    BY <1>1, <1>3, <2>3, <2>10
  <2> QED BY <1>1, <2>1, <2>9, <2>10, <2>11, <2>12, <2>14, <2>15
<1> QED BY <1>5, <1>6

LEMMA InvInit == Init => Inv
<1> SUFFICES ASSUME Init PROVE Inv
  OBVIOUS
<1>1. \A a \in Arrays : \A p \in Prios : queue[a][p] = <<>>
  BY DEF Init
<1>2. queue \in [Arrays -> [Prios -> Seq(Pcbs)]] /\ nr_active \in [Arrays -> Int]
  BY EmptySeq DEF Init
<1>3. \A a \in Arrays : Held(queue, a) = {}
  BY <1>1 DEF Held
<1>4. Counted(queue, nr_active)
  BY <1>3, FS_EmptySet DEF Counted, Init
<1>5. Placed(queue)
  BY <1>1 DEF Placed
<1>6. TypeOK
  <2>1. 0 \in -IntLimit .. IntLimit - 1
    BY RunQueueAssumption
  <2>2. active \in Arrays \cup {Unset} /\ expired \in Arrays \ {active}
    BY RunQueueAssumption DEF Init, Arrays
  <2>3. nr_running \in -IntLimit .. IntLimit - 1 /\ returned \in Pcbs \cup {Null}
    BY <2>1 DEF Init
  <2>4. wrong \in BOOLEAN
    BY Zenon DEF Init
  <2> QED BY <1>2, <2>2, <2>3, <2>4 DEF TypeOK
<1> QED BY <1>2, <1>4, <1>5, <1>6 DEF Inv, Good

LEMMA InGood ==
  ASSUME Inv, NEW x \in Pcbs, In(x)
  PROVE  /\ Inv'
         /\ Waiting' = Waiting \cup {x}
         /\ expired \in Arrays
         /\ \A b \in Arrays : b # expired => Held(queue', b) = Held(queue, b)
<1>1. expired \in Arrays /\ Good(queue, nr_active)
  BY DEF Inv, TypeOK
<1>2. \A b \in Arrays : x \notin Held(queue, b)
  BY DEF In, Waiting, Arrays
<1>3. /\ Good(queue', nr_active')
      /\ \A b \in Arrays, y \in Pcbs :
           y \in Held(queue', b) <=> y \in Held(queue, b) \/ (b = expired /\ y = x)
  <2> DEFINE u == Pushed(queue, expired, Level(x), x)
             m == [nr_active EXCEPT ![expired] = @ + 1]
  <2>1. Good(u, m)
    BY <1>1, <1>2, PushGood
  <2>2. \A b \in Arrays, y \in Pcbs :
          y \in Held(u, b) <=> y \in Held(queue, b) \/ (b = expired /\ y = x)
    BY <1>1, <1>2, PushGood
  <2>3. queue' = u /\ nr_active' = m
    BY DEF In
  <2> HIDE DEF u, m
  <2> QED BY <2>1, <2>2, <2>3
<1>0. \A b \in Arrays : Held(queue', b) \subseteq Pcbs /\ Held(queue, b) \subseteq Pcbs
  BY DEF Held
<1>4. Waiting' = Waiting \cup {x}
  BY <1>0, <1>1, <1>3 DEF Waiting, Arrays
<1>5. TypeOK'
  BY <1>3 DEF In, Inv, TypeOK, Good
<1>6. \A b \in Arrays : b # expired => Held(queue', b) = Held(queue, b)
  BY <1>0, <1>3
<1>7. Inv'
  BY <1>3, <1>5 DEF Inv, Good, Counted, Placed, Held
<1> QED BY <1>1, <1>4, <1>6, <1>7

LEMMA LookGood ==
  ASSUME Inv, Peek \/ NoneActive
  PROVE  /\ Inv'
         /\ Waiting' = Waiting
         /\ Held(queue, active) \subseteq Held(queue', active')
<1> USE UpdateFacts
<1>1. active # Unset /\ queue' = NewQueue /\ nr_active' = NewNrActive
      /\ active' = NewActive /\ expired' = NewExpired
  BY DEF Peek, NoneActive, Update
<1>2. Waiting' = Waiting
  BY <1>1 DEF Waiting, Arrays
<1>3. returned' \in Pcbs \cup {Null}
  <2>1. CASE NoneActive
    BY <2>1 DEF NoneActive
  <2>2. CASE Peek
    <3>1. NewQueue[NewActive][NextList] \in Seq(Pcbs) /\ NewQueue[NewActive][NextList] # <<>>
      BY <2>2, <1>1 DEF Peek, Good
    <3>2. Oldest(NewQueue[NewActive][NextList]) \in Pcbs
      BY <3>1, Ends, ElementOfSeq DEF Oldest
    <3> QED BY <2>2, <3>2 DEF Peek
  <2> QED BY <2>1, <2>2
<1>4. TypeOK'
  BY <1>1, <1>3 DEF Inv, TypeOK, Peek, NoneActive, Update, Good
<1>5. Good(queue', nr_active')
  BY <1>1
<1>6. Inv'
  BY <1>4, <1>5 DEF Inv, Good, Counted, Placed, Held
<1>7. \A x \in Held(queue, active) : x \in Held(queue', active')
  BY <1>1
<1> QED BY <1>2, <1>6, <1>7

LEMMA OutGood ==
  ASSUME Inv, Out
  PROVE  /\ Inv'
         /\ returned' \in Waiting
         /\ Level(returned') = NextList
         /\ Waiting' = Waiting \ {returned'}
         /\ \A x \in Held(queue, active) : x # returned' => x \in Held(queue', active')
<1> USE UpdateFacts
<1>1. active # Unset /\ active' = NewActive /\ expired' = NewExpired
  BY DEF Out, Update
<1>2. /\ NewActive \in Arrays /\ NewExpired \in Arrays \ {NewActive}
      /\ Good(NewQueue, NewNrActive)
      /\ NextList \in Prios /\ NewQueue[NewActive][NextList] # <<>>
  BY <1>1 DEF Out
<1>3. /\ returned' = Newest(NewQueue[NewActive][NextList])
      /\ queue' = Popped(NewQueue, NewActive, NextList)
      /\ nr_active' = [NewNrActive EXCEPT ![NewActive] = @ - 1]
  BY DEF Out
<1>4. /\ returned' \in Held(NewQueue, NewActive)
      /\ Level(returned') = NextList
      /\ Good(queue', nr_active')
      /\ \A b \in Arrays, y \in Pcbs :
           y \in Held(queue', b) <=> y \in Held(NewQueue, b) /\ (b = NewActive => y # returned')
  <2> DEFINE l == NewQueue[NewActive][NextList]
             u == Popped(NewQueue, NewActive, NextList)
             m == [NewNrActive EXCEPT ![NewActive] = @ - 1]
  <2>1. Newest(l) \in Held(NewQueue, NewActive) /\ Level(Newest(l)) = NextList
    BY <1>2, PopGood
  <2>2. Good(u, m)
    BY <1>2, PopGood
  <2>3. \A b \in Arrays, y \in Pcbs :
          y \in Held(u, b) <=> y \in Held(NewQueue, b) /\ (b = NewActive => y # Newest(l))
    BY <1>2, PopGood
  <2> HIDE DEF l, u, m
  <2>4. returned' = Newest(l) /\ queue' = u /\ nr_active' = m
    BY <1>3 DEF l, u, m
  <2> QED BY <2>1, <2>2, <2>3, <2>4
<1>5. returned' \in Waiting
  BY <1>1, <1>2, <1>4
<1>6. returned' \notin Held(NewQueue, NewExpired)
  BY <1>2, <1>4, OneArray
<1>7. Waiting' = Waiting \ {returned'}
  <2>1. Arrays = {NewActive, NewExpired}
    BY <1>2 DEF Arrays
  <2>2. \A x : x \in Waiting' <=> \E b \in Arrays : x \in Held(queue', b)
    BY DEF Waiting, Arrays
  <2>3. Waiting' \subseteq Pcbs /\ Waiting \subseteq Pcbs
    BY DEF Waiting, Held
  <2>4. \A x \in Pcbs : x \in Waiting' <=> x \in Waiting /\ x # returned'
    BY <1>1, <1>2, <1>4, <1>6, <2>1, <2>2
  <2> QED BY <2>3, <2>4
<1>8. returned' \in Pcbs
  BY <1>4 DEF Held
<1>9. nr_running' \in -IntLimit .. IntLimit - 1
  BY RunQueueAssumption DEF Out, OneLess, Inv, TypeOK
<1>10. TypeOK'
  BY <1>1, <1>2, <1>4, <1>8, <1>9 DEF Inv, TypeOK, Out, Update, Good
<1>11. Inv'
  BY <1>4, <1>10 DEF Inv, Good, Counted, Placed, Held
<1>12. ASSUME NEW x \in Held(queue, active), x # returned' PROVE x \in Held(queue', active')
  <2>1. x \in Pcbs
    BY DEF Held
  <2>2. x \in Held(NewQueue, NewActive)
    BY <1>1
  <2> QED BY <1>1, <1>2, <1>4, <1>12, <2>1, <2>2
<1> QED BY <1>4, <1>5, <1>7, <1>11, <1>12

LEMMA StayGood ==
  ASSUME Inv, GoWrong \/ UNCHANGED vars
  PROVE  Inv' /\ Waiting' = Waiting
<1>1. queue' = queue /\ nr_active' = nr_active
  BY DEF GoWrong, vars
<1>2. TypeOK'
  BY DEF Inv, TypeOK, GoWrong, vars
<1> QED BY <1>1, <1>2 DEF Inv, Good, Counted, Placed, Held, Waiting

LEMMA Invariance == Spec => []Inv
<1>1. Inv /\ [Next]_vars => Inv'
  BY InGood, LookGood, OutGood, StayGood DEF Next
<1> QED BY <1>1, InvInit, PTL DEF Spec
-----------------------------------------------------------------------------
(* Every variable of the run queue keeps its type. *)
THEOREM RunQueueTypeCorrect == Spec => []TypeOK
<1>1. Inv => TypeOK
  BY DEF Inv
<1> QED BY <1>1, Invariance, PTL

(* nr_active always counts the pcbs that the lists of an array hold. *)
THEOREM RunQueueCountsAgree == Spec => []CountsAgree
<1>1. Inv => CountsAgree
  BY DEF Inv, Good, CountsAgree
<1> QED BY <1>1, Invariance, PTL

(* No exchange or migration puts a pcb in two places or in a wrong list.   *)
THEOREM RunQueueOnePlace == Spec => []OnePlace
<1>1. Inv => OnePlace
  BY DEF Inv, Good, OnePlace
<1> QED BY <1>1, Invariance, PTL

(* A pcb leaves the active array only when it leaves the run queue.        *)
THEOREM RunQueueActiveStays == Spec => ActiveStaysActive
<1> DEFINE A == active # Unset =>
                  \A x \in Held(queue, active) : x \in Waiting' => x \in Held(queue, active)'
<1>1. ASSUME Inv, [Next]_vars, active # Unset,
             NEW x \in Held(queue, active), x \in Waiting'
      PROVE  x \in Held(queue', active')
  <2>1. ASSUME NEW y \in Pcbs, In(y) PROVE x \in Held(queue', active')
    <3>1. active' = active /\ active \in Arrays /\ active # expired
      BY <1>1, <2>1 DEF In, Inv, TypeOK
    <3> QED BY <1>1, <2>1, <3>1, InGood
  <2>2. CASE Out
    BY <1>1, <2>2, OutGood
  <2>3. CASE Peek \/ NoneActive
    BY <1>1, <2>3, LookGood
  <2>4. CASE GoWrong \/ UNCHANGED vars
    BY <1>1, <2>4 DEF GoWrong, vars
  <2> QED BY <1>1, <2>1, <2>2, <2>3, <2>4 DEF Next
<1>2. Inv /\ [Next]_vars => A
  BY <1>1
<1> QED BY <1>2, Invariance, PTL DEF Spec, ActiveStaysActive

LEMMA PeekIsUrgent ==
  ASSUME Inv, Peek
  PROVE  returned' \in Waiting /\ Level(returned') = NextList
<1> USE UpdateFacts
<1>1. /\ active # Unset /\ NewActive \in Arrays /\ Good(NewQueue, NewNrActive)
      /\ NextList \in Prios /\ NewQueue[NewActive][NextList] # <<>>
  BY DEF Peek, Update
<1>2. NewQueue[NewActive][NextList] \in Seq(Pcbs)
  BY <1>1 DEF Good
<1>3. 1 \in DOMAIN NewQueue[NewActive][NextList]
  BY <1>1, <1>2, Ends
<1>4. returned' = NewQueue[NewActive][NextList][1]
  BY DEF Peek, Oldest
<1>5. returned' \in Held(NewQueue, NewActive) /\ Level(returned') = NextList
  BY <1>1, <1>3, <1>4, InList
<1> QED BY <1>1, <1>5

(* What comes out, or is shown, is always one of the most urgent pcbs in   *)
(* the run queue, and no call changes which pcbs wait in any other way.    *)
THEOREM RunQueueImplementsBag == Spec => ImplementsBag
<1>1. Init => Bag!Init
  BY DEF Init, Bag!Init, Waiting, Held, Arrays
<1>2. ASSUME Inv, [Next]_vars PROVE [Bag!Next]_(Bag!vars)
  <2>1. ASSUME NEW x \in Pcbs, In(x) PROVE Bag!Next
    BY <1>2, <2>1, InGood DEF In, Bag!Next, Bag!In
  <2>2. ASSUME Out \/ Peek
        PROVE  \A y \in Waiting : NextList <= Level(y)
    BY <1>2, <2>2, UpdateFacts DEF Out, Peek, Update
  <2>3. CASE Out
    <3>1. returned' \in Bag!Urgent
      BY <1>2, <2>2, <2>3, OutGood DEF Bag!Urgent
    <3> QED BY <1>2, <2>3, <3>1, OutGood DEF Bag!Next, Bag!Out
  <2>4. CASE Peek
    <3>1. returned' \in Bag!Urgent
      BY <1>2, <2>2, <2>4, PeekIsUrgent DEF Bag!Urgent
    <3> QED BY <1>2, <2>4, <3>1, LookGood DEF Bag!Next, Bag!Peek
  <2>5. CASE NoneActive
    <3>1. Waiting = {} /\ returned' = Null
      BY <1>2, <2>5, UpdateFacts DEF NoneActive, Update
    <3> QED BY <1>2, <2>5, <3>1, LookGood DEF Bag!Next, Bag!NoneWaits
  <2>6. CASE GoWrong \/ UNCHANGED vars
    <3>1. returned' = returned
      BY <2>6 DEF GoWrong, vars
    <3> QED BY <1>2, <2>6, <3>1, StayGood DEF Bag!vars
  <2> QED BY <1>2, <2>1, <2>3, <2>4, <2>5, <2>6 DEF Next
<1>3. Inv /\ [Next]_vars => [Bag!Next]_(Bag!vars)
  BY <1>2
<1> QED BY <1>1, <1>3, Invariance, PTL DEF Spec, ImplementsBag, Bag!Spec
=============================================================================
