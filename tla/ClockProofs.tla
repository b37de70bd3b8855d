---------------------------- MODULE ClockProofs ----------------------------
(***************************************************************************)
(* Theorems about Clock, for every set of timers, all frequencies, any     *)
(* number of stopped timers, of frequency changes and of spurious wakeups; *)
(* and about ClockSchedule, when its timers fire.                          *)
(***************************************************************************)
EXTENDS ClockSchedule, FiniteSetTheorems, TLAPS


(* The bound on spurious wakeups is kept. *)
SpuriousBounded == \A p \in Timers \cup {ClockThread} : spurious[p] <= MaxSpurious[p]

(* A tick is only ever counted for a timer that is or was on the clock.    *)
TicksHaveTimers == consumed > 0 /\ total = 0 => \E t \in Timers : pc[t] = "done"

IInv == TypeOK /\ CountsAgree /\ SpuriousBounded /\ TicksHaveTimers /\ NoLostWakeup
-----------------------------------------------------------------------------
(* What a step does to the barrier: the six kinds of steps of Clock. *)
Stays == UNCHANGED <<Registered, Waiting, consumed, total>>

Joins(t) ==
  /\ t \notin Registered
  /\ Registered' = Registered \cup {t}
  /\ total' = total + 1
  /\ UNCHANGED <<Waiting, consumed>>

Leaves(t) ==
  /\ t \in Registered \ Waiting
  /\ Registered' = Registered \ {t}
  /\ total' = total - 1
  /\ pc'[t] = "done"
  /\ UNCHANGED <<Waiting, consumed>>

Arrives(t) ==
  /\ t \in Registered \ Waiting
  /\ Waiting' = Waiting \cup {t}
  /\ consumed' = consumed + 1
  /\ clk' # "attention"
  /\ UNCHANGED <<Registered, total>>

Opens ==
  /\ ~MustWait
  /\ Waiting' = {}
  /\ consumed' = 0
  /\ UNCHANGED <<Registered, total>>

Slips(t) ==
  /\ t \in Waiting
  /\ Waiting' = Waiting \ {t}
  /\ spurious'[t] > 0
  /\ UNCHANGED <<Registered, consumed, total>>

StepKind ==
  \/ Stays
  \/ \E t \in Timers : Joins(t) \/ Leaves(t) \/ Arrives(t) \/ Slips(t)
  \/ Opens

(* The timers are finitely many, so the counters can be compared with sets.*)
LEMMA FiniteThreads ==
  /\ IsFiniteSet(Registered)
  /\ IsFiniteSet(Waiting)
  /\ Cardinality(Registered) \in Nat
  /\ Cardinality(Waiting) \in Nat
<1>1. Registered \in SUBSET Timers /\ Waiting \in SUBSET Timers
  BY DEF Registered, Waiting
<1>2. IsFiniteSet(Registered) /\ IsFiniteSet(Waiting)
  BY <1>1, FS_Subset, ClockAssumption DEF ClockAssumption
<1> QED
  BY <1>2, FS_CardinalityType

(* Every step of the clock, of a timer, of a caller of the API and of the  *)
(* condition variables is of one of the six kinds.                         *)
LEMMA StepKinds ==
  ASSUME TypeOK, [Next]_vars
  PROVE  StepKind
<1> USE DEF TypeOK, StepKind, Registered, Waiting, Critical, Goto, barrierVars
<1>1. CASE ClockLock
  BY <1>1 DEF ClockLock, Stays
<1>2. CASE ClockSleep
  BY <1>2 DEF ClockSleep, Stays
<1>3. CASE ClockBroadcast
  BY <1>3 DEF ClockBroadcast, Opens
<1>4. ASSUME NEW t \in Timers, TimerStep(t)
      PROVE  StepKind
  <2>1. CASE TimerStart(t)
    BY <2>1 DEF TimerStart, Stays
  <2>2. CASE TimerRegister(t)
    <3>1. Joins(t)
      BY <2>2 DEF TimerRegister, Joins
    <3> QED BY <3>1
  <2>3. CASE TimerExit(t)
    <3>1. Leaves(t)
      BY <2>3 DEF TimerExit, Leaves
    <3> QED BY <3>1
  <2>4. CASE TimerLoad(t)
    BY <2>4 DEF TimerLoad, Stays
  <2>5. CASE TimerTick(t)
    BY <2>5 DEF TimerTick, Stays
  <2>6. CASE TimerTest(t)
    BY <2>6 DEF TimerTest, Stays
  <2>7. CASE TimerFire(t)
    BY <2>7 DEF TimerFire, Stays
  <2>8. CASE TimerAttend(t)
    <3>1. Arrives(t)
      BY <2>8 DEF TimerAttend, Arrives
    <3> QED BY <3>1
  <2>9. CASE TimerResume(t)
    BY <2>9 DEF TimerResume, Stays
  <2> QED
    BY <1>4, <2>1, <2>2, <2>3, <2>4, <2>5, <2>6, <2>7, <2>8, <2>9 DEF TimerStep
<1>5. ASSUME NEW p \in Timers \cup {ClockThread}, SpuriousWakeup(p)
      PROVE  StepKind
  <2>1. CASE p \in Timers /\ pc[p] = "cycle"
    <3>1. Slips(p)
      BY <1>5, <2>1, ClockAssumption DEF SpuriousWakeup, Slips, ClockAssumption
    <3> QED BY <3>1, <2>1
  <2>2. CASE UNCHANGED pc
    BY <1>5, <2>2 DEF SpuriousWakeup, Stays
  <2> QED
    BY <1>5, <2>1, <2>2 DEF SpuriousWakeup
<1>6. ASSUME NEW t \in Timers, StopTimer(t)
      PROVE  StepKind
  BY <1>6 DEF StopTimer, Stays
<1>7. ASSUME NEW t \in Timers, NEW new \in NewFreqs, NEW restart \in BOOLEAN,
             ChangeBegin(t, new, restart)
      PROVE  StepKind
  BY <1>7 DEF ChangeBegin, Stays
<1>8. CASE ChangeStep
  BY <1>8 DEF ChangeStep, ChangeAdjust, ChangeTest, ChangeClamp, ChangeSet, Stays
<1>9. CASE UNCHANGED vars
  BY <1>9 DEF vars, Stays
<1> QED
  BY <1>1, <1>2, <1>3, <1>4, <1>5, <1>6, <1>7, <1>8, <1>9 DEF Next, ClockStep

(* The counters keep agreeing with the threads. *)
LEMMA CountsKept ==
  ASSUME TypeOK, TypeOK', CountsAgree, StepKind,
         \A t \in Timers : spurious'[t] = 0 => spurious[t] = 0
  PROVE  CountsAgree'
<1> USE FiniteThreads DEF CountsAgree
<1>1. CASE Stays
  BY <1>1 DEF Stays
<1>2. ASSUME NEW t \in Timers, Joins(t)
      PROVE  CountsAgree'
  <2>1. Cardinality(Registered') = Cardinality(Registered) + 1
    BY <1>2, FS_AddElement DEF Joins
  <2> QED BY <1>2, <2>1 DEF Joins
<1>3. ASSUME NEW t \in Timers, Leaves(t)
      PROVE  CountsAgree'
  <2>1. Cardinality(Registered') = Cardinality(Registered) - 1
    BY <1>3, FS_RemoveElement DEF Leaves
  <2> QED BY <1>3, <2>1 DEF Leaves
<1>4. ASSUME NEW t \in Timers, Arrives(t)
      PROVE  CountsAgree'
  <2>1. Cardinality(Waiting') = Cardinality(Waiting) + 1
    BY <1>4, FS_AddElement DEF Arrives
  <2> QED BY <1>4, <2>1 DEF Arrives, TypeOK
<1>5. ASSUME NEW t \in Timers, Slips(t)
      PROVE  CountsAgree'
  <2>1. Cardinality(Waiting') = Cardinality(Waiting) - 1
    BY <1>5, FS_RemoveElement DEF Slips
  <2>2. spurious'[t] # 0
    BY <1>5 DEF Slips, TypeOK
  <2> QED BY <1>5, <2>1, <2>2 DEF Slips, TypeOK
<1>6. CASE Opens
  <2>1. Cardinality(Waiting') = 0
    BY <1>6, FS_EmptySet DEF Opens
  <2> QED BY <1>6, <2>1 DEF Opens
<1> QED
  BY <1>1, <1>2, <1>3, <1>4, <1>5, <1>6 DEF StepKind

(* No step makes the total negative: only a counted timer leaves. *)
LEMMA TypeKept ==
  ASSUME TypeOK, CountsAgree, [Next]_vars
  PROVE  TypeOK'
<1> USE ClockAssumption DEF TypeOK, Critical, Goto, barrierVars, changeVars, ClockAssumption, Idle
<1>1. CASE ClockStep
  BY <1>1 DEF ClockStep, ClockLock, ClockSleep, ClockBroadcast
<1>2. ASSUME NEW t \in Timers, TimerStep(t)
      PROVE  TypeOK'
  <2>1. CASE TimerExit(t)
    <3>1. t \in Registered
      BY <2>1 DEF TimerExit, Registered
    <3>2. total # 0
      BY <3>1, FiniteThreads, FS_EmptySet DEF CountsAgree
    <3> QED BY <2>1, <3>2 DEF TimerExit
  <2>2. CASE TimerStart(t) \/ TimerRegister(t) \/ TimerLoad(t) \/ TimerTick(t)
    BY <2>2 DEF TimerStart, TimerRegister, TimerLoad, TimerTick
  <2>3. CASE TimerTest(t) \/ TimerFire(t) \/ TimerAttend(t) \/ TimerResume(t)
    BY <2>3 DEF TimerTest, TimerFire, TimerAttend, TimerResume
  <2> QED
    BY <1>2, <2>1, <2>2, <2>3 DEF TimerStep
<1>3. ASSUME NEW p \in Timers \cup {ClockThread}, SpuriousWakeup(p)
      PROVE  TypeOK'
  BY <1>3 DEF SpuriousWakeup
<1>4. ASSUME NEW t \in Timers, StopTimer(t)
      PROVE  TypeOK'
  BY <1>4 DEF StopTimer
<1>5. ASSUME NEW t \in Timers, NEW new \in NewFreqs, NEW restart \in BOOLEAN,
             ChangeBegin(t, new, restart)
      PROVE  TypeOK'
  BY <1>5 DEF ChangeBegin
<1>6. CASE ChangeStep
  BY <1>6 DEF ChangeStep, ChangeAdjust, ChangeTest, ChangeClamp, ChangeSet
<1>7. CASE UNCHANGED vars
  BY <1>7 DEF vars
<1> QED
  BY <1>1, <1>2, <1>3, <1>4, <1>5, <1>6, <1>7 DEF Next
-----------------------------------------------------------------------------
(* The clock never falls asleep on a complete set of ticks: whoever makes  *)
(* the set complete signals it, except a timer that leaves.                *)
LEMMA WakeupKept ==
  ASSUME IInv, TypeOK', [Next]_vars, StepKind
  PROVE  NoLostWakeup' /\ TicksHaveTimers'
<1> USE FiniteThreads DEF IInv, TypeOK, CountsAgree, NoLostWakeup, TicksHaveTimers, MustWait
<1>1. \A t \in Timers : pc[t] = "done" => pc'[t] = "done"
  BY DEF Next, ClockStep, ClockLock, ClockSleep, ClockBroadcast, TimerStep, Goto,
         TimerStart, TimerRegister, TimerExit, TimerLoad, TimerTick, TimerTest,
         TimerFire, TimerAttend, TimerResume, SpuriousWakeup, StopTimer, ChangeBegin,
         ChangeStep, ChangeAdjust, ChangeTest, ChangeClamp, ChangeSet, vars, barrierVars
<1>2. clk' = "attention" => clk = "attention" \/ (MustWait /\ UNCHANGED <<consumed, total>>)
  BY DEF Next, ClockStep, ClockLock, ClockSleep, ClockBroadcast, TimerStep, Goto,
         TimerStart, TimerRegister, TimerExit, TimerLoad, TimerTick, TimerTest,
         TimerFire, TimerAttend, TimerResume, SpuriousWakeup, StopTimer, ChangeBegin,
         ChangeStep, ChangeAdjust, ChangeTest, ChangeClamp, ChangeSet, vars, barrierVars
<1>3. CASE Stays
  BY <1>1, <1>2, <1>3 DEF Stays
<1>4. ASSUME NEW t \in Timers, Joins(t)
      PROVE  NoLostWakeup' /\ TicksHaveTimers'
  BY <1>1, <1>2, <1>4 DEF Joins
<1>5. ASSUME NEW t \in Timers, Leaves(t)
      PROVE  NoLostWakeup' /\ TicksHaveTimers'
  BY <1>5 DEF Leaves
<1>6. ASSUME NEW t \in Timers, Arrives(t)
      PROVE  NoLostWakeup' /\ TicksHaveTimers'
  <2>1. total # 0
    BY <1>6, FS_EmptySet DEF Arrives
  <2> QED BY <1>1, <1>6, <2>1 DEF Arrives
<1>7. ASSUME NEW t \in Timers, Slips(t)
      PROVE  NoLostWakeup' /\ TicksHaveTimers'
  BY <1>1, <1>2, <1>7 DEF Slips
<1>8. CASE Opens
  BY <1>1, <1>2, <1>8 DEF Opens
<1> QED
  BY <1>3, <1>4, <1>5, <1>6, <1>7, <1>8 DEF StepKind

LEMMA InvInit == Init => IInv
<1> SUFFICES ASSUME Init PROVE IInv
  OBVIOUS
<1> USE ClockAssumption DEF Init, ClockAssumption
<1>1. TypeOK
  BY DEF TypeOK, Critical, Idle
<1>2. Registered = {} /\ Waiting = {}
  BY DEF Registered, Waiting, Critical
<1>3. CountsAgree
  BY <1>2, FS_EmptySet DEF CountsAgree
<1> QED
  BY <1>1, <1>3 DEF IInv, SpuriousBounded, TicksHaveTimers, NoLostWakeup

LEMMA InvNext == IInv /\ [Next]_vars => IInv'
<1> SUFFICES ASSUME IInv, [Next]_vars PROVE IInv'
  OBVIOUS
<1>1. TypeOK'
  BY TypeKept DEF IInv
<1>2. StepKind
  BY StepKinds DEF IInv
<1>3. \A p \in Timers \cup {ClockThread} :
        /\ spurious'[p] = 0 => spurious[p] = 0
        /\ spurious'[p] <= MaxSpurious[p]
  BY ClockAssumption
     DEF IInv, SpuriousBounded, TypeOK, ClockAssumption, Next, ClockStep, ClockLock,
         ClockSleep, ClockBroadcast, TimerStep, TimerStart, TimerRegister, TimerExit,
         TimerLoad, TimerTick, TimerTest, TimerFire, TimerAttend, TimerResume,
         SpuriousWakeup, StopTimer, ChangeBegin, ChangeStep, ChangeAdjust, ChangeTest,
         ChangeClamp, ChangeSet, vars
<1>4. CountsAgree'
  BY <1>1, <1>2, <1>3, CountsKept DEF IInv
<1>5. NoLostWakeup' /\ TicksHaveTimers'
  BY <1>1, <1>2, WakeupKept
<1> QED
  BY <1>1, <1>3, <1>4, <1>5 DEF IInv, SpuriousBounded

LEMMA Invariance == Spec => []IInv
  BY InvInit, InvNext, PTL DEF Spec

(* The variables of clock.c keep their types; in particular, no schedule   *)
(* makes timer_total_cont negative.                                        *)
THEOREM TypeCorrect == Spec => []TypeOK
<1>1. IInv => TypeOK
  BY DEF IInv
<1> QED
  BY <1>1, Invariance, PTL

(* The clock decides by counters that agree with the threads.              *)
THEOREM CountersAgree == Spec => []CountsAgree
<1>1. IInv => CountsAgree
  BY DEF IInv
<1> QED
  BY <1>1, Invariance, PTL

(* The clock sleeps on a complete set of ticks only after a timer left.    *)
THEOREM WakeupsAreNotLost == Spec => []NoLostWakeup
<1>1. IInv => NoLostWakeup
  BY DEF IInv
<1> QED
  BY <1>1, Invariance, PTL

(* A step of Clock is a step of the barrier, or changes nothing of it. *)
LEMMA BarrierStep ==
  ASSUME IInv, StepKind, \A t \in Timers : spurious[t] = 0 /\ spurious'[t] = 0
  PROVE  [Barrier!Next]_(Barrier!vars)
<1> USE DEF Barrier!Next, Barrier!vars
<1>1. CASE Stays
  BY <1>1 DEF Stays
<1>2. ASSUME NEW t \in Timers, Joins(t) \/ Leaves(t) \/ Arrives(t)
      PROVE  Barrier!Next
  BY <1>2 DEF Joins, Leaves, Arrives, Barrier!Join, Barrier!Leave, Barrier!Tick
<1>3. ASSUME NEW t \in Timers, Slips(t)
      PROVE  FALSE
  BY <1>3 DEF Slips, IInv, TypeOK
<1>4. CASE Opens
  <2>1. Cardinality(Registered) <= Cardinality(Waiting) /\ Cardinality(Registered) # 0
    BY <1>4, FiniteThreads DEF Opens, MustWait, IInv, TypeOK, CountsAgree
  <2>2. Waiting \in SUBSET Registered
    BY DEF Waiting, Registered
  <2>3. Waiting = Registered /\ Registered # {}
    BY <2>1, <2>2, FiniteThreads, FS_Subset, FS_EmptySet
  <2> QED
    BY <1>4, <2>3 DEF Opens, Barrier!NextCycle
<1> QED
  BY <1>1, <1>2, <1>3, <1>4 DEF StepKind

(* If no timer wakes spuriously, the threads of clock.c are a cyclic       *)
(* barrier: between two cycles every timer on the clock ticks exactly once,*)
(* whatever timers are stopped and frequencies are changed meanwhile.      *)
THEOREM ClockIsBarrier ==
  ASSUME \A t \in Timers : MaxSpurious[t] = 0
  PROVE  Spec => ImplementsBarrier
<1>1. Init => Barrier!Init
  BY DEF Init, Barrier!Init, Registered, Waiting, Critical
<1>2. IInv => \A t \in Timers : spurious[t] = 0
  BY DEF IInv, TypeOK, SpuriousBounded
<1>3. IInv /\ IInv' /\ [Next]_vars => [Barrier!Next]_(Barrier!vars)
  <2> SUFFICES ASSUME IInv, IInv', [Next]_vars
               PROVE  [Barrier!Next]_(Barrier!vars)
    OBVIOUS
  <2>1. \A t \in Timers : spurious[t] = 0 /\ spurious'[t] = 0
    BY DEF IInv, TypeOK, SpuriousBounded
  <2>2. StepKind
    BY StepKinds DEF IInv
  <2> QED
    BY <2>1, <2>2, BarrierStep
<1> QED
  BY <1>1, <1>3, Invariance, PTL DEF Spec, ImplementsBarrier, Barrier!Spec
-----------------------------------------------------------------------------
(* What a call of clk_change_timer_tickFreq has not yet looked at.         *)
Unsettled(t) == change # Idle /\ change.at # "set" /\ change.timer = t

(* A timer between two ticks has a tick to go, except for the time in      *)
(* which a call has changed its count and not yet tested it.  A call that  *)
(* is about to set the frequency has tested the count before, and whatever *)
(* the timer made of it since, the timer tests itself.                     *)
TicksToGo ==
  /\ \A t \in Timers : freq[t] >= 1
  /\ \A t \in Timers :
       pc[t] \in {"lock", "attend", "cycle", "woken", "loop"} /\ ~Unsettled(t) => count[t] >= 1

LEMMA TicksToGoKept ==
  ASSUME TypeOK, TypeOK', TicksToGo, [Next]_vars, \A f \in NewFreqs : f >= 1
  PROVE  TicksToGo'
<1> USE DEF TypeOK, TicksToGo, Unsettled, Idle, barrierVars, changeVars, Goto
<1>1. CASE ClockStep
  BY <1>1 DEF ClockStep, ClockLock, ClockSleep, ClockBroadcast
<1>2. ASSUME NEW t \in Timers, TimerStep(t)
      PROVE  TicksToGo'
  <2>1. CASE TimerStart(t) \/ TimerRegister(t) \/ TimerExit(t) \/ TimerLoad(t)
    BY <2>1 DEF TimerStart, TimerRegister, TimerExit, TimerLoad
  <2>2. CASE TimerTick(t) \/ TimerTest(t) \/ TimerFire(t)
    BY <2>2 DEF TimerTick, TimerTest, TimerFire
  <2>3. CASE TimerAttend(t) \/ TimerResume(t)
    BY <2>3 DEF TimerAttend, TimerResume
  <2> QED
    BY <1>2, <2>1, <2>2, <2>3 DEF TimerStep
<1>3. ASSUME NEW p \in Timers \cup {ClockThread}, SpuriousWakeup(p)
      PROVE  TicksToGo'
  BY <1>3 DEF SpuriousWakeup
<1>4. ASSUME NEW t \in Timers, StopTimer(t)
      PROVE  TicksToGo'
  BY <1>4 DEF StopTimer
<1>5. ASSUME NEW t \in Timers, NEW new \in NewFreqs, NEW restart \in BOOLEAN,
             ChangeBegin(t, new, restart)
      PROVE  TicksToGo'
  BY <1>5 DEF ChangeBegin
<1>6. CASE ChangeStep
  <2>1. CASE ChangeAdjust
    BY <2>1 DEF ChangeAdjust
  <2>2. CASE ChangeTest
    BY <2>2 DEF ChangeTest
  <2>3. CASE ChangeClamp
    BY <2>3 DEF ChangeClamp
  <2>4. CASE ChangeSet
    BY <2>4 DEF ChangeSet
  <2> QED
    BY <1>6, <2>1, <2>2, <2>3, <2>4 DEF ChangeStep
<1>7. CASE UNCHANGED vars
  BY <1>7 DEF vars
<1> QED
  BY <1>1, <1>2, <1>3, <1>4, <1>5, <1>6, <1>7 DEF Next

(* With frequencies of at least 1, no call of clk_change_timer_tickFreq,   *)
(* however it races with the count-down of a timer (clock.c), leaves a     *)
(* count that is used up.                                                  *)
THEOREM CountsAreNeverOverdue ==
  ASSUME \A t \in Timers : Freq[t] >= 1, \A f \in NewFreqs : f >= 1
  PROVE  Spec => []NeverOverdue
<1>1. Init => TicksToGo
  BY DEF Init, TicksToGo
<1>2. IInv /\ IInv' /\ TicksToGo /\ [Next]_vars => TicksToGo'
  BY TicksToGoKept DEF IInv
<1>3. TicksToGo => NeverOverdue
  BY DEF TicksToGo, NeverOverdue, Unsettled
<1> QED
  BY <1>1, <1>2, <1>3, Invariance, PTL DEF Spec
-----------------------------------------------------------------------------
(***************************************************************************)
(* The timers of Clock fire exactly when they are due: for every set of    *)
(* timers, all frequencies and any timers stopped, if no frequency is      *)
(* changed and no timer wakes spuriously.                                  *)
(*                                                                         *)
(* The invariant is that a timer's count, the cycles since it registered   *)
(* and the tick it may have taken in this one add up to a multiple of its  *)
(* frequency (OnTime).  A new cycle keeps it because every timer on the    *)
(* clock has then ticked (AllTicked).                                      *)
(***************************************************************************)

Multiple(f, n) == \E k \in Int : n = f * k

LEMMA MultipleSum ==
  ASSUME NEW f \in Nat \ {0}, NEW m \in Int, NEW n \in Int, Multiple(f, m), Multiple(f, n)
  PROVE  Multiple(f, m + n) /\ Multiple(f, m - n)
<1>1. PICK j \in Int : m = f * j
  BY DEF Multiple
<1>2. PICK k \in Int : n = f * k
  BY DEF Multiple
<1>3. m + n = f * (j + k) /\ j + k \in Int
  BY <1>1, <1>2
<1>4. m - n = f * (j - k) /\ j - k \in Int
  BY <1>1, <1>2
<1> QED
  BY <1>3, <1>4, Zenon DEF Multiple

LEMMA MultipleTransitive ==
  ASSUME NEW f \in Nat \ {0}, NEW m \in Int, NEW n \in Int, Multiple(f, m), Multiple(m, n)
  PROVE  Multiple(f, n)
<1>1. PICK j \in Int : m = f * j
  BY DEF Multiple
<1>2. PICK k \in Int : n = m * k
  BY DEF Multiple
<1>3. n = f * (j * k) /\ j * k \in Int
  BY <1>1, <1>2
<1> QED
  BY <1>3 DEF Multiple

LEMMA MultipleBounds ==
  ASSUME NEW f \in Nat \ {0}, NEW n \in Int, Multiple(f, n)
  PROVE  (n \in 1 .. f => n = f) /\ (n \in 0 .. f - 1 => n = 0)
<1>1. PICK k \in Int : n = f * k
  BY DEF Multiple
<1>2. (k <= 0 => f * k <= 0) /\ (k >= 2 => f * k >= 2 * f) /\ (k <= -1 => f * k <= -f)
  OBVIOUS
<1>3. k <= 0 \/ k = 1 \/ k >= 2
  OBVIOUS
<1>4. k <= -1 \/ k = 0 \/ k >= 1
  OBVIOUS
<1>5. k >= 1 => f * k >= f
  OBVIOUS
<1>6. f * 0 = 0 /\ f * 1 = f
  OBVIOUS
<1> QED
  BY <1>1, <1>2, <1>3, <1>4, <1>5, <1>6

LEMMA MultipleMod ==
  ASSUME NEW f \in Nat \ {0}, NEW n \in Int
  PROVE  /\ Multiple(f, n) <=> n % f = 0
         /\ Multiple(f, n - (n % f))
         /\ n % f \in 0 .. f - 1
<1>1. n % f \in 0 .. f - 1 /\ n \div f \in Int /\ n = f * (n \div f) + (n % f)
  OBVIOUS
<1>2. Multiple(f, n - (n % f))
  <2>1. n - (n % f) = f * (n \div f)
    BY <1>1
  <2> QED
    BY <1>1, <2>1 DEF Multiple
<1>3. ASSUME n % f = 0 PROVE Multiple(f, n)
  BY <1>2, <1>3
<1>4. ASSUME Multiple(f, n) PROVE n % f = 0
  <2>1. n - (n % f) \in Int /\ n - (n - (n % f)) = n % f
    BY <1>1
  <2>2. Multiple(f, n - (n - (n % f)))
    BY <1>2, <1>4, <2>1, MultipleSum, Zenon
  <2>3. Multiple(f, n % f)
    BY <2>1, <2>2, Zenon
  <2> QED
    BY <1>1, <2>3, MultipleBounds
<1> QED
  BY <1>1, <1>2, <1>3, <1>4

LEMMA Remainder ==
  ASSUME NEW f \in Nat \ {0}, NEW n \in Int, NEW r, r = n % f
  PROVE  r \in Int /\ Multiple(f, n - r)
<1>1. n % f \in Int
  OBVIOUS
<1> QED
  BY <1>1, MultipleMod, Zenon

LEMMA MultipleSelf ==
  ASSUME NEW f \in Nat \ {0}
  PROVE  Multiple(f, 0) /\ Multiple(f, f)
<1>1. 0 = f * 0 /\ f = f * 1
  OBVIOUS
<1> QED
  BY <1>1 DEF Multiple
-----------------------------------------------------------------------------
(* The tick that a timer has taken in this cycle. *)
Ahead(t) == IF pc[t] \in {"test", "fire", "attend", "cycle"} THEN 1 ELSE 0

OnTime(t) ==
  /\ pc[t] = "lock" => count[t] = Freq[t]
  /\ t \in Registered => Multiple(Freq[t], cycle - joined[t] + count[t] + Ahead(t))
  /\ pc[t] \in {"loop", "tick", "woken", "attend", "cycle"} => count[t] \in 1 .. Freq[t]
  /\ pc[t] = "tick" => loaded[t] = count[t]
  /\ pc[t] = "test" => count[t] \in 0 .. Freq[t] - 1
  /\ pc[t] = "fire" => count[t] = 0

SInv ==
  /\ cycle \in Int
  /\ joined \in [Timers -> Int]
  /\ freq = Freq
  /\ change = Idle
  /\ calls = 0
  /\ \A t \in Timers : OnTime(t)

(* What the theorem assumes: nobody changes a frequency, and no timer      *)
(* wakes spuriously.                                                       *)
Undisturbed == MaxChanges = 0 /\ \A t \in Timers : MaxSpurious[t] = 0

LEMMA FreqFacts ==
  ASSUME NEW t \in Timers
  PROVE  Freq[t] \in Nat \ {0} /\ Period \in Nat \ {0} /\ Multiple(Freq[t], Period)
<1>1. Freq[t] \in Nat \ {0} /\ Period \in Nat \ {0} /\ Period % Freq[t] = 0
  BY PeriodAssumption DEF PeriodAssumption
<1>2. Multiple(Freq[t], Period)
  <2>1. Period \in Int
    BY <1>1
  <2> QED
    BY <1>1, <2>1, MultipleMod, Zenon
<1> QED
  BY <1>1, <1>2

(* When the clock broadcasts, every timer on it is parked. *)
LEMMA AllTicked ==
  ASSUME IInv, Undisturbed, ~MustWait
  PROVE  Registered = Waiting /\ consumed > 0
<1>1. \A t \in Timers : spurious[t] = 0
  BY DEF IInv, SpuriousBounded, TypeOK, Undisturbed
<1>2. /\ Cardinality(Registered) <= Cardinality(Waiting)
      /\ consumed > 0
  BY <1>1, FiniteThreads DEF IInv, CountsAgree, TypeOK, MustWait
<1>3. Waiting \in SUBSET Registered
  BY DEF Waiting, Registered
<1> QED
  BY <1>2, <1>3, FiniteThreads, FS_Subset

LEMMA CycleTurns ==
  ASSUME IInv, IInv', SInv, Undisturbed, HNext, ClockBroadcast
  PROVE  SInv'
<1>1. Registered = Waiting /\ consumed > 0
  BY AllTicked DEF ClockBroadcast
<1>2. cycle' = (cycle + 1) % Period /\ consumed' = 0 /\ total' = total
  BY <1>1 DEF HNext, ClockBroadcast, IInv, TypeOK
<1>3. joined' = joined
  BY <1>2 DEF HNext, SInv, IInv, TypeOK
<1>4. /\ pc' = [t \in Timers |-> IF pc[t] = "cycle" THEN "woken" ELSE pc[t]]
      /\ UNCHANGED <<count, loaded, freq, change, calls>>
  BY DEF ClockBroadcast, changeVars
<1>5. Period \in Nat \ {0}
  BY PeriodAssumption DEF PeriodAssumption
<1>6. cycle' \in Int /\ Multiple(Period, (cycle + 1) - cycle')
  <2>1. cycle + 1 \in Int
    BY DEF SInv
  <2> QED
    BY <1>2, <1>5, <2>1, Remainder, Zenon
<1>7. ASSUME NEW t \in Timers
      PROVE  OnTime(t)'
  <2>1. OnTime(t) /\ count[t] \in Int /\ cycle \in Int /\ joined[t] \in Int
    BY DEF SInv, IInv, TypeOK
  <2>2. CASE pc[t] = "cycle"
    <3>1. pc'[t] = "woken"
      BY <1>4, <2>2
    <3>2. Multiple(Freq[t], cycle - joined[t] + count[t] + 1) /\ count[t] \in 1 .. Freq[t]
      BY <2>1, <2>2 DEF OnTime, Ahead, Registered
    <3>3. Multiple(Freq[t], (cycle + 1) - cycle')
      BY <1>6, <2>1, FreqFacts, MultipleTransitive
    <3>4. Multiple(Freq[t], (cycle - joined[t] + count[t] + 1) - ((cycle + 1) - cycle'))
      BY <1>6, <2>1, <3>2, <3>3, FreqFacts, MultipleSum
    <3>5. (cycle - joined[t] + count[t] + 1) - ((cycle + 1) - cycle') = cycle' - joined[t] + count[t] + 0
      BY <1>6, <2>1
    <3>6. Multiple(Freq[t], cycle' - joined[t] + count[t] + 0)
      BY <3>4, <3>5
    <3> QED
      BY <1>3, <1>4, <3>1, <3>2, <3>6 DEF OnTime, Ahead
  <2>3. CASE pc[t] # "cycle"
    <3>1. t \notin Registered
      BY <1>1, <2>3 DEF Waiting
    <3>2. pc'[t] = pc[t]
      BY <1>4, <2>3
    <3> QED
      BY <1>4, <2>1, <3>1, <3>2 DEF OnTime, Registered, Critical
  <2> QED
    BY <2>2, <2>3
<1> QED
  BY <1>3, <1>4, <1>6, <1>7 DEF SInv
-----------------------------------------------------------------------------
(* No timer but t changes in the step. *)
Others(t) ==
  \A s \in Timers \ {t} :
    pc'[s] = pc[s] /\ count'[s] = count[s] /\ loaded'[s] = loaded[s] /\ joined'[s] = joined[s]

LEMMA OthersOnTime ==
  ASSUME SInv, NEW t \in Timers, Others(t), cycle' = cycle
  PROVE  \A s \in Timers \ {t} : OnTime(s)'
  BY DEF SInv, OnTime, Others, Ahead, Registered

LEMMA TimerOnTime ==
  ASSUME IInv, IInv', SInv, HNext, NEW t \in Timers, TimerStep(t)
  PROVE  SInv'
<1> DEFINE f == Freq[t]
<1>0. /\ f \in Nat \ {0} /\ freq[t] = f
      /\ OnTime(t) /\ count[t] \in Int /\ loaded[t] \in Int
      /\ cycle \in Int /\ joined \in [Timers -> Int]
      /\ pc \in [Timers -> Critical \cup {"start", "lock", "cycle", "woken", "done"}]
      /\ count \in [Timers -> Int] /\ loaded \in [Timers -> Int]
      /\ consumed \in Nat /\ total \in Nat
  BY FreqFacts DEF SInv, IInv, TypeOK
<1>1. UNCHANGED <<freq, change, calls>> /\ consumed' >= consumed /\ consumed' \in Nat
  BY <1>0 DEF TimerStep, Goto, changeVars, TimerStart, TimerRegister, TimerExit, TimerLoad,
              TimerTick, TimerTest, TimerFire, TimerAttend, TimerResume
<1>2. cycle' = cycle
  BY <1>0, <1>1 DEF HNext
<1>3. joined' = [s \in Timers |-> IF total' > total /\ pc[s] # pc'[s] THEN cycle ELSE joined[s]]
  BY DEF HNext
<1>4. joined' \in [Timers -> Int]
  BY <1>0, <1>3
<1>5. Others(t)
  <2>1. \A s \in Timers \ {t} : pc'[s] = pc[s] /\ count'[s] = count[s] /\ loaded'[s] = loaded[s]
    BY <1>0 DEF TimerStep, Goto, TimerStart, TimerRegister, TimerExit, TimerLoad,
                TimerTick, TimerTest, TimerFire, TimerAttend, TimerResume
  <2> QED
    BY <1>0, <1>3, <2>1 DEF Others
<1>6. OnTime(t)'
  <2> USE <1>0, <1>2 DEF Goto
  <2>1. CASE TimerStart(t)
    BY <2>1 DEF TimerStart, OnTime, Registered, Critical
  <2>2. CASE TimerRegister(t)
    <3>1. pc[t] = "lock" /\ pc'[t] = "loop" /\ count'[t] = f /\ joined'[t] = cycle
      BY <1>3, <2>2 DEF TimerRegister, OnTime
    <3>2. cycle' - joined'[t] + count'[t] + 0 = f
      BY <3>1
    <3> QED
      BY <3>1, <3>2, MultipleSelf DEF OnTime, Ahead
  <2>3. ASSUME UNCHANGED total PROVE joined'[t] = joined[t]
    BY <1>3, <2>3
  <2>4. CASE TimerExit(t)
    BY <2>4 DEF TimerExit, OnTime, Registered, Critical
  <2>5. CASE TimerLoad(t)
    BY <2>3, <2>5 DEF TimerLoad, OnTime, Ahead, Registered, Critical
  <2>6. CASE TimerTick(t)
    <3>1. /\ pc[t] = "tick" /\ pc'[t] = "test" /\ count'[t] = count[t] - 1
          /\ joined'[t] = joined[t] /\ count[t] \in 1 .. f
      BY <2>3, <2>6 DEF TimerTick, OnTime
    <3>2. Multiple(f, cycle - joined[t] + count[t] + 0)
      BY <3>1 DEF OnTime, Ahead, Registered, Critical
    <3>3. cycle' - joined'[t] + count'[t] + 1 = cycle - joined[t] + count[t] + 0
      BY <3>1
    <3>4. count'[t] \in 0 .. f - 1
      BY <3>1
    <3> QED
      BY <3>1, <3>2, <3>3, <3>4 DEF OnTime, Ahead
  <2>7. CASE TimerTest(t)
    BY <2>3, <2>7 DEF TimerTest, OnTime, Ahead, Registered, Critical
  <2>8. CASE TimerFire(t)
    <3>1. /\ pc[t] = "fire" /\ pc'[t] = "attend" /\ count[t] = 0 /\ count'[t] = f
          /\ joined'[t] = joined[t]
      BY <2>3, <2>8 DEF TimerFire, OnTime
    <3>2. Multiple(f, cycle - joined[t] + 0 + 1)
      BY <3>1 DEF OnTime, Ahead, Registered, Critical
    <3>3. Multiple(f, (cycle - joined[t] + 0 + 1) + f)
      <4>1. cycle - joined[t] + 0 + 1 \in Int /\ f \in Int /\ f \in Nat \ {0}
        OBVIOUS
      <4>2. Multiple(f, f)
        BY <4>1, MultipleSelf, Zenon
      <4> QED
        BY <3>2, <4>1, <4>2, MultipleSum, Zenon
    <3>4. cycle' - joined'[t] + count'[t] + 1 = (cycle - joined[t] + 0 + 1) + f
      BY <3>1
    <3> QED
      BY <3>1, <3>3, <3>4 DEF OnTime, Ahead
  <2>9. CASE TimerAttend(t)
    BY <2>3, <2>9 DEF TimerAttend, OnTime, Ahead, Registered, Critical
  <2>10. CASE TimerResume(t)
    BY <2>3, <2>10 DEF TimerResume, OnTime, Ahead, Registered, Critical
  <2> QED
    BY <2>1, <2>2, <2>4, <2>5, <2>6, <2>7, <2>8, <2>9, <2>10 DEF TimerStep
<1>7. \A s \in Timers \ {t} : OnTime(s)'
  BY <1>2, <1>5, OthersOnTime
<1> QED
  BY <1>0, <1>1, <1>2, <1>4, <1>6, <1>7 DEF SInv

(* A step that leaves all timers and the cycle alone. *)
LEMMA NobodyMoves ==
  ASSUME SInv, IInv, UNCHANGED <<pc, consumed, total, count, loaded, freq, changeVars>>, HNext
  PROVE  SInv'
<1>1. cycle' = cycle /\ joined' = joined
  BY DEF HNext, SInv, IInv, TypeOK
<1> QED
  BY <1>1 DEF SInv, OnTime, Ahead, Registered, changeVars

LEMMA ScheduleKept ==
  ASSUME IInv, IInv', SInv, Undisturbed, [HNext]_hvars
  PROVE  SInv'
<1>1. CASE UNCHANGED hvars
  BY <1>1 DEF hvars, vars, barrierVars, changeVars, SInv, OnTime, Ahead, Registered
<1>2. CASE HNext
  <2>1. CASE ClockLock \/ ClockSleep
    BY <1>2, <2>1, NobodyMoves DEF ClockLock, ClockSleep
  <2>2. CASE ClockBroadcast
    BY <1>2, <2>2, CycleTurns
  <2>3. ASSUME NEW t \in Timers, TimerStep(t)
        PROVE  SInv'
    BY <1>2, <2>3, TimerOnTime
  <2>4. ASSUME NEW p \in Timers \cup {ClockThread}, SpuriousWakeup(p)
        PROVE  SInv'
    <3>1. p \notin Timers
      BY <2>4 DEF SpuriousWakeup, Undisturbed, IInv, TypeOK
    <3> QED
      BY <1>2, <2>4, <3>1, NobodyMoves DEF SpuriousWakeup
  <2>5. ASSUME NEW t \in Timers, StopTimer(t)
        PROVE  SInv'
    BY <1>2, <2>5, NobodyMoves DEF StopTimer, barrierVars
  <2>6. ASSUME NEW t \in Timers, NEW new \in NewFreqs, NEW restart \in BOOLEAN,
               ChangeBegin(t, new, restart)
        PROVE  FALSE
    BY <2>6 DEF ChangeBegin, Undisturbed, SInv
  <2>7. ASSUME ChangeStep PROVE FALSE
    BY <2>7 DEF ChangeStep, ChangeAdjust, ChangeTest, ChangeClamp, ChangeSet, SInv, Idle
  <2> QED
    BY <1>2, <2>1, <2>2, <2>3, <2>4, <2>5, <2>6, <2>7 DEF HNext, Next, ClockStep
<1> QED
  BY <1>1, <1>2

LEMMA OnTimeFires == IInv /\ SInv => FiresOnSchedule
<1> SUFFICES ASSUME IInv, SInv, NEW t \in Registered
             PROVE  /\ pc[t] = "fire" => Due(t)
                    /\ pc[t] = "cycle" => (Due(t) <=> count[t] = Freq[t])
  BY DEF FiresOnSchedule
<1> DEFINE f == Freq[t]
           a == cycle - joined[t] + 1
<1>1. /\ t \in Timers /\ f \in Nat \ {0} /\ count[t] \in Int
      /\ cycle \in Int /\ joined[t] \in Int /\ a \in Int /\ OnTime(t)
  BY FreqFacts DEF Registered, SInv, IInv, TypeOK
<1>2. Due(t) <=> Multiple(f, a)
  BY <1>1, MultipleMod DEF Due
<1>3. Ahead(t) = 1 => Multiple(f, a + count[t])
  <2>1. cycle - joined[t] + count[t] + 1 = a + count[t]
    BY <1>1
  <2> QED
    BY <1>1, <2>1 DEF OnTime
<1> HIDE DEF a, f
<1>4. CASE pc[t] = "fire"
  <2>1. count[t] = 0 /\ a + 0 = a /\ Ahead(t) = 1
    BY <1>1, <1>4 DEF OnTime, Ahead
  <2> QED
    BY <1>2, <1>3, <1>4, <2>1
<1>5. CASE pc[t] = "cycle"
  <2>1. Multiple(f, a + count[t]) /\ count[t] \in 1 .. f
    BY <1>1, <1>3, <1>5 DEF OnTime, Ahead, f
  <2>2. ASSUME Multiple(f, a) PROVE count[t] = f
    <3>1. Multiple(f, (a + count[t]) - a)
      BY <1>1, <2>1, <2>2, MultipleSum
    <3>2. (a + count[t]) - a = count[t]
      BY <1>1
    <3> QED
      BY <1>1, <2>1, <3>1, <3>2, MultipleBounds
  <2>3. ASSUME count[t] = f PROVE Multiple(f, a)
    <3>1. Multiple(f, (a + count[t]) - f)
      <4>1. a + count[t] \in Int /\ f \in Int /\ f \in Nat \ {0}
        BY <1>1 DEF f
      <4>2. Multiple(f, f)
        BY <4>1, MultipleSelf, Zenon
      <4> QED
        BY <2>1, <4>1, <4>2, MultipleSum, Zenon
    <3>2. (a + count[t]) - f = a
      BY <1>1, <2>3
    <3> QED
      BY <3>1, <3>2
  <2> QED
    BY <1>2, <1>5, <2>2, <2>3 DEF f
<1> QED
  BY <1>4, <1>5

(* However the threads that share the mutex are interleaved (clock.c), and *)
(* whichever of them are stopped, a timer of frequency f runs its          *)
(* TickAction in every f-th cycle since it registered and in no other.     *)
THEOREM TimersFireOnSchedule ==
  ASSUME Undisturbed
  PROVE  HSpec => []FiresOnSchedule
<1>1. HInit => Init /\ SInv
  BY ClockAssumption DEF HInit, Init, SInv, OnTime, Registered, Critical, ClockAssumption
<1>2. [HNext]_hvars => [Next]_vars
  BY DEF HNext, hvars
<1>3. IInv /\ IInv' /\ SInv /\ [HNext]_hvars => SInv'
  BY ScheduleKept
<1>4. HSpec => Spec
  BY <1>1, <1>2, PTL DEF HSpec, Spec
<1> QED
  BY <1>1, <1>3, <1>4, Invariance, OnTimeFires, PTL DEF HSpec
=============================================================================
