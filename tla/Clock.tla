------------------------------- MODULE Clock -------------------------------
(***************************************************************************)
(* The clock thread and the timer threads of src/clock.c.  All of them run *)
(* under one mutex (mutex_clk) and meet through two condition variables:   *)
(* a timer that has ticked signals cond_timer_attention and parks on       *)
(* cond_clk_cycle; the clock parks on cond_timer_attention and, when it    *)
(* has counted a tick for every timer, broadcasts cond_clk_cycle.          *)
(*                                                                         *)
(* A step is what a thread does between two points at which another thread *)
(* can act on the state it uses: inside the mutex these are the accesses   *)
(* to tick_count, timer_tick_freq and timer_status, which clk_stop_timer   *)
(* and clk_change_timer_tickFreq touch without the mutex.                  *)
(***************************************************************************)
EXTENDS Integers, FiniteSets

CONSTANTS
  Timers,        \* the timers that main() registers with the clock
  ClockThread,   \* the clock thread
  Freq,          \* timer_tick_freq given to clk_timer_init
  Stoppable,     \* the timers on which clk_stop_timer may be called
  NewFreqs,      \* the frequencies clk_change_timer_tickFreq is called with
  MaxChanges,    \* bound: calls of clk_change_timer_tickFreq
  MaxSpurious    \* bound: spurious wakeups of each thread's condition wait

ASSUME ClockAssumption ==
  /\ IsFiniteSet(Timers)
  /\ ClockThread \notin Timers
  /\ Freq \in [Timers -> Int]
  /\ Stoppable \subseteq Timers
  /\ NewFreqs \subseteq Int
  /\ MaxChanges \in Nat
  /\ MaxSpurious \in [Timers \cup {ClockThread} -> Nat]

VARIABLES
  clk,        \* where the clock thread is
  pc,         \* where each timer thread is
  consumed,   \* timer_tick_consumed_cont
  total,      \* timer_total_cont
  count,      \* tick_count of each timer
  loaded,     \* the value of tick_count that a timer is decrementing
  freq,       \* timer_tick_freq of each timer
  stopped,    \* the timers with timer_status = CLOCK_STATUS_TERMINATE
  change,     \* the call of clk_change_timer_tickFreq in progress
  calls,      \* calls of clk_change_timer_tickFreq so far
  spurious    \* spurious wakeups of each thread so far

barrierVars == <<clk, pc, consumed, total>>
changeVars == <<change, calls>>
vars == <<barrierVars, count, loaded, freq, stopped, changeVars, spurious>>

(* The mutex is held exactly by a thread that is between taking it and its *)
(* next condition wait (or return).                                        *)
Critical == {"loop", "tick", "test", "fire", "attend"}
MutexFree == clk # "check" /\ \A t \in Timers : pc[t] \notin Critical

Waiting == {t \in Timers : pc[t] = "cycle"}
Registered == {t \in Timers : pc[t] \in Critical \cup {"cycle", "woken"}}

Goto(t, from, to) == pc[t] = from /\ pc' = [pc EXCEPT ![t] = to]

Idle == [at |-> "idle"]

(* clk_clock_init, and clk_timer_init for every timer. *)
Init ==
  /\ clk = "lock"
  /\ pc = [t \in Timers |-> "start"]
  /\ consumed = 0
  /\ total = 0
  /\ count = [t \in Timers |-> 0]
  /\ loaded = [t \in Timers |-> 0]
  /\ freq = Freq
  /\ stopped = {}
  /\ change = Idle
  /\ calls = 0
  /\ spurious = [p \in Timers \cup {ClockThread} |-> 0]
-----------------------------------------------------------------------------
(* A definition marked "Fault" is a plausible slip in the step after it:   *)
(* Next does not use it; it shows that a property notices the slip.        *)
-----------------------------------------------------------------------------
(* clk_clock_start: the clock thread. *)

ClockLock ==
  /\ clk \in {"lock", "woken"}
  /\ MutexFree
  /\ clk' = "check"
  /\ UNCHANGED <<pc, consumed, total, count, loaded, freq, stopped, changeVars, spurious>>

(* Fault: the comparison is off by one. *)
MustWaitEarly == consumed + 1 < total \/ total = 0

MustWait == consumed < total \/ total = 0

ClockSleep ==
  /\ clk = "check"
  /\ MustWait
  /\ clk' = "attention"
  /\ UNCHANGED <<pc, consumed, total, count, loaded, freq, stopped, changeVars, spurious>>

(* Fault: pthread_cond_signal in place of pthread_cond_broadcast. *)
SignalOneTimer ==
  /\ clk = "check"
  /\ ~MustWait
  /\ \E t \in Timers : Goto(t, "cycle", "woken")
  /\ consumed' = 0
  /\ UNCHANGED <<clk, total, count, loaded, freq, stopped, changeVars, spurious>>

(* The clock keeps the mutex and goes back to its test. *)
ClockBroadcast ==
  /\ clk = "check"
  /\ ~MustWait
  /\ pc' = [t \in Timers |-> IF pc[t] = "cycle" THEN "woken" ELSE pc[t]]
  /\ consumed' = 0
  /\ UNCHANGED <<clk, total, count, loaded, freq, stopped, changeVars, spurious>>
-----------------------------------------------------------------------------
(* clk_timer_start: a timer thread. *)

TimerStart(t) ==
  /\ Goto(t, "start", "lock")
  /\ count' = [count EXCEPT ![t] = freq[t]]
  /\ UNCHANGED <<clk, consumed, total, loaded, freq, stopped, changeVars, spurious>>

(* Fault: the timer does not count itself in. *)
RegisterUncounted(t) ==
  /\ MutexFree
  /\ Goto(t, "lock", "loop")
  /\ UNCHANGED <<clk, consumed, total, count, loaded, freq, stopped, changeVars, spurious>>

TimerRegister(t) ==
  /\ MutexFree
  /\ Goto(t, "lock", "loop")
  /\ total' = total + 1
  /\ UNCHANGED <<clk, consumed, count, loaded, freq, stopped, changeVars, spurious>>

(* Fault: the timer returns without counting itself out. *)
ExitUncounted(t) ==
  /\ t \in stopped
  /\ Goto(t, "loop", "done")
  /\ UNCHANGED <<clk, consumed, total, count, loaded, freq, stopped, changeVars, spurious>>

(* The loop test fails: the thread takes itself off the clock and returns. *)
TimerExit(t) ==
  /\ t \in stopped
  /\ Goto(t, "loop", "done")
  /\ total' = total - 1
  /\ UNCHANGED <<clk, consumed, count, loaded, freq, stopped, changeVars, spurious>>

TimerLoad(t) ==
  /\ t \notin stopped
  /\ Goto(t, "loop", "tick")
  /\ loaded' = [loaded EXCEPT ![t] = count[t]]
  /\ UNCHANGED <<clk, consumed, total, count, freq, stopped, changeVars, spurious>>

(* Fault: the decrement is lost. *)
TickLost(t) ==
  /\ Goto(t, "tick", "test")
  /\ UNCHANGED <<clk, consumed, total, count, loaded, freq, stopped, changeVars, spurious>>

TimerTick(t) ==
  /\ Goto(t, "tick", "test")
  /\ count' = [count EXCEPT ![t] = loaded[t] - 1]
  /\ UNCHANGED <<clk, consumed, total, loaded, freq, stopped, changeVars, spurious>>

TimerTest(t) ==
  /\ Goto(t, "test", IF count[t] <= 0 THEN "fire" ELSE "attend")
  /\ UNCHANGED <<clk, consumed, total, count, loaded, freq, stopped, changeVars, spurious>>

(* Fault: the countdown is not restarted. *)
FireWithoutReload(t) ==
  /\ Goto(t, "fire", "attend")
  /\ UNCHANGED <<clk, consumed, total, count, loaded, freq, stopped, changeVars, spurious>>

(* TickAction runs inside the mutex; what it does is its component's. *)
TimerFire(t) ==
  /\ Goto(t, "fire", "attend")
  /\ count' = [count EXCEPT ![t] = freq[t]]
  /\ UNCHANGED <<clk, consumed, total, loaded, freq, stopped, changeVars, spurious>>

(* Fault: the clock is not signalled. *)
AttendSilently(t) ==
  /\ Goto(t, "attend", "cycle")
  /\ consumed' = consumed + 1
  /\ UNCHANGED <<clk, total, count, loaded, freq, stopped, changeVars, spurious>>

(* Count the tick, signal the clock, park and let the mutex go. *)
TimerAttend(t) ==
  /\ Goto(t, "attend", "cycle")
  /\ consumed' = consumed + 1
  /\ clk' = IF clk = "attention" THEN "woken" ELSE clk
  /\ UNCHANGED <<total, count, loaded, freq, stopped, changeVars, spurious>>

TimerResume(t) ==
  /\ MutexFree
  /\ Goto(t, "woken", "loop")
  /\ UNCHANGED <<clk, consumed, total, count, loaded, freq, stopped, changeVars, spurious>>
-----------------------------------------------------------------------------
(* What the threads above do not control. *)

(* pthread_cond_wait may return although nobody signalled. *)
SpuriousWakeup(p) ==
  /\ spurious[p] < MaxSpurious[p]
  /\ spurious' = [spurious EXCEPT ![p] = @ + 1]
  /\ \/ /\ p \in Timers
        /\ Goto(p, "cycle", "woken")
        /\ UNCHANGED clk
     \/ /\ p = ClockThread
        /\ clk = "attention"
        /\ clk' = "woken"
        /\ UNCHANGED pc
  /\ UNCHANGED <<consumed, total, count, loaded, freq, stopped, changeVars>>

(* clk_stop_timer, from any thread, without the mutex. *)
StopTimer(t) ==
  /\ t \in Stoppable \ stopped
  /\ stopped' = stopped \cup {t}
  /\ UNCHANGED <<barrierVars, count, loaded, freq, changeVars, spurious>>

(* clk_change_timer_tickFreq, from any thread, without the mutex: its      *)
(* accesses to tick_count and timer_tick_freq, one at a time.              *)
ChangeBegin(t, new, restart) ==
  /\ change = Idle
  /\ calls < MaxChanges
  /\ calls' = calls + 1
  /\ change' = [at |-> IF restart THEN "set" ELSE "adjust", timer |-> t,
                new |-> new, used |-> freq[t] - count[t]]
  /\ count' = [count EXCEPT ![t] = IF restart THEN freq[t] ELSE @]
  /\ UNCHANGED <<barrierVars, loaded, freq, stopped, spurious>>

ChangeAdjust ==
  /\ change.at = "adjust"
  /\ count' = [count EXCEPT ![change.timer] = change.new - change.used]
  /\ change' = [change EXCEPT !.at = "test"]
  /\ UNCHANGED <<barrierVars, loaded, freq, stopped, calls, spurious>>

(* Fault: a used-up count is left as it is. *)
ChangeUnclamped ==
  /\ change.at = "test"
  /\ change' = [change EXCEPT !.at = "set"]
  /\ UNCHANGED <<barrierVars, count, loaded, freq, stopped, calls, spurious>>

ChangeTest ==
  /\ change.at = "test"
  /\ change' = [change EXCEPT !.at = IF count[change.timer] <= 0 THEN "clamp" ELSE "set"]
  /\ UNCHANGED <<barrierVars, count, loaded, freq, stopped, calls, spurious>>

ChangeClamp ==
  /\ change.at = "clamp"
  /\ count' = [count EXCEPT ![change.timer] = 1]
  /\ change' = [change EXCEPT !.at = "set"]
  /\ UNCHANGED <<barrierVars, loaded, freq, stopped, calls, spurious>>

ChangeSet ==
  /\ change.at = "set"
  /\ freq' = [freq EXCEPT ![change.timer] = change.new]
  /\ change' = Idle
  /\ UNCHANGED <<barrierVars, count, loaded, stopped, calls, spurious>>
-----------------------------------------------------------------------------
ClockStep == ClockLock \/ ClockSleep \/ ClockBroadcast

TimerStep(t) ==
  \/ TimerStart(t) \/ TimerRegister(t) \/ TimerExit(t) \/ TimerLoad(t)
  \/ TimerTick(t) \/ TimerTest(t) \/ TimerFire(t) \/ TimerAttend(t)
  \/ TimerResume(t)

ChangeStep == ChangeAdjust \/ ChangeTest \/ ChangeClamp \/ ChangeSet

Next ==
  \/ ClockStep
  \/ \E t \in Timers : TimerStep(t)
  \/ \E p \in Timers \cup {ClockThread} : SpuriousWakeup(p)
  \/ \E t \in Timers : StopTimer(t)
  \/ \E t \in Timers, new \in NewFreqs, restart \in BOOLEAN : ChangeBegin(t, new, restart)
  \/ ChangeStep

Spec == Init /\ [][Next]_vars

(* A runnable thread runs: the threads are ordinary joinable pthreads.     *)
FairSpec ==
  /\ Spec
  /\ WF_vars(ClockStep)
  /\ \A t \in Timers : WF_vars(TimerStep(t))
-----------------------------------------------------------------------------
TypeOK ==
  /\ clk \in {"lock", "check", "attention", "woken"}
  /\ pc \in [Timers -> Critical \cup {"start", "lock", "cycle", "woken", "done"}]
  /\ consumed \in Nat
  /\ total \in Nat
  /\ count \in [Timers -> Int]
  /\ loaded \in [Timers -> Int]
  /\ freq \in [Timers -> Int]
  /\ stopped \subseteq Stoppable
  /\ change \in {Idle} \cup [at : {"adjust", "test", "clamp", "set"},
                             timer : Timers, new : NewFreqs, used : Int]
  /\ calls \in 0 .. MaxChanges
  /\ spurious \in [Timers \cup {ClockThread} -> Nat]
-----------------------------------------------------------------------------
(* The two counters the clock decides by say what the threads are doing:   *)
(* timer_total_cont counts the timers on the clock, and                    *)
(* timer_tick_consumed_cont the timers that are parked - at least, once a  *)
(* timer has woken spuriously and ticked again.                            *)
CountsAgree ==
  /\ total = Cardinality(Registered)
  /\ consumed >= Cardinality(Waiting)
  /\ (\A t \in Timers : spurious[t] = 0) => consumed = Cardinality(Waiting)

(* The clock is never parked while every tick it waits for was counted,    *)
(* unless a timer has left: TimerExit lowers timer_total_cont and does not *)
(* signal, so a stopped timer that leaves last freezes the clock.          *)
NoLostWakeup ==
  clk = "attention" /\ total > 0 /\ consumed >= total => \E t \in Timers : pc[t] = "done"

(* With positive frequencies, a timer that is between two ticks has a tick *)
(* to go before it fires, also when clk_change_timer_tickFreq raced with   *)
(* its last tick: what the call leaves is never a count that is used up.   *)
NeverOverdue ==
  \A t \in Timers :
    pc[t] \in {"attend", "cycle", "woken", "loop"} /\ change = Idle => count[t] >= 1

(* Without spurious wakeups of timers, the threads are a cyclic barrier.   *)
Barrier == INSTANCE TickBarrier WITH members <- Registered, ticked <- Waiting

ImplementsBarrier == Barrier!Spec

(* The scheduled threads also keep the barrier turning.                    *)
ImplementsFairBarrier == Barrier!FairSpec

(* Every timer that is on the clock fires again, or leaves the clock.      *)
TimersKeepFiring ==
  \A t \in Timers : t \in Registered ~> pc[t] \in {"fire", "done"}
=============================================================================
