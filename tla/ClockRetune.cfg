SPECIFICATION FairSpec
CONSTANTS
  sched = sched
  loader = loader
  executor = executor
  debug = debug
  ClockThread = clock
  Freq <- MainFreq
  Timers = {sched, executor}
  Stoppable = {}
  NewFreqs = {1, 3}
  MaxChanges = 2
  MaxSpurious <- ExecutorSpurious
INVARIANT NeverOverdue
PROPERTY TimersKeepFiring
