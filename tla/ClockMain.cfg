SPECIFICATION HFairSpec
CONSTANTS
  sched = sched
  loader = loader
  executor = executor
  ClockThread = clock
  Timers = {sched, loader, executor}
  Freq <- MainFreq
  Stoppable = {}
  NewFreqs = {}
  MaxChanges = 0
  MaxSpurious <- ClockSpurious
  Period = 4
INVARIANT FiresOnSchedule
PROPERTY ImplementsFairBarrier
