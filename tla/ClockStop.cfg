SPECIFICATION Spec
CONSTANTS
  sched = sched
  loader = loader
  executor = executor
  debug = debug
  ClockThread = clock
  Freq <- MainFreq
  Timers = {sched, loader, executor}
  Stoppable = {sched, loader, executor}
  NewFreqs = {}
  MaxChanges = 0
  MaxSpurious <- NoSpurious
INVARIANTS
  TypeOK
  CountsAgree
  NoLostWakeup
PROPERTY ImplementsBarrier
CHECK_DEADLOCK FALSE
