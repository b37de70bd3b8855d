SPECIFICATION FairSpec
CONSTANTS
  p1 = p1
  p2 = p2
  p3 = p3
  Pcbs = {p1, p2, p3}
  null_process = null_process
  Null = Null
  prio <- Priorities
  timer_tick_freq = 4
  BaseQuantum = 10
  Steps = 3
INVARIANTS
  TypeOK
  OnlyNullProcess
  NeverWrong
  RunsItself
PROPERTIES
  LoadedWaits
  ContextContinues
  QuantaHandedOut
