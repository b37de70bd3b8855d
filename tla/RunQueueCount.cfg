SPECIFICATION Spec
CONSTANTS
  p1 = p1
  p2 = p2
  p3 = p3
  p4 = p4
  Pcbs = {p1, p2, p3, p4}
  Null = Null
  Unset = Unset
  MAX_PRIO = 3
  current_priority <- PrioritiesBeyond
  IntLimit = 2
INVARIANTS
  TotalListLength
