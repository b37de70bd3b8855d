SPECIFICATION LSpec
CONSTANTS
  Nodes = {n1, n2, n3, n4}
  Null = Null
  Mangled = Mangled
  f1 = f1
  f2 = f2
  f3 = f3
  f4 = f4
  Data = {f1, f2, f3, f4}
  Low = {}
  Key <- FileKey
  Patterns = {}
  MemWords = 12
  FrameWords = 3
  Grants <- MCGrants
  tlb_max_space = 2
  Registers = 16
  Contents <- MCContents
  Headers <- MCHeaders
  EXIT_CODE = 240
  Unset = Unset
INVARIANTS
  CompleteUntilStray
  LoadsBackThroughDirectory
  TableLost
  FlushedUnlessHalf
PROPERTIES
  SortSorts
  ProgramGoesThroughTable0
  LoadingEnds
CHECK_DEADLOCK FALSE
