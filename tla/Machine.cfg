SPECIFICATION Spec
CONSTANTS
  p = p
  q = q
  null_process = null_process
  Null = Null
  Processes = {null_process, p, q}
  ThreadTotal = 2
  MemWords = 12
  FrameWords = 2
  tlb_max_space = 2
  Width = 8
  Registers = 2
  AddressSize = 8
  Pages <- MCPages
  Table <- MCTable
  Frames <- MCFrames
  Images <- MCImages
  Codes <- MCCodes
INVARIANTS
  TypeOK
  TlbTruthful
PROPERTY ImplementsPagedMachine
CHECK_DEADLOCK FALSE
