SPECIFICATION Spec
CONSTANTS
  MemStart = 16
  MemEnd = 47
  FRAME_SIZE = 8
  WordSize = 4
  Modulus = 128
  MaxEntries = 2
  MaxHeld = 3
INVARIANTS
  TypeOK
  Disjoint
  OneZone
  ExclusiveUntilStray
PROPERTIES
  AllocationEnds
\* The program may end by err().
CHECK_DEADLOCK FALSE
