SPECIFICATION Spec
CONSTANTS
  MemStart = 16
  MemEnd = 47
  FRAME_SIZE = 8
  WordSize = 4
  Modulus = 128
  MaxEntries = 2
  MaxHeld = 3
INVARIANT ErrorMeansFailure
CHECK_DEADLOCK FALSE
