SPECIFICATION ShmFairSpec
CONSTANTS
  Message <- FitsOrNot
  MaxPayload = 1
  BufferSize = 2
  MaxSends = 3
INVARIANTS InOrder OnlyOldestLost
PROPERTIES ImplementsLog NewestArrives
CHECK_DEADLOCK FALSE
