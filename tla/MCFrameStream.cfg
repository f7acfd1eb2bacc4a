SPECIFICATION StreamFairSpec
CONSTANTS
  HeaderCells = 2
  MaxLen = 1
  Window = 3
  Length = {0, 1, 3}
  Origin = {"own", "other bound", "other header"}
  MaxFrames = 2
INVARIANTS FramesInStep OwnFramesAccepted RetryLoopInStep
PROPERTIES ImplementsStream SentIsReceived
CHECK_DEADLOCK FALSE
