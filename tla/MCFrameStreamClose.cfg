SPECIFICATION StreamSpec
CONSTANTS
  HeaderCells = 2
  MaxLen = 2
  Window = 4
  Length = {0, 2}
  Origin = {"own"}
  MaxFrames = 2
INVARIANT FlushedOnClose
CHECK_DEADLOCK FALSE
