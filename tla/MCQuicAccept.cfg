SPECIFICATION AcceptFairSpec
CONSTANTS
  Client = {a, b, c}
  Talker = {a, b}
  None = none
INVARIANTS  OnePlace
  
CHECK_DEADLOCK FALSE
