SPECIFICATION AcceptFairSpec
CONSTANTS
  Client = {a, b}
  Talker = {a}
  None = none
PROPERTY OpenBiIsEnough
CHECK_DEADLOCK FALSE
