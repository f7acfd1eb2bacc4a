SPECIFICATION GatewayFairSpec
CONSTANTS
  Message <- AllMessages
  MaxPayload = 1
  BufferSize = 2
  MaxSends = 3
  MaxRemote = 2
  MaxFailures = 2
INVARIANTS OrderAcross LossBounded
PROPERTIES RemoteIsHeard
CHECK_DEADLOCK FALSE
