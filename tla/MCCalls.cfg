SPECIFICATION CallFairSpec
CONSTANTS
  Message <- AllMessages
  MaxPayload = 1
  BufferSize = 4
  MaxSends = 10
  InitialCredits = 2
  MaxCredit = 2
  MaxHeartbeats = 1
  MaxBonus = 1
  CallId <- TwoCalls
  MaxChunks = 2
INVARIANTS WindowRespected NothingReplaced AnswersMatch PendingAccounted StreamsWhole
PROPERTIES CreditsComeBack CallsAnswered
CHECK_DEADLOCK FALSE
