SPECIFICATION FairSpec
CONSTANTS
  Domain = {"prod-a", "prod-b", ""}
  EmptyDomain = ""
  AnyDomain = "any"
  Version = {1, 2}
  ClientConfig <- ClientConfigs
  ServerConfig <- ServerConfigs
  MaxAttempts = 3
INVARIANTS TypeOK MutualExpectations VerdictStable Agreement NoSessionReuse StaleAckMeansCancelled
PROPERTIES SessionLeavesCleanStream ImplementsAgreement ClientUnblocks
CHECK_DEADLOCK FALSE
