SPECIFICATION Spec
CONSTANTS
  InitialBackoff = 1
  MaxBackoff = 20
  MinHeartbeat = 10
  ClaimTimeouts <- MCClaimTimeouts
  LeaseAges <- MCLeaseAges
  Latency = 2
  NoTimeout = NoTimeout
  Timeouts <- MCTimeouts
  Ends <- MCEnds
  Horizon = 150
INVARIANTS LeaseKept TimeoutHonoured LateAnswerWins AnswerNoticed
CHECK_DEADLOCK FALSE
