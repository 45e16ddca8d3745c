SPECIFICATION Spec
CONSTANTS
  Second = 3
  MaxSeconds = 2
  ClaimTimeouts <- MCClaimTimeouts
  Heartbeats <- MCHeartbeats
  MaxLate = 1
  Horizon = 18
INVARIANTS WatchdogPatient WatchdogVigilant ExitedClaimIsOver
CHECK_DEADLOCK FALSE
