SPECIFICATION Spec
CONSTANTS
  e1 = e1
  e2 = e2
  v1 = v1
  v2 = v2
  w1 = w1
  w2 = w2
  ev1 = ev1
  ev2 = ev2
  NoEvent = NoEvent
  NoState = NoState
  NoExecutor = NoExecutor
  Null = Null
  Past = Past
  Later = Later
  Never = Never
  UnknownTaskPolicy = "Defer"
  Executors = {e1, e2}
  Program <- SleepProgram
  Registrations = {"here", "otherQueue", "none"}
  MaxAttempts = 1
  MaxRuns = 3
  AckLoss = FALSE
  Values = {v1, v2}
  Events = {}
  WakeTimes = {w1, w2}
SYMMETRY Symmetric
INVARIANTS TypeOK ExclusiveRun SuspendedIsLeft ReplayStable SleepNotEarly OwnCheckpoints CompletedWithAllCheckpoints
PROPERTIES CheckpointsWriteOnce OnlyClaimantReports
CHECK_DEADLOCK FALSE
