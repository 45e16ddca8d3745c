SPECIFICATION Spec
CONSTANTS
  e1 = e1
  e2 = e2
  v1 = v1
  v2 = v2
  w1 = w1
  w2 = w2
  ev1 = ev1
  ev2 = ev2
  NoEvent = NoEvent
  NoState = NoState
  NoExecutor = NoExecutor
  Null = Null
  Past = Past
  Later = Later
  Never = Never
  UnknownTaskPolicy = "Defer"
  Executors = {e1, e2}
  Program <- DurableProgram
  Registrations = {"here"}
  MaxAttempts = 2
  MaxRuns = 2
  AckLoss = TRUE
  Values = {v1, v2}
  Events = {ev1}
  WakeTimes = {w1}
SYMMETRY Symmetric
INVARIANTS OneHandlerPerRun ReplayStable SleepNotEarly EventsAgree
PROPERTIES CheckpointsWriteOnce ImplementsDurableTask
CHECK_DEADLOCK FALSE
