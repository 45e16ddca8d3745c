SPECIFICATION FairSpec
CONSTANTS
  e1 = e1
  e2 = e2
  v1 = v1
  v2 = v2
  w1 = w1
  w2 = w2
  ev1 = ev1
  ev2 = ev2
  NoEvent = NoEvent
  NoState = NoState
  NoExecutor = NoExecutor
  Null = Null
  Past = Past
  Later = Later
  Never = Never
  UnknownTaskPolicy = "Defer"
  Executors = {e1, e2}
  Program <- TwoTimeoutsProgram
  Registrations = {"here"}
  MaxAttempts = 1
  MaxRuns = 1
  AckLoss = FALSE
  Values = {v1}
  Events = {ev1, ev2}
  WakeTimes = {}
PROPERTIES Settles
CHECK_DEADLOCK FALSE
