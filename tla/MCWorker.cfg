SPECIFICATION FairSpec
CONSTANTS
  t1 = t1
  t2 = t2
  t3 = t3
  Tasks = {t1, t2, t3}
  NoBatchSize = NoBatchSize
  Options <- SomeOptions
  CallbackPanics = TRUE
INVARIANTS TypeOK ConcurrencyLimit LoopDrains
PROPERTIES ShutdownEnds EveryTaskRuns
CHECK_DEADLOCK FALSE
