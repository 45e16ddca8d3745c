SPECIFICATION FairSpec
CONSTANTS
  t1 = t1
  t2 = t2
  t3 = t3
  qA = qA
  qB = qB
  worker = worker
  batch = batch
  NoTask = NoTask
  NoServer = NoServer
  Tasks = {t1, t2, t3}
  Queues = {qA, qB}
  Servers = {worker, batch}
  Batches = {batch}
  QueueOf <- MCQueueOf
  ServerQueue <- MCServerQueue
  Places <- MCPlaces
  Programs <- MCPrograms
  Managed = {t2}
  MaxAttempts <- MCMaxAttempts
  MaxRuns = 2
INVARIANTS StuckInACircle SnapshotsAreTrue
PROPERTIES EveryTaskEnds SnapshotsWrittenOnce
CHECK_DEADLOCK FALSE
