---------------------------------- MODULE Fleet ----------------------------------
(***************************************************************************)
(* The processes that serve the queues of an application and the tasks     *)
(* that wait for each other.  A server is a Worker, whose executions run   *)
(* next to each other, or a program that calls Client::work_batch again    *)
(* and again, which executes what it has claimed one task after the other. *)
(* A handler that is in await_task_result keeps its place in its server    *)
(* and renews its claim until the other task is over.                      *)
(*                                                                         *)
(* What is inside an execution is in TaskExecution, the loop of a worker   *)
(* in WorkerLoop, the polls of a wait in TaskResultWait; here are many     *)
(* tasks, each with a handler that waits for one other task or for none,   *)
(* and that may be cancelled, or tried again when they have failed.        *)
(* A run is claimed once, so it names its execution.                       *)
(***************************************************************************)
EXTENDS Naturals, FiniteSets

CONSTANTS
  Tasks,
  NoTask,       \* awaited by a handler that does not wait
  Queues,
  QueueOf,      \* the queue of each task
  Servers,
  NoServer,
  ServerQueue,  \* the queue each server works on
  Places,       \* concurrency of a worker, batch_size of a batch
  Batches,      \* the servers that call work_batch
  Programs,     \* the ways in which the tasks may wait for each other
  Managed,      \* the tasks that are cancelled and retried by hand
  MaxAttempts,  \* max_attempts of each task when it is spawned
  MaxRuns       \* bound on the number of runs (on retry_task)

ASSUME FleetAssumption ==
  /\ IsFiniteSet(Tasks) /\ NoTask \notin Tasks
  /\ IsFiniteSet(Queues) /\ QueueOf \in [Tasks -> Queues]
  /\ NoServer \notin Servers /\ Batches \subseteq Servers
  /\ ServerQueue \in [Servers -> Queues]
  /\ Places \in [Servers -> Nat \ {0}]
  /\ \A q \in Queues : \E s \in Servers : ServerQueue[s] = q
  /\ Programs \subseteq [Tasks -> Tasks \cup {NoTask}]
  /\ Managed \subseteq Tasks
  /\ MaxRuns \in Nat /\ MaxAttempts \in [Tasks -> 1..MaxRuns]

VARIABLES
  awaits,   \* the task whose result the handler of a task waits for
  timed,    \* whether the waits have a timeout
  state,    \* of the task
  attempt,  \* the number of its last run
  fetched,  \* the snapshot a wait has ended with and not yet persisted
  known,    \* the snapshot in the checkpoint of the wait
  server,   \* the process that executes a run
  at        \* where its execution is

vars == <<awaits, timed, state, attempt, fetched, known, server, at>>

Runs == Tasks \X (1..MaxRuns)

Ends == {"completed", "failed", "cancelled"}

(* "claimed": in a batch, and not begun. *)
Stages == {"none", "claimed", "handler", "waiting", "persisting", "completing", "failing"}

TypeOK ==
  /\ awaits \in Programs
  /\ timed \in BOOLEAN
  /\ state \in [Tasks -> {"pending", "running"} \cup Ends]
  /\ attempt \in [Tasks -> 1..MaxRuns]
  /\ fetched \in [Runs -> Ends \cup {"none"}]
  /\ known \in [Tasks -> Ends \cup {"none"}]
  /\ server \in [Runs -> Servers \cup {NoServer}]
  /\ at \in [Runs -> Stages]
  /\ \A r \in Runs : at[r] # "none" <=> server[r] # NoServer
  /\ \A r \in Runs : at[r] = "persisting" => fetched[r] # "none"

Init ==
  /\ awaits \in Programs
  /\ timed \in BOOLEAN
  /\ state = [t \in Tasks |-> "pending"]
  /\ attempt = [t \in Tasks |-> 1]
  /\ fetched = [r \in Runs |-> "none"]
  /\ known = [t \in Tasks |-> "none"]
  /\ server = [r \in Runs |-> NoServer]
  /\ at = [r \in Runs |-> "none"]

IsOver(t) == state[t] \in Ends

Last(t) == <<t, attempt[t]>>

(* The run has not been taken from its execution. *)
Current(r) == state[r[1]] = "running" /\ r = Last(r[1])

Executing(s) == {r \in Runs : server[r] = s /\ at[r] # "claimed"}
Begins(s) == {r \in Runs : server[r] = s /\ at[r] = "claimed"}

NextRun(t) ==
  /\ attempt[t] < MaxRuns
  /\ attempt' = [attempt EXCEPT ![t] = @ + 1]
  /\ state' = [state EXCEPT ![t] = "pending"]

End(t, x) == state' = [state EXCEPT ![t] = x] /\ UNCHANGED attempt

(* The run fails: the next attempt, or the end of the task.  Whether a     *)
(* task that was tried again has an attempt left depends on the options    *)
(* that retry_task was given.                                              *)
FailOrRetry(t) ==
  \/ attempt[t] # MaxAttempts[t] /\ NextRun(t)
  \/ attempt[t] >= MaxAttempts[t] /\ End(t, "failed")

-----------------------------------------------------------------------------
(* Claims. *)

(* How much a server claims next: a worker fills its free places, and      *)
(* work_batch is called again when it has returned.                        *)
Free(s) == IF s \notin Batches THEN Places[s] - Cardinality(Executing(s))
           ELSE IF Executing(s) \cup Begins(s) = {} THEN Places[s]
           ELSE 0

Claimable(s) == {t \in Tasks : state[t] = "pending" /\ QueueOf[t] = ServerQueue[s]}

(* claim_tasks returns some of the pending tasks of the queue, as many as  *)
(* were asked for at most.  A worker spawns an execution for each.         *)
Claim(s) ==
  \E S \in SUBSET Claimable(s) :
    LET claimed == {Last(t) : t \in S}
    IN /\ S # {}
       /\ Cardinality(S) <= Free(s)
       /\ state' = [t \in Tasks |-> IF t \in S THEN "running" ELSE state[t]]
       /\ server' = [r \in Runs |-> IF r \in claimed THEN s ELSE server[r]]
       /\ at' = [r \in Runs |-> IF r \notin claimed THEN at[r]
                                ELSE IF s \in Batches THEN "claimed" ELSE "handler"]
       /\ UNCHANGED <<awaits, timed, attempt, fetched, known>>

(* A snapshot that has not been persisted is left behind. *)
Goto(r, x) ==
  /\ at' = [at EXCEPT ![r] = x]
  /\ fetched' = [fetched EXCEPT ![r] = "none"]
  /\ UNCHANGED <<awaits, timed, state, attempt, known, server>>

(* Slip: the next task of a batch waits until no claim of it has expired. *)
NextOfBatchIfCurrent(r) ==
  /\ at[r] = "claimed"
  /\ Executing(server[r]) = {}
  /\ \A q \in Begins(server[r]) : Current(q)
  /\ Goto(r, "handler")

(* The next task of a batch: nobody asks whether its claim has expired. *)
NextOfBatch(r) ==
  /\ at[r] = "claimed"
  /\ Executing(server[r]) = {}
  /\ Goto(r, "handler")

-----------------------------------------------------------------------------
(* Handlers. *)

Waits(t) == awaits[t] # NoTask /\ known[t] = "none"

(* Slip: a task may not wait for itself, and no more is asked. *)
RefusedForItself(t) == awaits[t] = t

(* await_task_result is refused for a task of the same queue. *)
Refused(t) == QueueOf[awaits[t]] = QueueOf[t]

(* The handler does what it does before it waits or without waiting, and   *)
(* ends, with a result or an error, or begins to wait.                     *)
HandlerStep(r) ==
  /\ at[r] = "handler"
  /\ \/ Goto(r, "failing")
     \/ (Waits(r[1]) => Refused(r[1])) /\ Goto(r, "completing")
     \/ Waits(r[1]) /\ ~Refused(r[1]) /\ Goto(r, "waiting")

(* A poll finds the other task over. *)
Fetch(r) ==
  /\ at[r] = "waiting" /\ IsOver(awaits[r[1]])
  /\ fetched' = [fetched EXCEPT ![r] = state[awaits[r[1]]]]
  /\ at' = [at EXCEPT ![r] = "persisting"]
  /\ UNCHANGED <<awaits, timed, state, attempt, known, server>>

(* How the handler goes on after a call: with its answer, or, if the call  *)
(* has returned an error, that it may catch, without one.                  *)
AnswerOrError == {"handler", "completing", "failing"}

(* Slip: the checkpoint is written for the task, whoever executes it. *)
PersistForTask(r) ==
  /\ at[r] = "persisting"
  /\ known' = [known EXCEPT ![r[1]] = fetched[r]]
  /\ fetched' = [fetched EXCEPT ![r] = "none"]
  /\ \E x \in AnswerOrError : at' = [at EXCEPT ![r] = x]
  /\ UNCHANGED <<awaits, timed, state, attempt, server>>

(* The snapshot is persisted, whatever has become of the other task since. *)
(* The answer of the call may be lost.                                     *)
Persist(r) ==
  /\ at[r] = "persisting" /\ Current(r)
  /\ known' = [known EXCEPT ![r[1]] = fetched[r]]
  /\ fetched' = [fetched EXCEPT ![r] = "none"]
  /\ \E x \in AnswerOrError : at' = [at EXCEPT ![r] = x]
  /\ UNCHANGED <<awaits, timed, state, attempt, server>>

(* A call of the wait fails. *)
WaitErrs(r) ==
  /\ at[r] \in {"waiting", "persisting"}
  /\ \E x \in AnswerOrError \ {"handler"} : Goto(r, x)

WaitTimesOut(r) == timed /\ at[r] = "waiting" /\ WaitErrs(r)

(* The server forgets these runs, whatever the database has of them. *)
Forget(R) ==
  /\ at' = [r \in Runs |-> IF r \in R THEN "none" ELSE at[r]]
  /\ server' = [r \in Runs |-> IF r \in R THEN NoServer ELSE server[r]]
  /\ fetched' = [r \in Runs |-> IF r \in R THEN "none" ELSE fetched[r]]

(* The renewal of the claim, or the checkpoint of the result, is refused,  *)
(* since the run has been lost or cancelled: the handler ends silently.    *)
WaitRefused(r) ==
  /\ at[r] \in {"waiting", "persisting"} /\ ~Current(r)
  /\ Forget({r})
  /\ UNCHANGED <<awaits, timed, state, attempt, known>>

(* Slip: the report names the task, and is taken whoever sends it. *)
ReportTask(r) ==
  /\ at[r] \in {"completing", "failing"}
  /\ IF at[r] = "completing"
     THEN End(r[1], "completed")
     ELSE IF IsOver(r[1]) THEN UNCHANGED <<state, attempt>> ELSE FailOrRetry(r[1])
  /\ Forget({r})
  /\ UNCHANGED <<awaits, timed, known>>

(* complete_run or fail_run; that the run was lost is not an error. *)
Report(r) ==
  /\ at[r] \in {"completing", "failing"}
  /\ IF ~Current(r) THEN UNCHANGED <<state, attempt>>
     ELSE IF at[r] = "failing" THEN FailOrRetry(r[1])
     ELSE End(r[1], "completed")
  /\ Forget({r})
  /\ UNCHANGED <<awaits, timed, known>>

(* The report fails.  A worker tells on_error; work_batch returns the      *)
(* error and leaves the rest of its batch.                                 *)
ReportFails(r) ==
  /\ at[r] \in {"completing", "failing"}
  /\ Forget({r} \cup Begins(server[r]))
  /\ UNCHANGED <<awaits, timed, state, attempt, known>>

-----------------------------------------------------------------------------
(* What happens from outside. *)

(* Nobody works on the run any more. *)
Abandoned(t) == state[t] = "running" /\ at[Last(t)] = "none"

(* A claim expires, also under an execution that is slow, that has not     *)
(* begun, or that waits and renews its claim too late (LeaseLongEnough in  *)
(* TaskResultWait).                                                        *)
Expire(t) ==
  /\ state[t] = "running"
  /\ FailOrRetry(t)
  /\ UNCHANGED <<awaits, timed, fetched, known, server, at>>

(* Client::cancel_task, or the cancellation policy of the task. *)
CancelTask(t) ==
  /\ ~IsOver(t)
  /\ End(t, "cancelled")
  /\ UNCHANGED <<awaits, timed, fetched, known, server, at>>

(* Client::retry_task: a failed task gets another run. *)
RetryTask(t) ==
  /\ state[t] = "failed"
  /\ NextRun(t)
  /\ UNCHANGED <<awaits, timed, fetched, known, server, at>>

(* The process dies, and is started again. *)
Crash(s) ==
  /\ Executing(s) \cup Begins(s) # {}
  /\ Forget(Executing(s) \cup Begins(s))
  /\ UNCHANGED <<awaits, timed, state, attempt, known>>

-----------------------------------------------------------------------------
ExecutionStep(r) ==
  \/ NextOfBatch(r) \/ HandlerStep(r)
  \/ Fetch(r) \/ Persist(r) \/ WaitTimesOut(r) \/ WaitRefused(r)
  \/ Report(r)

Next ==
  \/ \E s \in Servers : Claim(s) \/ Crash(s)
  \/ \E r \in Runs : ExecutionStep(r) \/ WaitErrs(r) \/ ReportFails(r)
  \/ \E t \in Tasks : Expire(t)
  \/ \E t \in Managed : CancelTask(t) \/ RetryTask(t)

Spec == Init /\ [][Next]_vars

(* Servers poll, handlers end, timeouts come, and the claims of runs that  *)
(* nobody works on expire.                                                 *)
Fairness ==
  /\ \A s \in Servers : WF_vars(Claim(s))
  /\ \A r \in Runs : WF_vars(ExecutionStep(r))
  /\ \A t \in Tasks : WF_vars(Abandoned(t) /\ Expire(t))

FairSpec == Spec /\ Fairness

-----------------------------------------------------------------------------
(* Properties. *)

(* A queue waits for another when one of its tasks does; waits in one      *)
(* queue do not count, since they are refused.                             *)
WaitsFor ==
  {<<QueueOf[t], QueueOf[awaits[t]]>> :
     t \in {u \in Tasks : awaits[u] # NoTask /\ QueueOf[u] # QueueOf[awaits[u]]}}

(* The queues can be ranked so that tasks wait only for queues below. *)
QueuesOrdered ==
  \E rank \in [Queues -> 1..Cardinality(Queues)] : \A e \in WaitsFor : rank[e[2]] < rank[e[1]]

(* Nothing can go on by itself although something is left to do. *)
Stuck ==
  /\ \E t \in Tasks : ~IsOver(t)
  /\ \A t \in Tasks : ~Abandoned(t)
  /\ \A r \in Runs : at[r] \in {"none", "claimed", "waiting"}
  /\ \A r \in Runs : at[r] = "waiting" => Current(r) /\ ~IsOver(awaits[r[1]]) /\ ~timed
  /\ \A s \in Servers :
       /\ Executing(s) = {} => Begins(s) = {}
       /\ Free(s) > 0 => Claimable(s) = {}

(* That waits in the same queue are refused is what keeps the servers from *)
(* waiting for each other ("because this can deadlock workers",            *)
(* context.rs): whatever their concurrency and batches, when all is stuck  *)
(* then queues wait for each other in a circle.                            *)
StuckInACircle == Stuck => ~QueuesOrdered

(* Without a circle, or with timeouts, every task ends, and again whenever *)
(* it is tried again: also those whose server died, whose claim expired in *)
(* a batch before they began, or that were left behind when work_batch     *)
(* gave up.                                                                *)
EveryTaskEnds == (QueuesOrdered \/ timed) => \A t \in Tasks : []<>IsOver(t)

(* What a wait was told of a task is true of it still, however long ago it *)
(* was: an end is final, unless it is a failure and somebody had the task  *)
(* tried again, which gives it more runs than it was spawned with.         *)
StillTrue(snapshot, t) ==
  \/ state[t] = snapshot
  \/ snapshot = "failed" /\ attempt[t] > MaxAttempts[t]

(* The snapshots in checkpoints, and those on the way there, are true:     *)
(* no execution that has lost its run, in a batch or under a slow handler, *)
(* changes the end of a task behind those who have seen it.                *)
SnapshotsAreTrue ==
  /\ \A t \in Tasks : known[t] # "none" => StillTrue(known[t], awaits[t])
  /\ \A r \in Runs : at[r] = "persisting" => StillTrue(fetched[r], awaits[r[1]])

(* A task is told one end of the task it waits for.  Two executions of it  *)
(* may have seen different ones, if the other task was tried again between *)
(* their polls; the one that lost the run does not overwrite what the      *)
(* handler has gone on with.                                               *)
SnapshotsWrittenOnce ==
  [][\A t \in Tasks : known[t] # "none" => known'[t] = known[t]]_vars
=============================================================================
