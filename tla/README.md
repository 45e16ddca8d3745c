# TLA+ models of the Absurd Rust SDK

This directory holds TLA+ specifications of `absurd-rust-sdk`, the TLC
configurations that check them on small instances, and theorems about them that
TLAPS proves for every instance. Paths below are relative to the repository.

The SDK runs *tasks*: handlers that are executed from the start every time they
are claimed, and that reach the place they had reached before because their
steps, sleeps and waits are checkpointed in Postgres. Everything the SDK
promises depends on what happens *between* two database calls of a handler: the
lease of the run may expire and another worker may run the same task, the task
may be cancelled, an event may be emitted, the process may die. The models keep
exactly that: one action per database call, anything else in between.

## 1. Inventory

| Component | Source | State it keeps | Operations | Model |
|---|---|---|---|---|
| Task context | `src/context.rs` | `checkpoint_cache`, `step_name_counter`, `reported_timeouts`, `task.wake_event` | `step`, `begin_step`/`complete_step`, `sleep_for`/`sleep_until`, `await_event`, `await_task_result`, `emit_event`, `heartbeat` | `Handler`, `TaskContext` |
| Task execution | `src/executor.rs` | the claimed task, the lease watchdog | `execute_claimed`, `execute_claimed_catching`, `complete_run`, `fail_run`, `defer_unknown_task`, watchdog | `TaskExecution`, `LeaseWatchdog` |
| Worker | `src/worker.rs` | the `JoinSet`, the shutdown channel | `start`, `close`, `Drop`, `worker_loop` and its waits | `WorkerLoop` |
| Task result waits | `src/task_result.rs`, `context.rs` | backoff, deadline, next heartbeat | `await_task_result_with_backoff` | `TaskResultWait` |
| Registration and spawning | `src/client.rs`, `src/task.rs`, `src/hooks.rs` | the registry (a `RwLock`ed map), client defaults | `register_with_options`, `spawn`, `spawn_named`, `before_spawn`, `resolve_spawn` | `TaskRegistry` |
| Client calls and pool | `src/client.rs` | the connection pool | `emit_event`, `cancel_task`, `retry_task`, `work_batch`, and all calls as users of the pool | `AbsurdStore`, `Fleet`, `ConnectionPool` |
| Errors | `src/error.rs` | none | SQL states to `Cancelled`, `AlreadyFailed` | in `TaskContext` (`Refused`) |
| Queue administration | `src/client.rs` | none (the queue is in the database) | `create_queue`, `create_queue_with_options`, `set_queue_policy`, `drop_queue`, `cleanup`, reads | `ConnectionPool` |
| Options and conversions | `src/types.rs` | none | durations, worker options, spawn options and cancellation policies, retry strategies | partly: `Durations`, `WorkerLoop`, `TaskRegistry` |
| Absurd SQL | not in the repository | tasks, runs, checkpoints, events | the stored procedures | `AbsurdStore`, external |
| Crate root | `src/lib.rs` | none | re-exports | not modelled |

How they interact. A worker claims a batch of tasks and spawns, for each, two
tokio tasks: an outer one in its `JoinSet` that catches panics, and an inner one
that looks the handler up in the registry and runs it with a `TaskContext`. The
handler calls the context, the context calls the stored procedures, and the
outcome is reported by `complete_run` or `fail_run`. A call that suspends the
task returns `Suspended`, with which the handler unwinds. Executions of one task
in different processes share nothing but the database.

What is hard:

- *Two executions of one task.* A lease can expire under a handler that goes on;
  the replacement starts from the same checkpoints. Look-up and write of a
  checkpoint are two calls, so both may find nothing.
- *Suspension.* A sleep is a checkpoint and a `schedule_run`; an event wait
  suspends inside `await_event`. The next execution replays everything before.
- *Timeouts.* An event timeout races the emission, and is reported to a handler
  without a checkpoint. A result timeout races the end of the task.
- *Partial failure.* Every call may fail, or take effect and lose its answer;
  every execution may die between two calls.
- *Shutdown.* `close` races claims, ends of executions and panics.
- *Time.* The watchdog's timers race renewals that may be late, lost or shorter
  than the lease before; the database counts in whole seconds.
- *Waiting for each other.* A task in `await_task_result` keeps its place in its
  worker; a batch of `work_batch` runs one after the other under claims that all
  started together.

The properties that make each component correct are listed with its runs in
section 4; `hazards` in `PROJECT.json` has the places where they bite.

## 2. Modules and how they correspond to the code

```
Handler --> AbsurdStore --> TaskContext --> TaskExecution --> MCTaskExecution
                                                 |  \--> TaskExecutionProofs --> TaskReplayProofs
                                            (implements)
                                                 v
                                            DurableTask
Durations --> LeaseWatchdog --> LeaseWatchdogProofs
    \-------> TaskRegistry ---> TaskRegistryProofs
Fleet --> FleetProofs                  TaskResultWait --> TaskResultWaitProofs
WorkerLoop --> WorkerLoopProofs        ConnectionPool --> ConnectionPoolProofs
```

`LeaseWatchdog`, `TaskRegistry`, `Fleet`, `TaskResultWait`, `WorkerLoop` and
`ConnectionPool` have an MC module each. `Fleet`
is the composition of the parts: it takes from `TaskResultWait` that a wait polls
until the other task is over or its timeout comes, from `WorkerLoop` that a worker
fills its free places, and from `TaskExecution` that the report and the checkpoint
of a lost run change nothing, and asks what many tasks on several servers do to
each other.

**Handler.** A handler is the constant sequence of context calls it makes. The
documentation asks handlers for deterministic names and control flow, so the
sequence is fixed; what steps compute, whether they fail, and where the handler
panics are not. `NextCheckpointName` is `next_checkpoint_name`: the counter per
requested name. A name is a sequence of words and the suffix `#n` is a last word
`n`, so that a handler can write a suffixed name itself, as it can in the code.
`begin` and `complete` are the two halves of a step, with any calls in between;
`of` names the handle that is completed. `HandlesApart` says that a handle is
completed once and that nobody else writes its checkpoint.

**AbsurdStore** (external). The tables as far as one task is concerned, and each
stored procedure as one atomic step. The SQL is not in the repository; the
procedures are modelled from the calls the SDK makes, the error codes in
`error.rs`, and what `tests/integration.rs` observes. Where the repository says
nothing, the model allows more: `fail_run` accepts a suspended run, or not.
`retry_task` gives a failed task one attempt more, or as many as its option says.
Time is the set `elapsed` of the wake times that are over. Delays relative to
the call (event timeouts, retry backoff, deferral) are `Later` until they end.

**TaskContext.** One action per database call of each context operation.
`phase[e]` is the call execution `e` is in and `pc[e]` the operation of the
handler. `LookupHit`/`Compute`/`Persist` are `step` and its helpers;
`BeginStep` and `CompleteStep` the same with a handle in between, which the
execution keeps in `handles[e]` and which goes by what it found when it was made;
`ReadClock`, `SleepUntil` and `ScheduleRun` are `sleep_until_at_current_time`;
`BeginAwait` with `AwaitPayload`, `AwaitTimedOut` and `AwaitSuspended` is
`await_event_with_options`; `BeginWait` and `ResultArrives` stand for
`await_task_result`, whose timing is in `TaskResultWait`. `Refused` is the
mapping of SQL errors: cancelled and failed runs end the handler silently, other
refusals are errors. `returned[i]` is a history variable: everything operation
`i` has returned to the handler, in any execution.

**TaskExecution.** The claim, `execute_claimed` with the registry of its process
(`Registrations`), the reports, and `Crash`, which stands for the death of the
process, the end that the watchdog puts to it, and a report that fails.

**LeaseWatchdog.** One execution with its watchdog, in time. The handler renews
its claim: first in the database (`ExtendClaim`), then, when the answer has come,
in the watch channel (`Notify`); the answer may be late or lost. The watchdog
reads the lease from the channel (`Arm`), sleeps for it, warns (`Warn`), sleeps
for it again and ends the process (`Exit`); a renewal it sees starts it anew
(`RenewalSeen`), and when both are ready either may win, as in `select!`. A
handler that ends aborts the watchdog; one that panics drops the channel
(`SenderGone`). Polls are up to `MaxLate` ticks late. `heartbeat_for` asks for any
duration, zero included. `silence`, `quiet` and `heard` are history variables.

**Durations.** `duration_seconds_ceil`: what the database is told of a duration.

**Fleet.** Servers, their places, and tasks of several queues that may wait for
one other task. A server is a worker or a program that calls `work_batch` again
and again (`Batches`). Claims expire under executions that are slow, that wait or,
in a batch, have not begun; processes die; a report that fails makes `work_batch`
leave the rest of its batch (`ReportFails`). `await_task_result` is refused for a
task of the same queue (`Refused`), and otherwise keeps the server's place. It
makes two calls: `Fetch` is the poll that finds the other task over and leaves the
snapshot in `fetched`, `Persist` writes it to the checkpoint (`known`); anything
may happen in between. The tasks of `Managed` may be cancelled (`CancelTask`) and,
when they have failed, put back to pending (`RetryTask`), by which a recorded
failure is overtaken. Whether a task that was retried has an attempt left depends
on the options of `retry_task`, so both are allowed.

**DurableTask.** What the SDK promises of a task, without runs, leases or
executions: results come in program order and once, the outcome is decided once
(a failed task may be reopened by `retry_task`: `Reopen`), a task completes only
with all its results. `TaskExecution` implements it for
handlers that do not catch timeouts; the refinement maps `results` to the
checkpoints and `outcome` to the state of the run (`Durable` in
`TaskExecution`).

**WorkerLoop.** The options as `normalized` leaves them, `worker_loop` with its two waits and the drain, and the outer and
inner tokio task of each execution, with the aborts that follow when the loop
ends by a `?` or a panic and drops the `JoinSet`.

**TaskResultWait.** The polling loop with time in ticks of 50 ms: the backoff,
the cut of the last delay, and the renewal of the claim by `before_sleep`.

**TaskRegistry.** Registrations racing spawns whose hook is slow; the order in
which the options of a spawn, the registration, the `Task` value and the client
are consulted; the queue names that are refused; and the limits of a cancellation
policy in the whole seconds of `to_sql_json`.

**ConnectionPool.** The callers of a client on its pool, which serves in order,
and the queue they create, configure, drop, clean and read. Each query may fail,
with effect or without. `create_queue_in_with_options` holds its connection while
`set_queue_policy_in` gets a second one.

The modules also hold a few definitions whose comment begins with *Slip*: a
definition of the code as it would read with a plausible mistake (a dropped
guard, a missing reset, the task named instead of the run). They take no part in
any specification. `mutants` in `PROJECT.json` says which property notices which
of them: each property of each passing run has one.

## 3. Fairness

`TaskExecution!FairSpec`: an execution that can go on does (tokio polls it, and
statements end); some worker polls for runs; delays end and the clock goes on;
and a run whose execution is gone is failed in the end, because every
`claim_task` sweeps the expired claims. The last one is stated only for
abandoned runs: nothing makes a lease expire while its execution goes on. No
fairness for emissions, cancellations, retries or failures.

`WorkerLoop!FairSpec`: the runtime polls the loop, the executions and the
closer; handlers end; and while there are tasks a claim, repeated for ever, gets
some in the end (strong fairness of `ClaimTasks`: the loop may poll in vain any
finite number of times). This last one is about the database and is needed for
`EveryTaskRuns` only.

`Fleet!FairSpec`: servers poll for tasks, executions go on and handlers end,
timeouts of waits come, and the claim of a run nobody works on expires. As above,
nothing makes a claim expire whose execution goes on, a waiting one least of all.

`ConnectionPool!Spec`: queries end, and deadpool hands a free connection to the
first in line. Safety is checked without fairness everywhere.

## 4. Runs

States are distinct states; each run takes about a minute and a half at most.

| Run | States | Question |
|---|---|---|
| `sleep` | 347,792 | two executions in any kind of process, three runs, a step kept open across a sleep and a second step of its name: who may write, what a replay sees, when sleeps end, who reports |
| `durable` | 36,891 | a result wait, a sleep, a timed event, an emission of that event and a heartbeat, each of which may take effect and return an error: the task implements `DurableTask` |
| `settles` | 71,649 | with fairness, a task with a sleep, an untimed wait and two timed ones that are caught ends, or waits for an event nobody emitted |
| `worker` | 15,312 | options, capacity, drain, shutdown and progress of a worker whose `on_error` may panic |
| `watchdog` | 616,050 | the watchdog against renewals, panics and late polls: when it ends the process, and that it does |
| `fleet` | 303,540 | a worker and a batch on two queues, with tasks that wait for each other, one of which is cancelled and retried: when everything is stuck, whether every task ends, whether what a waiting task was told stays true and is written once |
| `queue_admin` | 9,365 | two creators of a queue and a third caller: a created queue is configured, and no call waits for ever |
| `result_wait` | 143,206 | claims that are long and young enough are kept, timeouts are punctual, late answers win |
| `registry` | 230,995 | a spawn, its hook and the registration in every order |

The properties that matter most:

- `ReplayStable`: whatever a checkpointed operation has returned in any
  execution is what its checkpoint holds, so a replay sees it again.
- `CheckpointsWriteOnce`: an execution that lost its run never overwrites.
- `SleepNotEarly`: no sleep returns before the wake time in its checkpoint,
  although the clock is read first and the wake time may be another's.
- `ExclusiveRun`, `SuspendedIsLeft`, `OnlyClaimantReports`: a run has one
  execution, a run that can be claimed has none, and only the last claimant
  decides how a run ends.
- `ImplementsDurableTask`: results in order, once, and completion last.
- `EventsAgree`: the checkpoint of an event is the payload emitted first.
- `Settles`, `ShutdownEnds`, `EveryTaskRuns`, `EveryCallReturns`: progress.
- `StuckInACircle`, `EveryTaskEnds`: servers never wait for each other unless
  queues do, whatever expires, dies or is left behind.
- `SnapshotsAreTrue`, `SnapshotsWrittenOnce`: what a wait was told of another
  task stays true, but for a failure that `retry_task` has overtaken; and what one
  task has recorded of another is never overwritten, although two executions of
  it may have fetched different snapshots.
- `WatchdogPatient`, `WatchdogVigilant`, `ExitedClaimIsOver`: the watchdog ends
  the process when two leases have passed without a renewal, not before and not
  much later, and then the run is free for others.
- `CreatedIsConfigured`: who is told that a queue was created finds its policy.
- `LoopDrains`: a loop that was told to end has joined and reported everything.
- `LeaseKept`: a waiting task keeps its claim if that is long and young enough
  (`LeaseLongEnough`). `TimeoutHonoured`, `LateAnswerWins`, `AnswerNoticed`: the
  timing of waits.

Bounds. Two executions are the least that can fight over a task, and a third
one adds only another loser, since each is compared with the holder of the last
run. In `sleep` an execution may be in a process that knows the task, that knows
it for another queue, or that does not (`Registrations`), so a deferral also
meets an execution it has lost the run to. There `MaxAttempts = 1` and
`MaxRuns = 3` give the end of the attempts, and a `retry_task` with one attempt,
twice, or with two; the other runs have `MaxAttempts = 2`. Two values tell
"the same" from "another", and two wake times give an execution whose sleep was
computed later; `settles`, which is about progress and compares no results, has
one of each. Between them the
programs of `sleep`, `durable` and `settles` make every call, suspend in every
way, and repeat a name. Executions and values are symmetric; symmetry is not
used with liveness. A worker with three tasks, up to
three places, and batches that are unset, zero, smaller and larger meets the full
pool, the partial batch and the empty claim.

In `watchdog` a tick is a third of a second, and `MaxSeconds` is 2, so that
leases of less than a second, of no whole number of seconds and of more than the
largest number of seconds occur, and a zero from `heartbeat_for`. Polls are up to
a tick late. `Horizon` ends the count of silent ticks beyond all the bounds that
the properties state. In `fleet` both servers have two places, which is the least
that can leave a task behind in a batch, or let two executions of one task wait in
one worker. Of three tasks two share a queue. The three programs have two tasks of
one queue that wait for a third, a wait in one queue next to a wait for another,
and queues in a circle although no two tasks are. The managed task is awaited in
the last, so its failure can be fetched, persisted and overtaken, in any order, by
two executions of the task that waits. `MaxRuns = 2` allows one run after the
first, by an attempt of the task or by `retry_task`. A pool of three connections is the least in
which two creators cannot hold all of them. `registry` has an invalid queue
name, an invalid number of attempts in every place it can come from, and a
cancellation policy of half a second.

`result_wait` counts 50 ms as 1: the backoff 1..20 and the least heartbeat
interval 10 are the code's, and calls and wake-ups take up to 100 ms longer. The
claim timeout is one second or three, and the claim is 200 ms old when the wait
begins, or two seconds. This matters for `LeaseKept`: the interval before the first
renewal starts with the wait and not with the claim, and a renewal comes at the
first poll after the interval, so up to a second later. `LeaseLongEnough` is the
condition of the property; one of the four combinations meets it, and in the
others the claim of a waiting task may lapse. Nothing in the repository says that
it should not, and `Fleet` lets it. The other three properties do not depend on
the claim.

In `durable` (`AckLoss = TRUE`), `ExclusiveRun`, `SuspendedIsLeft` and
`OnlyClaimantReports` are not checked because they do not hold: a suspension
whose answer is lost leaves an execution in a run that can be claimed again.
What remains is `OneHandlerPerRun`: the execution whose answer was lost is no
longer in the handler, it only reports its error. That what is written, replayed
and slept stays right, and the refinement with it, is the content of the run.

`CHECK_DEADLOCK FALSE` is set where the system really ends: a task that is over,
a worker that is closed, a wait that has returned. The registry and the large
pool run with the deadlock check.

### Where the code does not do what its documents say

Three runs end in a violation, each of one property; `findings` in
`PROJECT.json` quotes the documents.

- `timeout_livelock`: two timed event waits in a row, both caught. When the
  second timeout wakes the task, the first wait is started again and suspends
  the task, for ever, although each timeout fires.
- `suffix_collision`: the second step `a` and a step named `a#2` share a
  checkpoint.
- `pool_small`: `create_queue_in_with_options` holds a connection while it waits
  for a second one; a pool of one connection blocks for ever.

Three limits of what the properties say are near these. A caught `EventTimeout`
leaves no checkpoint, so when the handler is executed again the same wait may
return the payload and the handler may take the other branch: `ReplayStable` is
for handlers that catch no timeout. `StepsReplayStable`, for the others, leaves
out the events; it is proved and not run, since a program that catches a timeout,
with two values and two wake times, is beyond the time of a run. A panic in `on_error` ends the worker's loop, and `close`
returns while handlers run: `LoopDrains` is about loops that were told to end. A
`StepHandle` can be cloned and completed twice, and then its checkpoint is
written twice: the programs of the runs complete each handle once.

## 5. Proofs

Proved with TLAPS for every handler, any set of executions, values, events,
callers, tasks and wake times, any number of runs, any pool and concurrency, and
every kind of process: all type invariants, safety invariants and action
properties that the passing runs check, and the refinement of `DurableTask`. The
assumptions are the named `ASSUME`s of the modules they are about, which TLC
evaluates in the runs; a theorem that needs more says so in its statement.

| Theorem | States | Needs |
|---|---|---|
| `TaskExecutionProofs!TypeCorrect` | `TypeOK` | |
| `RunsAreExclusive`, `SuspendedRunsAreLeft` | `ExclusiveRun`, `SuspendedIsLeft` | `~AckLoss` |
| `OnlyClaimantsReport` | `OnlyClaimantReports` | `~AckLoss` |
| `OnlyClaimantsComplete` | the same of completions and deferrals (`ClaimantCompletes`) | |
| `HandlersAreExclusive` | `OneHandlerPerRun` | |
| `CheckpointsAreWrittenOnce` | `CheckpointsWriteOnce` | `HandlesApart` |
| `SleepsAreNotCutShort` | `SleepNotEarly` | `HandlesApart` |
| `ReplaysAreStable` | `ReplayStable` | `NoCatch`, `HandlesApart` |
| `StepReplaysAreStable` | `StepsReplayStable` (which no run checks) | `EventsApart`, `HandlesApart` |
| `CheckpointsAreOwn` | `OwnCheckpoints` | `PlainNames`, `CompletedOnce` |
| `EventsAreAgreed` | `EventsAgree` | `SameEvent` |
| `CompletionsAreWhole` | `CompletedWithAllCheckpoints` | `NoCatch`, `HandlesApart` |
| `TasksAreDurable` | `ImplementsDurableTask` | `NoCatch`, `SlotsApart` |
| `FirmTasksAreDurable` | `FirmTask!Spec`: `DurableTask` for all operations but the events | `SlotsApart` |
| `TimeoutsAreHonoured`, `LateAnswersWin`, `AnswersAreNoticed` | `TimeoutHonoured`, `LateAnswerWins`, `AnswerNoticed` | |
| `LeasesAreKept` | `LeaseKept`, whose hypothesis is `LeaseLongEnough` | |
| `WatchdogTypeCorrect`, `WatchdogsArePatient`, `WatchdogsAreVigilant`, `ExitedClaimsAreOver` | `LeaseWatchdog!TypeOK`, `WatchdogPatient`, `WatchdogVigilant`, `ExitedClaimIsOver` | |
| `FleetTypeCorrect`, `StuckOnlyInCircles`, `SnapshotsStayTrue`, `SnapshotsAreWrittenOnce` | `Fleet!TypeOK`, `StuckInACircle`, `SnapshotsAreTrue`, `SnapshotsWrittenOnce` | |
| `WorkerLoopProofs!TypeCorrect`, `ConcurrencyIsLimited`, `LoopsDrain` | `WorkerLoop!TypeOK`, `ConcurrencyLimit`, `LoopDrains` | |
| `TaskRegistryProofs!TypeCorrect`, `TasksGoWhereRegistered`, `DefaultsAreTheRegistrations`, `TasksCanRun`, `LimitsLast` | `TaskRegistry!TypeOK`, `SpawnedWhereRegistered`, `RegistrationDefaultsApply`, `SpawnedToRun`, `LimitsAreAskedFor` | |
| `ConnectionPoolProofs!TypeCorrect`, `PoolAccounts`, `QueuesAreConfigured` | `ConnectionPool!TypeOK`, `PoolAccounting`, `CreatedIsConfigured` | |
| `LargePoolsAreNotBlocked` | `NeverBlocked` | more connections than `Creators` |

**What the conditions say.** They are conditions on the handler, which the code
cannot enforce, or on the faults; each run's program satisfies those of the
theorems about the properties it checks.

- `NoCatch`: no `EventTimeout` is caught. A caught one leaves no checkpoint, so
  the next execution may see the event instead and take the other branch.
- `CompletedOnce`: no `StepHandle` is cloned and completed twice.
  `HandlesApart`: nobody else writes the checkpoint of a handle that is
  completed. `PlainNames`: no requested name looks like a later use of another
  (`a#2` beside `a`), which `suffix_collision` shows to be needed. `PlainNames` and
  `CompletedOnce` imply `SlotsApart`, that each operation has a checkpoint of its
  own (`NamesKeepSlotsApart`), and that implies `HandlesApart`
  (`SlotsApartHandles`).
- `EventsApart` and `SameEvent` are what is left of `SlotsApart` when only events
  matter: no step or sleep uses the checkpoint of an event; and who shares one
  awaits the same event, as two waits with one `step_name` may.
- `~AckLoss`: a call that took effect has not lost its answer. Otherwise an
  execution that was suspended, and does not know, may still report its error.

**Executions.** The argument goes in layers, each an invariant that is proved
inductive with the help of those before it.

1. `TypeInv` adds `PhaseOK` to the types: the phase of an execution fits the
   operation it is at, and what it is about to write is of the right kind. Without
   it a call could write a wake time into a step.
2. `OwnInv`. `ExclusiveRun` is not inductive: it must be known that a run which
   can be claimed has been left. `Busy` executions are those that may still call
   the store and be accepted; two of them never hold the same run, and while the
   last run is open none of them holds it. Each step either goes on in its run
   without opening one, or leaves. An execution whose answer was lost is not busy,
   so the invariant survives lost answers; `RunsAreExclusive` and
   `SuspendedRunsAreLeft` exclude them because then every execution is busy.
3. `ClaimInv`: a busy execution whose run is the last and still running is the
   one that claimed it. A report that changes the run is accepted by the store, so
   it comes from a busy execution: `OnlyClaimantsReport`. Who completes or defers a
   run is busy even when answers get lost, which leaves only failures to those
   that were suspended and do not know: `OnlyClaimantsComplete`.
4. `WriteInv`: an execution about to write a checkpoint, whose write the store
   would accept, found the slot empty and it still is. It rests on `NoReturn`: a
   run that has been lost never becomes running again under the execution that
   lost it. A handle that is kept open is such a write that is still to come
   (`HandleInv`): as long as its execution may write, its slot is empty, and with
   `HandlesApart` nobody else fills it.
5. `SleepInv`: caches agree with checkpoints (`CacheInv`), and the clock an
   execution has read is not ahead of the database's (`ClockInv`). With
   write-once checkpoints, the wake time a sleep is compared with is the one in
   the checkpoint, whoever wrote it.
6. `StableInv`: an operation that returned something has that in its checkpoint.
   It speaks of the `Firm` slots: all of them with `NoCatch`, otherwise those no
   event uses, so that one invariant serves `ReplaysAreStable` and
   `StepReplaysAreStable`. `ReportInv` says that, with `NoCatch`, nothing is
   reported locally to a handler that goes on, so no cache gets the null of a
   timeout.
7. `ProgressInv` and `EndInv`: whatever operation an execution has passed has
   returned, so its checkpoint is there (`PassedIsThere`), and only an execution at
   the end of its handler completes. With 6 this is `CompletionsAreWhole`.

`EventsAreAgreed` needs none of 2 to 7: what an execution is about to write for
an event it has from the event (`CheckpointStep`), and an event is emitted once
(`EmittedStep`).

**The refinement.** It is proved for `FirmTask` first, the durable task whose
operations are all those of the handler or, if it catches timeouts, all but the
events; with `NoCatch` that is `Durable`. `FirmStep` takes the steps of
`TaskExecution` by what they do to the abstract state, not by action.
`OutcomeCases` says how a step may change the state of the run: by a report of an
execution that completes, by the last failure or a cancellation, by `retry_task`,
or not as far as `outcome` can tell. `WriteRecords` says what a checkpoint that
changes comes from: an execution at that operation, in a run that is running,
with the slot empty before (`WriteInv`) and all firm operations before it
recorded (`PassedIsThere`): `Record`, or the event of a handler that catches
timeouts, which may come late and out of order and does not count. `SlotsApart`
makes the map from positions to checkpoints one-to-one; without it one write
would be two results. No step does both, and every other one stutters. Lost
answers are included: the store is where the abstract state is, and it does not
lose them.

**Waits.** `DeadlineInv` and `AnswerInv` bound in each phase how far the clock is
past the timeout and past the end that was not seen. `LeaseInv` bounds it
against the instant at which the renewal is due. `LeaseLongEnough`, the
hypothesis of `LeaseKept`, is the condition on the claim timeout and the age of the
claim under which the renewal comes in time (`LeftOfLease`); the code does not
enforce it.

**The watchdog.** `WatchInv` says in which phase of the execution it lives
(`PhaseInv`); how much of `silence` and `quiet` its sleeps account for, in each of
its own phases (`ElapsedInv`, `SeenInv`, `PatienceInv`); and what is left of the
claim of which it has heard, rounding included (`ClaimInv`). Patience
and vigilance are the same sums read in two directions. All leases, heartbeats
and lateness are allowed.

**The fleet.** `FleetInv` has four parts: an execution in a wait is one that may
wait, not in its own queue, and while it holds the run nothing is persisted
(`WaitInv`); every execution is in a server of its queue (`PlaceInv`); a task
fails when its attempts are used up (`FailedInv`); and snapshots are true
(`TrueInv`). `NextTask` says all that a step can do to a task, so that what was
true of it stays true (`TruthStays`); a snapshot is fetched from a task as it is
(`NextFetched`). `SnapshotsAreWrittenOnce` needs `WaitInv`: who persists holds the
run (`NextKnown`), and then there is nothing to overwrite, since an execution that
has lost its run never gets it back. `StuckInACircle` follows from the invariant.
If all is stuck and the queues had ranks, take a task that is not
over whose queue has the least rank. A server of that queue has a waiting run
(`BusyServerWaits`), which waits for a task that is not over in a queue of lesser
rank: a contradiction. The least rank exists since ranks are natural numbers
(`LeastNatural`).

**The worker.** The limit is inductive once nothing is left to claim outside of
the claim (`ClaimInv`): capacity is computed before the claim, and until the
claim ends the `JoinSet` can only shrink (`JoinSetShrinks`). `DrainInv` relates
the two tokio tasks of an execution and the error of one to its place in the
`JoinSet`; only a loop that was aborted leaves tasks behind, so one that is done,
and has an empty `JoinSet`, has drained.

**The registry.** `SentInv` is what the four properties say, from the moment the
options are resolved: the registration may come between, and then only adds a
policy that somebody asked for. `CeilLasts` and `PolicyLasts` are the arithmetic:
whole seconds rounded up, cut at an `i32`, do not end before the duration.

**The pool.** `HeldInv` says how many connections a caller holds in each phase,
`LineInv` that exactly those who wait are in line and none is twice, so that
serving the head of the line leaves everybody else in it; the sum of the
connections in use then grows by one, and only when one is free. `LargePoolsAreNotBlocked` is the safety part of
`EveryCallReturns` for every size: while someone waits, a connection is free or a
query is under way, if the pool has one connection more than there are callers
who hold one while they wait for another. With as many as there are such callers
it fails, as `pool_small` shows.

**Not proved.** Liveness (`Settles`, `ShutdownEnds`, `EveryTaskRuns`,
`EveryTaskEnds`, `EveryCallReturns`) is out of TLAPS's reach and only
model-checked. `StepCount`, the counter of repeated names, is a cardinality, so
nothing needs induction over data, and no module about which something is proved
uses a recursive operator.

The inductive invariants were checked by TLC on the instances of the runs before
they were proved. Two definitions changed for the proofs: `ReportAndAbort` of
`WorkerLoop` had a `CASE` whose arms overlapped, for which TLA+ allows either (a
task that is joined was also one of the `JoinSet`); and that names are sequences
(`NameAssumption`) and that no options are the value `Absent`
(`OptionsAssumption`), which TLC takes for granted, is now assumed by name.

## 6. Not modelled

- A future of `work_batch` that is dropped: the execution under way goes on
  alone, as the one of an aborted outer task in `WorkerLoop` does.
- In `Fleet`, more than one wait of a handler, and the options of `retry_task`.
  Cancellation and `retry_task` happen to the tasks in `Managed`, which the theorems
  leave open and the run sets to one task.
- The contents of queue policies, partitions, and what `cleanup` deletes. After a
  `cleanup` whose second query failed the caller repeats it.
- Idempotency keys and `retry_task` with `spawn_new`: they make, or find, another
  task, in the database.
- Retry strategies: "some delay or none". They, the headers and the queue modes
  are converted to JSON and change nothing in the SDK.
- `wrap_task_execution` hooks: they surround the handler and can only fail it.
- Formatting of errors, connection set-up, TLS, and the crate root.

## 7. Plan

1. Done: the core (`TaskContext`, `TaskExecution`) with its store; the worker, the
   result wait, the registry, the pool; the watchdog in time, the fleet of
   servers, queue administration, step handles, options. Proofs of all safety
   properties the passing runs check, and of the refinement of `DurableTask`, also
   for handlers that catch timeouts.
2. Safety counterparts of the liveness properties, as `NeverBlocked` is one: that
   a task which is not over is claimable, held, or waiting for an event that was
   not emitted or a wake time that is not over.
3. What `DurableTask` itself promises, as theorems about it: results that are
   recorded stay, and a completed task has them all.

Runs are kept few, one for each question; a later module replaces or extends an
existing run where both ask the same.
