------------------------------ MODULE WorkerLoop ------------------------------
(***************************************************************************)
(* Worker (worker.rs): the loop that claims tasks, keeps their executions  *)
(* in a JoinSet and ends when it is told to, and the two tokio tasks of an *)
(* execution (execute_claimed_catching in executor.rs): the outer one is   *)
(* in the JoinSet, the inner one runs the handler and is on its own when   *)
(* the outer one is aborted.                                               *)
(***************************************************************************)
EXTENDS Naturals, FiniteSets

CONSTANTS
  Tasks,           \* the runs this worker can claim; each is claimed once
  Options,         \* the WorkerOptions the application may give
  NoBatchSize,     \* options.batch_size is None
  CallbackPanics   \* TRUE: the application's on_error may panic

ASSUME WorkerAssumption ==
  /\ IsFiniteSet(Tasks)
  /\ Options \subseteq [concurrency : Nat, batch_size : Nat \cup {NoBatchSize}]
  /\ CallbackPanics \in BOOLEAN

VARIABLES
  options,   \* NormalizedWorkerOptions
  loop,      \* where worker_loop is
  toClaim,   \* to_claim of the claim under way
  shutdown,  \* the value of the watch channel
  closer,    \* "none" | "waiting" | "returned": a caller of Worker::close
  outer,     \* per task: its place in the JoinSet
  inner,     \* per task: the handler
  unreported \* the tasks with an error that on_error has not been given

vars == <<options, loop, toClaim, shutdown, closer, outer, inner, unreported>>

LoopStates == {"top", "claiming", "capacity", "polling", "draining", "done", "aborted"}

(* "spawned": not polled yet; "running": it awaits the handler; "failing": *)
(* it records a panic of the handler; "ok", "err", "panicked": it has      *)
(* ended and has not been joined; "joined"; "aborted": the JoinSet is gone. *)
OuterStates == {"none", "spawned", "running", "failing", "ok", "err", "panicked",
                "joined", "aborted"}

(* "ended": the handler is over and its outcome was reported to Absurd, or *)
(* the report failed; "panicked": it is over without a report.             *)
InnerStates == {"none", "running", "ended", "panicked"}

TypeOK ==
  /\ options \in [concurrency : Nat \ {0}, batch_size : Nat \ {0}]
  /\ loop \in LoopStates
  /\ toClaim \in 0..options.concurrency
  /\ shutdown \in BOOLEAN
  /\ closer \in {"none", "waiting", "returned"}
  /\ outer \in [Tasks -> OuterStates]
  /\ inner \in [Tasks -> InnerStates]
  /\ unreported \in SUBSET Tasks

Larger(a, b) == IF a >= b THEN a ELSE b

(* Slip: the batch size that is not given is the concurrency as it was given. *)
NormalizedTooLate(o) ==
  [concurrency |-> Larger(o.concurrency, 1),
   batch_size  |-> IF o.batch_size = NoBatchSize THEN o.concurrency
                   ELSE Larger(o.batch_size, 1)]

(* WorkerOptions::normalized; a zero claim_timeout or poll_interval is     *)
(* refused, and no worker starts.                                          *)
Normalized(o) ==
  LET concurrency == Larger(o.concurrency, 1)
  IN [concurrency |-> concurrency,
      batch_size  |-> Larger(IF o.batch_size = NoBatchSize THEN concurrency
                             ELSE o.batch_size, 1)]

(* Worker::start *)
Init ==
  /\ \E o \in Options : options = Normalized(o)
  /\ loop = "top"
  /\ toClaim = 0
  /\ shutdown = FALSE
  /\ closer = "none"
  /\ outer = [t \in Tasks |-> "none"]
  /\ inner = [t \in Tasks |-> "none"]
  /\ unreported = {}

Finished == {t \in Tasks : outer[t] \in {"ok", "err", "panicked"}}

(* running: what the JoinSet holds, joined tasks excepted. *)
JoinSet == {t \in Tasks : outer[t] \in {"spawned", "running", "failing"}} \cup Finished

LoopEnded == loop \in {"done", "aborted"}

Smaller(a, b) == IF a <= b THEN a ELSE b

-----------------------------------------------------------------------------
(* The loop.                                                               *)

(* report_task_result of a task that ended without panicking, for which    *)
(* the loop goes on at next: an error goes to on_error.                    *)
ReportAndGo(t, next) ==
  /\ outer[t] \in {"ok", "err"}
  /\ outer' = [outer EXCEPT ![t] = "joined"]
  /\ unreported' = unreported \ {t}
  /\ loop' = next
  /\ UNCHANGED inner

(* A JoinError is reported and ends the loop, as does an on_error that     *)
(* panics; the JoinSet is dropped, which aborts the outer tasks in it.     *)
ReportAndAbort(t) ==
  /\ \/ outer[t] = "panicked"
     \/ CallbackPanics /\ outer[t] = "err"
  /\ outer' = [u \in Tasks |-> IF u = t THEN "joined"
                               ELSE IF u \in JoinSet THEN "aborted" ELSE outer[u]]
  /\ unreported' = unreported \ {t}
  /\ loop' = "aborted"
  /\ UNCHANGED inner

Join(t, next) == ReportAndGo(t, next) \/ ReportAndAbort(t)

(* drain_finished: try_join_next until nothing has finished. *)
DrainFinished(t) ==
  /\ loop = "top"
  /\ Join(t, "top")
  /\ UNCHANGED <<options, toClaim, shutdown, closer>>

(* Slip: a full batch is claimed whatever is available. *)
DecideOnBatch ==
  /\ loop = "top"
  /\ Finished = {}
  /\ LET available == options.concurrency - Cardinality(JoinSet)
     IN IF shutdown THEN loop' = "draining" /\ UNCHANGED toClaim
        ELSE IF available <= 0 THEN loop' = "capacity" /\ UNCHANGED toClaim
        ELSE loop' = "claiming" /\ toClaim' = options.batch_size
  /\ UNCHANGED <<options, shutdown, closer, outer, inner, unreported>>

(* Slip: the loop looks at the shutdown signal only while it waits. *)
DecideToGoOn ==
  /\ loop = "top"
  /\ Finished = {}
  /\ LET available == options.concurrency - Cardinality(JoinSet)
     IN IF available <= 0 THEN loop' = "capacity" /\ UNCHANGED toClaim
        ELSE loop' = "claiming" /\ toClaim' = Smaller(available, options.batch_size)
  /\ UNCHANGED <<options, shutdown, closer, outer, inner, unreported>>

(* With nothing left to join the loop looks at the shutdown signal, then   *)
(* at its capacity.                                                        *)
Decide ==
  /\ loop = "top"
  /\ Finished = {}
  /\ LET available == options.concurrency - Cardinality(JoinSet)
     IN IF shutdown THEN loop' = "draining" /\ UNCHANGED toClaim
        ELSE IF available <= 0 THEN loop' = "capacity" /\ UNCHANGED toClaim
        ELSE loop' = "claiming" /\ toClaim' = Smaller(available, options.batch_size)
  /\ UNCHANGED <<options, shutdown, closer, outer, inner, unreported>>

(* claim_tasks returns, and each task is spawned. *)
ClaimTasks ==
  /\ loop = "claiming"
  /\ \E S \in SUBSET {t \in Tasks : outer[t] = "none"} :
       /\ S # {}
       /\ Cardinality(S) <= toClaim
       /\ outer' = [t \in Tasks |-> IF t \in S THEN "spawned" ELSE outer[t]]
  /\ loop' = "top"
  /\ toClaim' = 0
  /\ UNCHANGED <<options, shutdown, closer, inner, unreported>>

(* It returns nothing, or an error, which is reported: try again later. *)
ClaimNothing ==
  /\ loop = "claiming"
  /\ loop' = "polling"
  /\ toClaim' = 0
  /\ UNCHANGED <<options, shutdown, closer, outer, inner, unreported>>

(* on_error panics on the error of a claim. *)
ClaimAborts ==
  /\ CallbackPanics
  /\ loop = "claiming"
  /\ loop' = "aborted"
  /\ toClaim' = 0
  /\ outer' = [t \in Tasks |-> IF t \in JoinSet THEN "aborted" ELSE outer[t]]
  /\ UNCHANGED <<options, shutdown, closer, inner, unreported>>

(* Slip: a shutdown during a wait ends the loop without the drain. *)
ShutdownWithoutDrain ==
  /\ loop \in {"capacity", "polling"}
  /\ shutdown
  /\ loop' = "done"
  /\ UNCHANGED <<options, toClaim, shutdown, closer, outer, inner, unreported>>

(* wait_for_capacity_or_shutdown and wait_poll_interval_or_shutdown: what  *)
(* is ready first, in any order.                                           *)
WaitShutdown ==
  /\ loop \in {"capacity", "polling"}
  /\ shutdown
  /\ loop' = "draining"
  /\ UNCHANGED <<options, toClaim, shutdown, closer, outer, inner, unreported>>

(* Slip: the wait for capacity does not notice that an execution ends. *)
WaitJoinPolling(t) ==
  /\ loop = "polling"
  /\ Join(t, "top")
  /\ UNCHANGED <<options, toClaim, shutdown, closer>>

WaitJoin(t) ==
  /\ loop \in {"capacity", "polling"}
  /\ Join(t, "top")
  /\ UNCHANGED <<options, toClaim, shutdown, closer>>

PollInterval ==
  /\ loop = "polling"
  /\ loop' = "top"
  /\ UNCHANGED <<options, toClaim, shutdown, closer, outer, inner, unreported>>

(* After the loop every execution is joined. *)
DrainJoin(t) ==
  /\ loop = "draining"
  /\ Join(t, "draining")
  /\ UNCHANGED <<options, toClaim, shutdown, closer>>

DrainEnds ==
  /\ loop = "draining"
  /\ JoinSet = {}
  /\ loop' = "done"
  /\ UNCHANGED <<options, toClaim, shutdown, closer, outer, inner, unreported>>

-----------------------------------------------------------------------------
(* The executions.                                                         *)

(* execute_claimed_catching spawns the handler and waits for it. *)
StartHandler(t) ==
  /\ outer[t] = "spawned"
  /\ outer' = [outer EXCEPT ![t] = "running"]
  /\ inner' = [inner EXCEPT ![t] = "running"]
  /\ UNCHANGED <<options, loop, toClaim, shutdown, closer, unreported>>

OuterEnds(t, x) ==
  /\ outer' = [outer EXCEPT ![t] = x]
  /\ unreported' = IF x = "ok" THEN unreported ELSE unreported \cup {t}

(* execute_claimed ends, with its outer task or without; a handler may     *)
(* take as long as it likes.                                               *)
HandlerEnds(t) ==
  /\ inner[t] = "running"
  /\ \/ /\ inner' = [inner EXCEPT ![t] = "ended"]
        /\ IF outer[t] = "running"
           THEN \E x \in {"ok", "err"} : OuterEnds(t, x)
           ELSE UNCHANGED <<outer, unreported>>
     \/ /\ inner' = [inner EXCEPT ![t] = "panicked"]
        /\ outer' = [outer EXCEPT ![t] = IF @ = "running" THEN "failing" ELSE @]
        /\ UNCHANGED unreported
  /\ UNCHANGED <<options, loop, toClaim, shutdown, closer>>

(* fail_run for a panic, then on_error. *)
PanicRecorded(t) ==
  /\ outer[t] = "failing"
  /\ \E x \in {"ok", "err"} \cup (IF CallbackPanics THEN {"panicked"} ELSE {}) :
       OuterEnds(t, x)
  /\ inner' = [inner EXCEPT ![t] = "ended"]
  /\ UNCHANGED <<options, loop, toClaim, shutdown, closer>>

-----------------------------------------------------------------------------
(* The owner of the Worker: close, which waits for the loop, or drop.      *)
Close ==
  /\ closer = "none" /\ ~shutdown
  /\ closer' = "waiting"
  /\ shutdown' = TRUE
  /\ UNCHANGED <<options, loop, toClaim, outer, inner, unreported>>

CloseReturns ==
  /\ closer = "waiting"
  /\ LoopEnded
  /\ closer' = "returned"
  /\ UNCHANGED <<options, loop, toClaim, shutdown, outer, inner, unreported>>

Drop ==
  /\ closer = "none" /\ ~shutdown
  /\ shutdown' = TRUE
  /\ UNCHANGED <<options, loop, toClaim, closer, outer, inner, unreported>>

-----------------------------------------------------------------------------
LoopStep ==
  \/ \E t \in Tasks : DrainFinished(t) \/ WaitJoin(t) \/ DrainJoin(t)
  \/ Decide \/ ClaimTasks \/ ClaimNothing \/ ClaimAborts
  \/ WaitShutdown \/ PollInterval \/ DrainEnds

ExecutionStep(t) == StartHandler(t) \/ HandlerEnds(t) \/ PanicRecorded(t)

Next ==
  \/ LoopStep
  \/ \E t \in Tasks : ExecutionStep(t)
  \/ Close \/ CloseReturns \/ Drop

Spec == Init /\ [][Next]_vars

(* The runtime polls the loop, the executions and the closer; handlers     *)
(* end; and while there are tasks to claim a claim gets some in the end.   *)
Fairness ==
  /\ WF_vars(LoopStep)
  /\ SF_vars(ClaimTasks)
  /\ \A t \in Tasks : WF_vars(ExecutionStep(t))
  /\ WF_vars(CloseReturns)

FairSpec == Spec /\ Fairness

-----------------------------------------------------------------------------
(* Properties. *)

(* A worker never has more executions than its concurrency, and never asks *)
(* for more than it could run: batches are claimed while others finish.    *)
ConcurrencyLimit ==
  /\ Cardinality(JoinSet) <= options.concurrency
  /\ loop = "claiming" => Cardinality(JoinSet) + toClaim <= options.concurrency

(* What the end of the loop promises: every task the worker has claimed is *)
(* joined and no handler runs; a panic has been recorded in Absurd or, as  *)
(* any other error, given to on_error.                                     *)
Drained ==
  /\ \A t \in Tasks : outer[t] # "none" => outer[t] = "joined" /\ inner[t] = "ended"
  /\ unreported = {}

(* A loop that ends because it was told to has drained, whichever of its   *)
(* waits the shutdown has cut short.                                       *)
LoopDrains == loop = "done" => Drained

(* A worker told to end ends, and then a call of close returns. *)
ShutdownEnds == shutdown ~> (LoopEnded /\ closer # "waiting")

(* Until it is told to end, or a panic ends it, a worker gets to every     *)
(* task, however the claims and polls fall, and joins it.                  *)
EveryTaskRuns == \A t \in Tasks : <>(outer[t] = "joined" \/ shutdown \/ loop = "aborted")
=============================================================================
