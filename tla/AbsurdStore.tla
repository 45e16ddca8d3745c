----------------------------- MODULE AbsurdStore -----------------------------
(***************************************************************************)
(* The tables of the Absurd schema as far as one task is concerned, and    *)
(* the stored procedures the SDK calls on them, each an atomic             *)
(* transaction.  The SQL is not part of the repository: it is modelled     *)
(* from the calls in client.rs, context.rs and executor.rs, from the error *)
(* codes of error.rs and from what tests/integration.rs observes.          *)
(*                                                                         *)
(* A task has a sequence of runs, one per attempt.  Only the last can be   *)
(* anything but failed, so the store keeps the number of runs and the last *)
(* one; the run number is its run_id.                                      *)
(*                                                                         *)
(* Time is what has passed.  A wake time of a sleep is absolute: elapsed   *)
(* is the set of wake times behind the database's clock.  The timeout of   *)
(* an event wait, a retry backoff and the deferral of an unknown task are  *)
(* relative to the call, hence in the future when they are set: Later.     *)
(***************************************************************************)
EXTENDS Handler

CONSTANTS
  Executors,    \* the claimed tasks that can be in execution at a time
  Values,       \* what a step can compute, the payloads of events
  WakeTimes,    \* the instants a sleep can end at
  NoState,      \* no checkpoint; no payload
  Null,         \* the JSON value null
  NoExecutor,   \* the run has not been claimed
  Past,         \* availableAt: at once
  Later,        \* availableAt: a relative delay that is not over
  Never,        \* availableAt: infinity, an event wait without timeout
  MaxAttempts,  \* max_attempts of the task when it is spawned
  MaxRuns       \* bound on the number of runs (on retry_task)

ASSUME StoreAssumption ==
  /\ MaxAttempts \in Nat \ {0}
  /\ MaxRuns \in Nat
  /\ MaxAttempts <= MaxRuns
  /\ NoExecutor \notin Executors
  /\ NoState \notin Values \cup WakeTimes \cup {Null}
  /\ WakeTimes \cap {Null, Past, Later, Never} = {}
  /\ Past # Later /\ Past # Never /\ Later # Never

VARIABLES
  attempts,     \* the number of runs of the task
  maxAttempts,  \* the number of runs allowed
  run,          \* the last run
  checkpoint,   \* the checkpoint table
  emitted,      \* the event table
  elapsed       \* the wake times that are over

storeVars == <<attempts, maxAttempts, run, checkpoint, emitted, elapsed>>

RunStates == {"pending", "running", "sleeping", "completed", "failed", "cancelled"}
Terminal == {"completed", "failed", "cancelled"}

(* Everything a checkpoint can hold. *)
States == Values \cup WakeTimes

StoreTypeOK ==
  /\ attempts \in 1..MaxRuns
  /\ maxAttempts \in 1..MaxRuns
  /\ attempts <= maxAttempts
  /\ run \in [state       : RunStates,
              availableAt : WakeTimes \cup {Past, Later, Never},
              wakeEvent   : Events \cup {NoEvent},
              claimedBy   : Executors \cup {NoExecutor}]
  /\ checkpoint \in [Slots -> States \cup {NoState}]
  /\ emitted \in [Events -> Values \cup {NoState}]
  /\ elapsed \in SUBSET WakeTimes

Run(state, at, event, executor) ==
  [state |-> state, availableAt |-> at, wakeEvent |-> event, claimedBy |-> executor]

(* A run nobody holds and no event can wake. *)
NewRun(state, at) == Run(state, at, NoEvent, NoExecutor)

(* The run as it is but for its state. *)
Ended(state) == Run(state, run.availableAt, run.wakeEvent, run.claimedBy)

(* Its event wait is over. *)
Unwaited == Run(run.state, run.availableAt, NoEvent, run.claimedBy)

(* spawn_task *)
StoreInit ==
  /\ attempts = 1
  /\ maxAttempts = MaxAttempts
  /\ run = NewRun("pending", Past)
  /\ checkpoint = [s \in Slots |-> NoState]
  /\ emitted = [v \in Events |-> NoState]
  /\ elapsed = {}

-----------------------------------------------------------------------------
(* What the procedures check. *)

RunState(r) == IF r = attempts THEN run.state ELSE "failed"

Running(r) == RunState(r) = "running"

(* The call raises AB001 (cancelled) or AB002 (the run already failed). *)
TerminalRace(r) == RunState(r) \in {"cancelled", "failed"}

Available == run.availableAt \in elapsed \cup {Past}

-----------------------------------------------------------------------------
(* The procedures an execution calls.                                      *)

(* claim_task: a pending run, or a sleeping one whose time has come.  The  *)
(* claim returns the event a timed wait was for when its timeout woke it.  *)
claim_task(e) ==
  /\ run.state \in {"pending", "sleeping"}
  /\ Available
  /\ run' = Run("running", run.availableAt, run.wakeEvent, e)
  /\ UNCHANGED <<attempts, maxAttempts, checkpoint, emitted, elapsed>>

set_task_checkpoint_state(r, s, v) ==
  /\ Running(r)
  /\ checkpoint' = [checkpoint EXCEPT ![s] = v]
  /\ UNCHANGED <<attempts, maxAttempts, run, emitted, elapsed>>

schedule_run(r, at) ==
  /\ Running(r)
  /\ run' = NewRun("sleeping", at)
  /\ UNCHANGED <<attempts, maxAttempts, checkpoint, emitted, elapsed>>

complete_run(r) ==
  /\ Running(r)
  /\ run' = Ended("completed")
  /\ UNCHANGED <<attempts, maxAttempts, checkpoint, emitted, elapsed>>

(* The run fails; the task is tried again while attempts are left.         *)
FailOrRetry ==
  /\ IF attempts < maxAttempts
     THEN /\ attempts' = attempts + 1
          /\ run' \in {NewRun("pending", Past), NewRun("sleeping", Later)}
     ELSE /\ run' = Ended("failed")
          /\ UNCHANGED attempts
  /\ UNCHANGED <<maxAttempts, checkpoint, emitted, elapsed>>

(* fail_run: nothing in the SDK says that it refuses a suspended run.      *)
fail_run(r) == RunState(r) \in {"running", "sleeping"} /\ FailOrRetry

(* await_event has three answers: the payload, which it checkpoints; "the  *)
(* timeout of this wait has woken the run"; or the run is suspended.       *)
EventPayload(r, s, ev) ==
  /\ Running(r)
  /\ emitted[ev] # NoState
  /\ checkpoint' = [checkpoint EXCEPT ![s] = emitted[ev]]
  /\ run' = Unwaited
  /\ UNCHANGED <<attempts, maxAttempts, emitted, elapsed>>

EventTimedOut(r, ev) ==
  /\ Running(r)
  /\ emitted[ev] = NoState
  /\ run.wakeEvent = ev
  /\ run' = Unwaited
  /\ UNCHANGED <<attempts, maxAttempts, checkpoint, emitted, elapsed>>

EventSuspend(r, ev, timed) ==
  /\ Running(r)
  /\ emitted[ev] = NoState
  /\ run.wakeEvent # ev
  /\ run' = Run("sleeping", IF timed THEN Later ELSE Never, ev, run.claimedBy)
  /\ UNCHANGED <<attempts, maxAttempts, checkpoint, emitted, elapsed>>

(* emit_event: the first payload stays, and wakes the run that waits.      *)
emit_event(ev, v) ==
  /\ emitted' = [emitted EXCEPT ![ev] = IF @ = NoState THEN v ELSE @]
  /\ run' = IF run.state = "sleeping" /\ run.wakeEvent = ev
            THEN Run("pending", Past, NoEvent, run.claimedBy)
            ELSE run
  /\ UNCHANGED <<attempts, maxAttempts, checkpoint, elapsed>>

-----------------------------------------------------------------------------
(* What happens to the task from outside.                                  *)

(* Client::emit_event, from any process. *)
EmitEvent == \E ev \in Events, v \in Values : emit_event(ev, v)

(* Client::cancel_task, or the cancellation policy of the task. *)
CancelTask ==
  /\ run.state \notin Terminal
  /\ run' = Ended("cancelled")
  /\ UNCHANGED <<attempts, maxAttempts, checkpoint, emitted, elapsed>>

(* Client::retry_task: a failed task gets another run, and one attempt more *)
(* or as many as options.max_attempts allows.                               *)
RetryTask ==
  /\ run.state = "failed"
  /\ attempts < MaxRuns
  /\ attempts' = attempts + 1
  /\ maxAttempts' \in (attempts + 1)..MaxRuns
  /\ run' = NewRun("pending", Past)
  /\ UNCHANGED <<checkpoint, emitted, elapsed>>

(* claim_task first fails the runs whose claim has expired: a lease can    *)
(* end under an execution that still goes on.                              *)
ExpireClaim == run.state = "running" /\ FailOrRetry

(* The database's clock passes a wake time, or the end of a delay. *)
TimePasses(w) ==
  /\ w \notin elapsed
  /\ elapsed' = elapsed \cup {w}
  /\ UNCHANGED <<attempts, maxAttempts, run, checkpoint, emitted>>

DelayEnds ==
  /\ run.availableAt = Later
  /\ run' = Run(run.state, Past, run.wakeEvent, run.claimedBy)
  /\ UNCHANGED <<attempts, maxAttempts, checkpoint, emitted, elapsed>>

Environment ==
  \/ EmitEvent
  \/ CancelTask
  \/ RetryTask
  \/ ExpireClaim
  \/ \E w \in WakeTimes : TimePasses(w)
  \/ DelayEnds
=============================================================================
