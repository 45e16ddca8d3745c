---------------------------- MODULE TaskExecution ----------------------------
(***************************************************************************)
(* The execution of claimed tasks (executor.rs): what happens between the  *)
(* claim of a run and the report of its outcome, in every process that     *)
(* works on the queue, for one task.                                       *)
(***************************************************************************)
EXTENDS TaskContext

CONSTANTS
  Registrations,     \* what the processes that claim it have registered
  UnknownTaskPolicy  \* "Defer" | "Fail"

ASSUME ExecutionAssumption ==
  /\ Registrations \subseteq {"here", "otherQueue", "none"}
  /\ UnknownTaskPolicy \in {"Defer", "Fail"}
  /\ AckLoss \in BOOLEAN

vars == <<storeVars, contextVars>>

TypeOK == StoreTypeOK /\ ContextTypeOK

Init == StoreInit /\ ContextInit

-----------------------------------------------------------------------------
(* The worker claims the task and spawns its execution. *)
Claim(e) ==
  /\ phase[e] = "idle"
  /\ claim_task(e)
  /\ held' = [held EXCEPT ![e] = attempts]
  /\ wake' = [wake EXCEPT ![e] = run.wakeEvent]
  /\ Goto(e, "claimed")
  /\ UNCHANGED <<pc, cache, handles, reported, now, value, returned>>

(* execute_claimed looks the task up in the registry of its process: it is *)
(* there, for this queue or for another one, or it is not.                 *)
Dispatch(e) ==
  /\ phase[e] = "claimed"
  /\ \/ "here" \in Registrations /\ Goto(e, "loading")
     \/ "otherQueue" \in Registrations /\ Goto(e, "failing")
     \/ /\ "none" \in Registrations
        /\ Goto(e, IF UnknownTaskPolicy = "Defer" THEN "deferring" ELSE "failing")
  /\ UNCHANGED <<held, handles, wake, pc, cache, reported, now, value, returned, storeVars>>

(* Slip: the report names the task where it should name the run. *)
CompleteTask(e) ==
  /\ phase[e] = "completing"
  /\ IF Running(attempts) THEN complete_run(attempts) ELSE UNCHANGED storeVars
  /\ Stop(e)

(* complete_run; that the run has ended otherwise is not an error, and an  *)
(* error has nowhere to go but to on_error.                                *)
Complete(e) ==
  /\ phase[e] = "completing"
  /\ IF Running(held[e]) THEN complete_run(held[e]) ELSE UNCHANGED storeVars
  /\ Stop(e)

(* Slip: the retry starts in place. *)
RetryInPlace(e) ==
  /\ phase[e] = "failing"
  /\ fail_run(held[e])
  /\ held' = [held EXCEPT ![e] = attempts']
  /\ Goto(e, "loading")
  /\ UNCHANGED <<handles, wake, pc, cache, reported, now, value, returned>>

(* fail_run, after an error, a panic or a refused dispatch. *)
Fail(e) ==
  /\ phase[e] = "failing"
  /\ \/ fail_run(held[e])
     \/ ~Running(held[e]) /\ UNCHANGED storeVars
  /\ Stop(e)

(* Slip: a deferred run is failed as well. *)
DeferAndFail(e) ==
  /\ phase[e] = "deferring"
  /\ IF Running(held[e]) THEN schedule_run(held[e], Later) ELSE UNCHANGED storeVars
  /\ Goto(e, "failing")
  /\ UNCHANGED <<held, handles, wake, pc, cache, reported, now, value, returned>>

(* The run of a task nobody has registered here comes back in 15 to 30 s. *)
Defer(e) ==
  /\ phase[e] = "deferring"
  /\ IF Running(held[e]) THEN schedule_run(held[e], Later) ELSE UNCHANGED storeVars
  /\ Stop(e)

(* The execution ends without a trace: the process dies (the watchdog may  *)
(* end it), or complete_run, fail_run or schedule_run fails and its error  *)
(* goes to on_error only.                                                  *)
Crash(e) ==
  /\ phase[e] # "idle"
  /\ Stop(e)
  /\ UNCHANGED storeVars

Execute(e) == Dispatch(e) \/ HandlerStep(e) \/ Complete(e) \/ Fail(e) \/ Defer(e)

Next ==
  \/ \E e \in Executors : Claim(e) \/ Execute(e) \/ HandlerFault(e) \/ Crash(e)
  \/ Environment /\ UNCHANGED contextVars

Spec == Init /\ [][Next]_vars

(***************************************************************************)
(* Fairness.  An execution goes on by itself; some worker polls for runs;  *)
(* the clock goes on; and every claim_task sweeps expired claims, so a run *)
(* whose execution is gone is failed in the end.  Nothing makes a client   *)
(* emit, cancel or retry, and nothing makes a lease expire in time.        *)
(***************************************************************************)
Abandoned == \A e \in Executors : phase[e] = "idle" \/ held[e] # attempts

Fairness ==
  /\ \A e \in Executors : WF_vars(Execute(e))
  /\ WF_vars(\E e \in Executors : Claim(e))
  /\ WF_vars(Abandoned /\ ExpireClaim /\ UNCHANGED contextVars)
  /\ \A w \in WakeTimes : WF_vars(TimePasses(w) /\ UNCHANGED contextVars)
  /\ WF_vars(DelayEnds /\ UNCHANGED contextVars)

FairSpec == Spec /\ Fairness

-----------------------------------------------------------------------------
(* Properties. *)

(* A run has at most one execution: claim_task hands a run out again only  *)
(* when the SDK has suspended it and left it.                              *)
ExclusiveRun ==
  \A e, f \in Executors :
    e # f /\ phase[e] # "idle" /\ phase[f] # "idle" => held[e] # held[f]

(* No two handlers work on one run, even when the answer of a suspension   *)
(* is lost and the run is claimed again before its error is reported.      *)
OneHandlerPerRun ==
  \A e, f \in Executors :
    e # f /\ phase[e] \in HandlerPhases /\ phase[f] \in HandlerPhases => held[e] # held[f]

(* No execution is left in a run that waits to be claimed. *)
SuspendedIsLeft ==
  run.state \in {"pending", "sleeping"} =>
    \A e \in Executors : phase[e] # "idle" => held[e] < attempts

(* What a step, a sleep or an event returns to the handler is what its     *)
(* checkpoint holds: written before it is returned, and the same in every  *)
(* execution, whatever the closure would compute the next time (README.md, *)
(* "Durable context API").                                                 *)
ReplayStable ==
  \A i \in Ops : Checkpointed(i) =>
    returned[i] \subseteq {checkpoint[CheckpointName(i)]} \ {NoState}

(* The same for steps, handles and sleeps only, in handlers that catch     *)
(* timeouts: StepReplaysAreStable in TaskReplayProofs.                     *)
StepsReplayStable ==
  \A i \in Ops : Program[i].kind \in {"step", "complete", "sleep"} =>
    returned[i] \subseteq {checkpoint[CheckpointName(i)]} \ {NoState}

(* An execution that lost its run to the expiry of its lease cannot write  *)
(* over the checkpoints of the run that replaced it.                       *)
CheckpointsWriteOnce ==
  [][\A s \in Slots : checkpoint[s] # NoState => checkpoint'[s] = checkpoint[s]]_vars

(* No sleep returns before its wake time, even though the clock is read    *)
(* before the wake time is known and an execution that lost its run may    *)
(* have computed another one.                                              *)
SleepNotEarly ==
  \A i \in Ops : Program[i].kind = "sleep" /\ returned[i] # {} =>
    checkpoint[CheckpointName(i)] \in elapsed

(* Each operation has a checkpoint of its own, so that none takes the      *)
(* result of another for its own ("a handle represents one concrete        *)
(* checkpoint slot", context.rs; repeated names are suffixed, README.md).  *)
OwnCheckpoints ==
  \A i, j \in Ops :
    /\ i # j /\ Checkpointed(i) /\ Checkpointed(j)
    /\ returned[i] # {} /\ returned[j] # {}
    => CheckpointName(i) # CheckpointName(j)

(* The checkpoints of a completed task are all there: a result is never    *)
(* recorded by an execution that skipped an operation.                     *)
CompletedWithAllCheckpoints ==
  run.state = "completed" =>
    \A i \in Ops : Checkpointed(i) => checkpoint[CheckpointName(i)] # NoState

(* The checkpoint of an event is the payload that was emitted first.       *)
EventsAgree ==
  \A i \in Ops : Program[i].kind = "event" =>
    checkpoint[CheckpointName(i)] \in {NoState, emitted[Program[i].event]}

(* Only the execution that claimed a run last decides how the run ends.    *)
(* (What an execution without a claim does is swallowed: AB001, AB002.)    *)
OnlyClaimantReports ==
  [][\A e \in Executors :
       /\ phase[e] \in {"completing", "failing", "deferring"}
       /\ phase'[e] # phase[e]
       /\ run' # run
       => held[e] = attempts /\ run.claimedBy = e]_vars

(* The runs, claims and executions of a task implement the durable task:   *)
(* no result out of order, none twice, none after the outcome, and no      *)
(* completion before the last.  For handlers that do not catch timeouts.   *)
Durable == INSTANCE DurableTask WITH
  Positions <- {i \in Ops : Checkpointed(i)},
  Results   <- States,
  NoResult  <- NoState,
  results   <- [i \in {j \in Ops : Checkpointed(j)} |-> checkpoint[CheckpointName(i)]],
  outcome   <- IF run.state \in Terminal THEN run.state ELSE "open"

ImplementsDurableTask == Durable!Spec

(* The task ends, or it waits for an event nobody has emitted. *)
Parked ==
  /\ run.state = "sleeping"
  /\ run.availableAt = Never
  /\ run.wakeEvent \in Events
  /\ emitted[run.wakeEvent] = NoState

Settles == <>[](run.state \in Terminal \/ Parked)
=============================================================================
