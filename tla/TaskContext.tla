----------------------------- MODULE TaskContext -----------------------------
(***************************************************************************)
(* TaskContext (context.rs): what the calls of a handler do, one action    *)
(* per database call.  A call suspends at each of them, and anything may   *)
(* happen to the task in between: its lease may expire, a new run may      *)
(* start elsewhere, it may be cancelled.                                   *)
(*                                                                         *)
(* phase[e] says where execution e is: "body" when the handler is about to *)
(* make call pc[e] or to return, otherwise the database call under way.    *)
(***************************************************************************)
EXTENDS AbsurdStore

CONSTANT AckLoss  \* TRUE: a call may take effect and still return an error

VARIABLES
  phase,     \* where each execution is
  held,      \* task.run_id: the run it claimed
  wake,      \* task.wake_event, with no event_payload
  pc,        \* the operation of the handler it has reached
  cache,     \* checkpoint_cache
  handles,   \* the states of the handles it holds, by the begin_step
  reported,  \* reported_timeouts
  now,       \* the current_time() a sleep has read: the wake times behind it
  value,     \* the value to persist, or the wake time to schedule
  returned   \* history: what operation i has returned, in any execution

contextVars == <<phase, held, wake, pc, cache, handles, reported, now, value, returned>>

(* What a call can return; "timeout" is an EventTimeout that was caught. *)
Outcomes == States \cup {Null, "timeout"}

Phases == {"idle", "claimed", "loading", "body", "lookup", "wait", "persist",
           "await", "schedule", "completing", "failing", "deferring"}

(* The handler is running. *)
HandlerPhases == {"body", "lookup", "wait", "persist", "await", "schedule"}

ContextTypeOK ==
  /\ phase \in [Executors -> Phases]
  /\ held \in [Executors -> 0..MaxRuns]
  /\ wake \in [Executors -> Events \cup {NoEvent}]
  /\ pc \in [Executors -> 1..(Len(Program) + 1)]
  /\ cache \in [Executors -> [Slots -> States \cup {Null, NoState}]]
  /\ handles \in [Executors -> [Ops -> States \cup {Null, NoState}]]
  /\ reported \in [Executors -> SUBSET Events]
  /\ now \in [Executors -> SUBSET WakeTimes]
  /\ value \in [Executors -> States \cup {NoState}]
  /\ returned \in [Ops -> SUBSET Outcomes]

NoCheckpoints == [s \in Slots |-> NoState]

(* None is done. *)
NoHandles == [i \in Ops |-> NoState]

ContextInit ==
  /\ phase = [e \in Executors |-> "idle"]
  /\ held = [e \in Executors |-> 0]
  /\ wake = [e \in Executors |-> NoEvent]
  /\ pc = [e \in Executors |-> 1]
  /\ cache = [e \in Executors |-> NoCheckpoints]
  /\ handles = [e \in Executors |-> NoHandles]
  /\ reported = [e \in Executors |-> {}]
  /\ now = [e \in Executors |-> {}]
  /\ value = [e \in Executors |-> NoState]
  /\ returned = [i \in Ops |-> {}]

Goto(e, p) == phase' = [phase EXCEPT ![e] = p]

(* The execution is over: its locals are dropped. *)
Stop(e) ==
  /\ Goto(e, "idle")
  /\ held' = [held EXCEPT ![e] = 0]
  /\ wake' = [wake EXCEPT ![e] = NoEvent]
  /\ pc' = [pc EXCEPT ![e] = 1]
  /\ cache' = [cache EXCEPT ![e] = NoCheckpoints]
  /\ handles' = [handles EXCEPT ![e] = NoHandles]
  /\ reported' = [reported EXCEPT ![e] = {}]
  /\ now' = [now EXCEPT ![e] = {}]
  /\ value' = [value EXCEPT ![e] = NoState]
  /\ UNCHANGED returned

-----------------------------------------------------------------------------
(* The call the handler is in. *)

AtOp(e, kind) == pc[e] \in Ops /\ Program[pc[e]].kind = kind

Slot(e) == CheckpointName(pc[e])

Event(e) == Program[pc[e]].event

(* Call pc[e] returns the outcome x and the handler goes on. *)
Return(e, x) ==
  /\ returned' = [returned EXCEPT ![pc[e]] = @ \cup {x}]
  /\ pc' = [pc EXCEPT ![e] = @ + 1]
  /\ value' = [value EXCEPT ![e] = NoState]
  /\ now' = [now EXCEPT ![e] = {}]
  /\ Goto(e, "body")

(* The call returns an error the handler passes on. *)
Raise(e) ==
  /\ Goto(e, "failing")
  /\ UNCHANGED <<pc, now, value, returned>>

Remember(e, x) == cache' = [cache EXCEPT ![e][Slot(e)] = x]

(* lookup_checkpoint: the cache, then the database. *)
Cached(e) == IF cache[e][Slot(e)] # NoState THEN cache[e][Slot(e)]
                                            ELSE checkpoint[Slot(e)]

-----------------------------------------------------------------------------
(* TaskContext::new reads the checkpoints of the task. *)
Load(e) ==
  /\ phase[e] = "loading"
  /\ Goto(e, "body")
  /\ cache' = [cache EXCEPT ![e] = checkpoint]
  /\ UNCHANGED <<held, handles, wake, pc, reported, now, value, returned, storeVars>>

(* sleep_for and sleep_until read the clock before anything else. *)
ReadClock(e) ==
  /\ phase[e] = "body" /\ AtOp(e, "sleep")
  /\ Goto(e, "lookup")
  /\ now' = [now EXCEPT ![e] = elapsed]
  /\ UNCHANGED <<held, handles, wake, pc, cache, reported, value, returned, storeVars>>

(* Slip: the wake time is taken for one that is still to come. *)
SleepsAgain(e, w) ==
  /\ Goto(e, "schedule")
  /\ value' = [value EXCEPT ![e] = w]
  /\ UNCHANGED <<pc, now, returned>>

(* The end of sleep_until_at_current_time, with the wake time it got from  *)
(* the checkpoint.                                                         *)
SleepUntil(e, w) ==
  IF w \in now[e] THEN Return(e, w)
  ELSE /\ Goto(e, "schedule")
       /\ value' = [value EXCEPT ![e] = w]
       /\ UNCHANGED <<pc, now, returned>>

LooksUp(e) ==
  \/ phase[e] = "lookup"
  \/ /\ phase[e] = "body"
     /\ AtOp(e, "step") \/ AtOp(e, "begin") \/ AtOp(e, "event") \/ AtOp(e, "result")

(* Slip: a row that is not there is taken for a checkpoint. *)
LookupWithoutRow(e) ==
  /\ LooksUp(e) /\ AtOp(e, "step")
  /\ Return(e, Cached(e))
  /\ UNCHANGED <<held, handles, wake, cache, reported, storeVars>>

(* Slip: a sleep that has a checkpoint is taken for one that is over. *)
LookupEndsSleep(e) ==
  /\ LooksUp(e)
  /\ Cached(e) # NoState
  /\ Remember(e, Cached(e))
  /\ Return(e, Cached(e))
  /\ UNCHANGED <<held, handles, wake, reported, storeVars>>

(* The checkpoint exists: a handle is done and keeps its state.  A wake    *)
(* time has to decode as one.                                              *)
LookupHit(e) ==
  /\ LooksUp(e)
  /\ Cached(e) # NoState
  /\ Remember(e, Cached(e))
  /\ IF ~AtOp(e, "sleep") THEN Return(e, Cached(e))
     ELSE IF Cached(e) \in WakeTimes THEN SleepUntil(e, Cached(e))
     ELSE Raise(e)
  /\ handles' = IF AtOp(e, "begin") THEN [handles EXCEPT ![e][pc[e]] = Cached(e)] ELSE handles
  /\ UNCHANGED <<held, wake, reported, storeVars>>

(* Slip: the closure runs whether or not there is a checkpoint. *)
ComputeAlways(e) ==
  /\ LooksUp(e)
  /\ AtOp(e, "step") \/ AtOp(e, "sleep")
  /\ \E v \in IF AtOp(e, "sleep") THEN WakeTimes ELSE Values :
       value' = [value EXCEPT ![e] = v]
  /\ Goto(e, "persist")
  /\ UNCHANGED <<held, handles, wake, pc, cache, reported, now, returned, storeVars>>

(* The checkpoint does not exist: the closure of the step computes a value, *)
(* or the sleep keeps the wake time it was given.                           *)
Compute(e) ==
  /\ LooksUp(e)
  /\ AtOp(e, "step") \/ AtOp(e, "sleep")
  /\ Cached(e) = NoState
  /\ \E v \in IF AtOp(e, "sleep") THEN WakeTimes ELSE Values :
       value' = [value EXCEPT ![e] = v]
  /\ Goto(e, "persist")
  /\ UNCHANGED <<held, handles, wake, pc, cache, reported, now, returned, storeVars>>

(* begin_step without a checkpoint: the handle is not done. *)
BeginStep(e) ==
  /\ LooksUp(e) /\ AtOp(e, "begin")
  /\ Cached(e) = NoState
  /\ pc' = [pc EXCEPT ![e] = @ + 1]
  /\ UNCHANGED <<phase, held, handles, wake, cache, reported, now, value, returned, storeVars>>

Handle(e) == handles[e][Program[pc[e]].of]

(* complete_step, in the same execution and any number of calls later: it  *)
(* goes by what the handle has, not by the checkpoint.                     *)
CompleteStep(e) ==
  /\ phase[e] = "body" /\ AtOp(e, "complete")
  /\ IF Handle(e) # NoState THEN Return(e, Handle(e))
     ELSE /\ \E v \in Values : value' = [value EXCEPT ![e] = v]
          /\ Goto(e, "persist")
          /\ UNCHANGED <<pc, now, returned>>
  /\ UNCHANGED <<held, handles, wake, cache, reported, storeVars>>

(* Slip: the result is waited for whether or not there is a checkpoint. *)
WaitAlways(e) ==
  /\ LooksUp(e) /\ AtOp(e, "result")
  /\ Goto(e, "wait")
  /\ UNCHANGED <<held, handles, wake, pc, cache, reported, now, value, returned, storeVars>>

(* await_task_result without a checkpoint polls the other task, and keeps  *)
(* its own claim alive meanwhile (TaskResultWait has the details); the     *)
(* snapshot it ends with is persisted as the value of a step is.           *)
BeginWait(e) ==
  /\ LooksUp(e) /\ AtOp(e, "result")
  /\ Cached(e) = NoState
  /\ Goto(e, "wait")
  /\ UNCHANGED <<held, handles, wake, pc, cache, reported, now, value, returned, storeVars>>

ResultArrives(e) ==
  /\ phase[e] = "wait"
  /\ \E v \in Values : value' = [value EXCEPT ![e] = v]
  /\ Goto(e, "persist")
  /\ UNCHANGED <<held, handles, wake, pc, cache, reported, now, returned, storeVars>>

(* EventTimeout: the handler catches it or passes it on. *)
EventTimeout(e) ==
  IF Program[pc[e]].timeout = "catch" THEN Return(e, "timeout") ELSE Raise(e)

(* Slip: the local report of a timeout is persisted. *)
TimeoutPersisted(e) ==
  /\ LooksUp(e) /\ AtOp(e, "event")
  /\ Cached(e) = NoState
  /\ IF wake[e] = Event(e)
     THEN /\ wake' = [wake EXCEPT ![e] = NoEvent]
          /\ \E v \in Values : value' = [value EXCEPT ![e] = v]
          /\ Goto(e, "persist")
     ELSE Goto(e, "await") /\ UNCHANGED <<wake, value>>
  /\ UNCHANGED <<held, handles, pc, cache, reported, now, returned, storeVars>>

(* await_event without a checkpoint.  A run that the timeout of this event *)
(* woke up reports the timeout at once, and remembers that it did.         *)
BeginAwait(e) ==
  /\ LooksUp(e) /\ AtOp(e, "event")
  /\ Cached(e) = NoState
  /\ IF wake[e] = Event(e)
     THEN /\ wake' = [wake EXCEPT ![e] = NoEvent]
          /\ reported' = [reported EXCEPT ![e] = @ \cup {Event(e)}]
          /\ EventTimeout(e)
     ELSE /\ Goto(e, "await")
          /\ UNCHANGED <<wake, reported, pc, now, value, returned>>
  /\ UNCHANGED <<held, handles, cache, storeVars>>

(* Slip: a refusal by the database is ignored, as complete_run ignores it. *)
PersistUnfenced(e) ==
  /\ phase[e] = "persist"
  /\ \/ set_task_checkpoint_state(held[e], Slot(e), value[e])
     \/ ~Running(held[e]) /\ UNCHANGED storeVars
  /\ Remember(e, value[e])
  /\ IF AtOp(e, "sleep") THEN SleepUntil(e, value[e]) ELSE Return(e, value[e])
  /\ UNCHANGED <<held, handles, wake, reported>>

(* Slip: only the cache is written. *)
PersistInCache(e) ==
  /\ phase[e] = "persist"
  /\ Remember(e, value[e])
  /\ IF AtOp(e, "sleep") THEN SleepUntil(e, value[e]) ELSE Return(e, value[e])
  /\ UNCHANGED <<held, handles, wake, reported, storeVars>>

(* persist_checkpoint: the row first, then the cache. *)
Persist(e) ==
  /\ phase[e] = "persist"
  /\ set_task_checkpoint_state(held[e], Slot(e), value[e])
  /\ Remember(e, value[e])
  /\ IF AtOp(e, "sleep") THEN SleepUntil(e, value[e]) ELSE Return(e, value[e])
  /\ UNCHANGED <<held, handles, wake, reported>>

(* The three answers of absurd.await_event. *)
AwaitPayload(e) ==
  /\ phase[e] = "await"
  /\ EventPayload(held[e], Slot(e), Event(e))
  /\ Remember(e, emitted[Event(e)])
  /\ reported' = [reported EXCEPT ![e] = @ \ {Event(e)}]
  /\ Return(e, emitted[Event(e)])
  /\ UNCHANGED <<held, handles, wake>>

AwaitTimedOut(e) ==
  /\ phase[e] = "await"
  /\ EventTimedOut(held[e], Event(e))
  /\ reported' = [reported EXCEPT ![e] = @ \ {Event(e)}]
  /\ IF Event(e) \in reported[e]
     THEN Remember(e, Null) /\ Return(e, Null)
     ELSE UNCHANGED cache /\ EventTimeout(e)
  /\ UNCHANGED <<held, handles, wake>>

(* Slip: the answer should_suspend is taken for a payload. *)
AwaitInPlace(e) ==
  /\ phase[e] = "await"
  /\ EventSuspend(held[e], Event(e), Program[pc[e]].timeout # "none")
  /\ Return(e, Null)
  /\ UNCHANGED <<held, handles, wake, cache, reported>>

AwaitSuspended(e) ==
  /\ phase[e] = "await"
  /\ EventSuspend(held[e], Event(e), Program[pc[e]].timeout # "none")
  /\ Stop(e)

(* schedule_run at the end of a sleep, then Suspended. *)
ScheduleRun(e) ==
  /\ phase[e] = "schedule"
  /\ schedule_run(held[e], value[e])
  /\ Stop(e)

(* ctx.emit_event has no checkpoint and is not tied to the run: a replay,  *)
(* or an execution that lost its run, emits again.                         *)
Emit(e) ==
  /\ phase[e] = "body" /\ AtOp(e, "emit")
  /\ \E v \in Values : emit_event(Event(e), v)
  /\ pc' = [pc EXCEPT ![e] = @ + 1]
  /\ UNCHANGED <<phase, held, handles, wake, cache, reported, now, value, returned>>

(* extend_claim *)
Heartbeat(e) ==
  /\ phase[e] = "body" /\ AtOp(e, "heartbeat")
  /\ Running(held[e])
  /\ pc' = [pc EXCEPT ![e] = @ + 1]
  /\ UNCHANGED <<phase, held, handles, wake, cache, reported, now, value, returned, storeVars>>

(* The calls the database refuses unless the run is running. *)
Fenced(e) ==
  \/ phase[e] \in {"wait", "persist", "await", "schedule"}
  \/ phase[e] = "body" /\ AtOp(e, "heartbeat")

(* AB001 and AB002 become Cancelled and AlreadyFailed, with which the      *)
(* handler ends and nothing is recorded; any other refusal is an error.    *)
Refused(e) ==
  /\ Fenced(e) /\ ~Running(held[e])
  /\ IF TerminalRace(held[e]) THEN Stop(e)
     ELSE Raise(e) /\ UNCHANGED <<held, handles, wake, cache, reported>>
  /\ UNCHANGED storeVars

(* A call takes effect, its answer is lost, and the handler gets an error. *)
AckLost(e) ==
  /\ AckLoss
  /\ \/ /\ phase[e] = "persist"
        /\ set_task_checkpoint_state(held[e], Slot(e), value[e])
     \/ phase[e] = "schedule" /\ schedule_run(held[e], value[e])
     \/ /\ phase[e] = "body" /\ AtOp(e, "emit")
        /\ \E v \in Values : emit_event(Event(e), v)
     \/ /\ phase[e] = "await"
        /\ \/ EventPayload(held[e], Slot(e), Event(e))
           \/ EventTimedOut(held[e], Event(e))
           \/ EventSuspend(held[e], Event(e), Program[pc[e]].timeout # "none")
  /\ Raise(e)
  /\ UNCHANGED <<held, handles, wake, cache, reported>>

(* The handler, the closure of a step, a pool.get() or a call without      *)
(* effect fails, the headers are not an object, or the handler panics.     *)
HandlerFails(e) ==
  /\ phase[e] \in {"loading"} \cup HandlerPhases
  /\ Raise(e)
  /\ UNCHANGED <<held, handles, wake, cache, reported, storeVars>>

(* The handler has made all its calls and returns its result. *)
HandlerReturns(e) ==
  /\ phase[e] = "body" /\ pc[e] = Len(Program) + 1
  /\ Goto(e, "completing")
  /\ UNCHANGED <<held, handles, wake, pc, cache, reported, now, value, returned, storeVars>>

(* What the handler does when nothing goes wrong. *)
HandlerStep(e) ==
  \/ Load(e) \/ ReadClock(e) \/ LookupHit(e) \/ Compute(e) \/ BeginStep(e)
  \/ CompleteStep(e) \/ BeginAwait(e) \/ BeginWait(e) \/ ResultArrives(e)
  \/ Persist(e) \/ AwaitPayload(e) \/ AwaitTimedOut(e) \/ AwaitSuspended(e)
  \/ ScheduleRun(e) \/ Emit(e) \/ Heartbeat(e) \/ Refused(e) \/ HandlerReturns(e)

HandlerFault(e) == AckLost(e) \/ HandlerFails(e)
=============================================================================
