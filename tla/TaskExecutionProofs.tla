------------------------- MODULE TaskExecutionProofs -------------------------
(***************************************************************************)
(* Theorems about TaskExecution, for every handler, any number of          *)
(* executions and any number of runs.                                      *)
(***************************************************************************)
EXTENDS TaskExecution, TLAPS

(* The database call an execution is in fits the operation it has reached, *)
(* and what it is about to write is of the right kind.                     *)
PhaseOK ==
  \A e \in Executors :
    /\ phase[e] # "idle" => held[e] \in 1..attempts
    /\ phase[e] = "lookup" => AtOp(e, "sleep")
    /\ phase[e] = "await" => AtOp(e, "event")
    /\ phase[e] = "wait" => AtOp(e, "result")
    /\ phase[e] = "persist" =>
         \/ (AtOp(e, "step") \/ AtOp(e, "complete") \/ AtOp(e, "result")) /\ value[e] \in Values
         \/ AtOp(e, "sleep") /\ value[e] \in WakeTimes
    /\ phase[e] = "schedule" => AtOp(e, "sleep") /\ value[e] \in WakeTimes

TypeInv == TypeOK /\ PhaseOK

-----------------------------------------------------------------------------
(* The procedures of the store keep its types, and never drop a run. *)

LEMMA FailOrRetryType ==
  ASSUME StoreTypeOK, FailOrRetry
  PROVE  StoreTypeOK' /\ attempts' >= attempts
BY StoreAssumption DEF StoreTypeOK, FailOrRetry, NewRun, Run, Ended, RunStates

LEMMA CheckpointType ==
  ASSUME StoreTypeOK, NEW r, NEW s \in Slots, NEW v \in States,
         set_task_checkpoint_state(r, s, v)
  PROVE  StoreTypeOK' /\ attempts' >= attempts
BY StoreAssumption DEF set_task_checkpoint_state, StoreTypeOK

LEMMA ScheduleType ==
  ASSUME StoreTypeOK, NEW r, NEW at \in WakeTimes \cup {Later}, schedule_run(r, at)
  PROVE  StoreTypeOK' /\ attempts' >= attempts
BY StoreAssumption DEF schedule_run, StoreTypeOK, NewRun, Run, RunStates

LEMMA AwaitType ==
  ASSUME StoreTypeOK, NEW r, NEW s \in Slots, NEW ev \in Events, NEW timed,
         EventPayload(r, s, ev) \/ EventTimedOut(r, ev) \/ EventSuspend(r, ev, timed)
  PROVE  StoreTypeOK' /\ attempts' >= attempts
<1>1. CASE EventPayload(r, s, ev)
  BY <1>1, StoreAssumption DEF EventPayload, StoreTypeOK, States, Run, Unwaited
<1>2. CASE EventTimedOut(r, ev)
  BY <1>2, StoreAssumption DEF EventTimedOut, StoreTypeOK, Run, Unwaited
<1>3. CASE EventSuspend(r, ev, timed)
  BY <1>3, StoreAssumption DEF EventSuspend, StoreTypeOK, Run, RunStates
<1> QED BY <1>1, <1>2, <1>3

LEMMA EmitType ==
  ASSUME StoreTypeOK, NEW ev \in Events, NEW v \in Values, emit_event(ev, v)
  PROVE  StoreTypeOK' /\ attempts' >= attempts
BY StoreAssumption DEF emit_event, StoreTypeOK, Run, Ended, RunStates

LEMMA EnvironmentType ==
  ASSUME StoreTypeOK, Environment
  PROVE  StoreTypeOK' /\ attempts' >= attempts
<1>1. CASE EmitEvent
  BY <1>1, EmitType DEF EmitEvent
<1>2. CASE CancelTask
  BY <1>2, StoreAssumption DEF CancelTask, StoreTypeOK, Run, Ended, RunStates
<1>3. CASE RetryTask
  BY <1>3, StoreAssumption DEF RetryTask, StoreTypeOK, NewRun, Run, Ended, RunStates
<1>4. CASE ExpireClaim
  BY <1>4, FailOrRetryType DEF ExpireClaim
<1>5. CASE \E w \in WakeTimes : TimePasses(w)
  <2>1. elapsed' \in SUBSET WakeTimes
    BY <1>5 DEF TimePasses, StoreTypeOK
  <2> QED BY <1>5, <2>1, StoreAssumption DEF TimePasses, StoreTypeOK
<1>6. CASE DelayEnds
  BY <1>6, StoreAssumption DEF DelayEnds, StoreTypeOK, Run
<1> QED BY <1>1, <1>2, <1>3, <1>4, <1>5, <1>6 DEF Environment

-----------------------------------------------------------------------------
(* Type correctness. *)

LEMMA InitTypeInv == Init => TypeInv
BY ProgramAssumption, StoreAssumption
   DEF Init, StoreInit, ContextInit, TypeInv, TypeOK, StoreTypeOK, ContextTypeOK, PhaseOK,
       NewRun, Run, Ended, RunStates, NoCheckpoints, NoHandles, Phases, States,
       Ops

(* A step that moves one execution on without changing which run it holds. *)
LEMMA StopType ==
  ASSUME TypeInv, StoreTypeOK', attempts' >= attempts, NEW e \in Executors, Stop(e)
  PROVE  TypeInv'
BY ProgramAssumption, StoreAssumption
   DEF TypeInv, TypeOK, StoreTypeOK, ContextTypeOK, PhaseOK, Stop, Goto, NoCheckpoints, NoHandles,
       Phases, AtOp, Ops

LEMMA ReturnType ==
  ASSUME TypeInv, StoreTypeOK', attempts' >= attempts, NEW e \in Executors,
         phase[e] # "idle", pc[e] \in Ops, NEW x \in Outcomes, Return(e, x),
         held' = held, wake' \in [Executors -> Events \cup {NoEvent}],
         cache' \in [Executors -> [Slots -> States \cup {Null, NoState}]],
         handles' \in [Executors -> [Ops -> States \cup {Null, NoState}]],
         reported' \in [Executors -> SUBSET Events]
  PROVE  TypeInv'
<1>1. returned' \in [Ops -> SUBSET Outcomes]
  BY DEF TypeInv, TypeOK, ContextTypeOK, Return
<1>2. pc' \in [Executors -> 1..(Len(Program) + 1)]
  BY ProgramAssumption DEF TypeInv, TypeOK, ContextTypeOK, Return, Ops
<1>3. now' \in [Executors -> SUBSET WakeTimes]
  BY DEF TypeInv, TypeOK, ContextTypeOK, Return
<1>4. /\ phase' \in [Executors -> Phases]
      /\ value' \in [Executors -> States \cup {NoState}]
      /\ held' \in [Executors -> 0..MaxRuns]
  BY DEF TypeInv, TypeOK, ContextTypeOK, Return, Goto, Phases
<1>5. PhaseOK'
  BY StoreAssumption
     DEF TypeInv, TypeOK, StoreTypeOK, ContextTypeOK, PhaseOK, Return, Goto, AtOp
<1> QED BY <1>1, <1>2, <1>3, <1>4, <1>5 DEF TypeInv, TypeOK, ContextTypeOK

LEMMA RaiseType ==
  ASSUME TypeInv, StoreTypeOK', attempts' >= attempts, NEW e \in Executors,
         phase[e] # "idle", Raise(e),
         held' = held, wake' \in [Executors -> Events \cup {NoEvent}],
         cache' \in [Executors -> [Slots -> States \cup {Null, NoState}]],
         handles' \in [Executors -> [Ops -> States \cup {Null, NoState}]],
         reported' \in [Executors -> SUBSET Events]
  PROVE  TypeInv'
<1>1. ContextTypeOK'
  BY DEF TypeInv, TypeOK, ContextTypeOK, Raise, Goto, Phases
<1>2. PhaseOK'
  BY StoreAssumption DEF TypeInv, TypeOK, StoreTypeOK, ContextTypeOK, PhaseOK, Raise, Goto, AtOp
<1> QED BY <1>1, <1>2 DEF TypeInv, TypeOK

LEMMA SleepUntilType ==
  ASSUME TypeInv, StoreTypeOK', attempts' >= attempts, NEW e \in Executors,
         phase[e] # "idle", AtOp(e, "sleep"), NEW w \in WakeTimes, SleepUntil(e, w),
         held' = held, wake' \in [Executors -> Events \cup {NoEvent}],
         cache' \in [Executors -> [Slots -> States \cup {Null, NoState}]],
         handles' \in [Executors -> [Ops -> States \cup {Null, NoState}]],
         reported' \in [Executors -> SUBSET Events]
  PROVE  TypeInv'
<1>1. CASE w \in now[e]
  <2>1. Return(e, w) /\ w \in Outcomes /\ pc[e] \in Ops
    BY <1>1 DEF SleepUntil, Outcomes, States, AtOp
  <2> QED BY <2>1, ReturnType
<1>2. CASE w \notin now[e]
  <2>0. Goto(e, "schedule") /\ value' = [value EXCEPT ![e] = w]
    BY <1>2 DEF SleepUntil
  <2>1. /\ phase' \in [Executors -> Phases]
        /\ value' \in [Executors -> States \cup {NoState}]
    BY <2>0 DEF TypeInv, TypeOK, ContextTypeOK, Goto, Phases, States
  <2>2. UNCHANGED <<pc, now, returned>>
    BY <1>2 DEF SleepUntil
  <2>3. ContextTypeOK'
    BY <2>1, <2>2 DEF TypeInv, TypeOK, ContextTypeOK
  <2>4. PhaseOK'
    BY <1>2, StoreAssumption
       DEF SleepUntil, TypeInv, TypeOK, StoreTypeOK, ContextTypeOK, PhaseOK, Goto, AtOp
  <2> QED BY <2>3, <2>4 DEF TypeInv, TypeOK
<1> QED BY <1>1, <1>2

LEMMA CacheType ==
  ASSUME TypeInv, NEW e \in Executors, NEW x \in States \cup {Null, NoState}, Remember(e, x)
  PROVE  cache' \in [Executors -> [Slots -> States \cup {Null, NoState}]]
BY DEF TypeInv, TypeOK, ContextTypeOK, Remember

(* A handle belongs to an operation before, which has asked for its name. *)
LEMMA OpenerAsks ==
  ASSUME NEW i \in Ops, Checkpointed(i) \/ Asks(i)
  PROVE  Opener(i) \in Ops /\ Asks(Opener(i)) /\ CheckpointName(i) \in Slots
<1>1. CASE Program[i].kind = "complete"
  <2>1. Program[i].of \in Ops /\ Program[Program[i].of].kind = "begin"
    BY <1>1, ProgramAssumption DEF Ops
  <2> QED BY <1>1, <2>1 DEF Opener, Asks, CheckpointName, Slots
<1>2. CASE Program[i].kind # "complete"
  BY <1>2 DEF Opener, Asks, Checkpointed, CheckpointName, Slots
<1> QED BY <1>1, <1>2

LEMMA CachedType ==
  ASSUME TypeInv, NEW e \in Executors,
         \/ AtOp(e, "step") \/ AtOp(e, "begin") \/ AtOp(e, "complete") \/ AtOp(e, "sleep")
         \/ AtOp(e, "event") \/ AtOp(e, "result")
  PROVE  /\ Slot(e) \in Slots
         /\ Cached(e) \in States \cup {Null, NoState}
<1>1. Slot(e) \in Slots
  BY OpenerAsks DEF AtOp, Slot, Asks, Checkpointed
<1> QED BY <1>1 DEF TypeInv, TypeOK, StoreTypeOK, ContextTypeOK, Cached

LEMMA LooksUpOp ==
  ASSUME TypeInv, NEW e \in Executors, LooksUp(e)
  PROVE  /\ phase[e] # "idle"
         /\ \/ AtOp(e, "step") \/ AtOp(e, "begin") \/ AtOp(e, "sleep")
            \/ AtOp(e, "event") \/ AtOp(e, "result")
BY DEF LooksUp, TypeInv, PhaseOK

LEMMA HeldType ==
  ASSUME TypeInv, NEW e \in Executors
  PROVE  held[e] \in Nat
BY StoreAssumption DEF TypeInv, TypeOK, ContextTypeOK

LEMMA AwaitsEvent ==
  ASSUME TypeInv, NEW e \in Executors, phase[e] = "await"
  PROVE  AtOp(e, "event") /\ pc[e] \in Ops /\ Event(e) \in Events
<1>1. AtOp(e, "event")
  BY DEF TypeInv, PhaseOK
<1> QED BY <1>1, ProgramAssumption DEF AtOp, Ops, Event

LEMMA EventTimeoutType ==
  ASSUME TypeInv, StoreTypeOK', attempts' >= attempts, NEW e \in Executors,
         phase[e] # "idle", AtOp(e, "event"), EventTimeout(e),
         held' = held, wake' \in [Executors -> Events \cup {NoEvent}],
         cache' \in [Executors -> [Slots -> States \cup {Null, NoState}]],
         handles' \in [Executors -> [Ops -> States \cup {Null, NoState}]],
         reported' \in [Executors -> SUBSET Events]
  PROVE  TypeInv'
<1>1. CASE Return(e, "timeout")
  BY <1>1, ReturnType DEF Outcomes, AtOp
<1>2. CASE Raise(e)
  BY <1>2, RaiseType
<1> QED BY <1>1, <1>2 DEF EventTimeout

LEMMA HandlerStepType ==
  ASSUME TypeInv, NEW e \in Executors, HandlerStep(e)
  PROVE  TypeInv'
<1> DEFINE Locals == /\ wake' \in [Executors -> Events \cup {NoEvent}]
                     /\ cache' \in [Executors -> [Slots -> States \cup {Null, NoState}]]
                     /\ handles' \in [Executors -> [Ops -> States \cup {Null, NoState}]]
                     /\ reported' \in [Executors -> SUBSET Events]
<1>h. held[e] \in Nat
  BY HeldType
<1>s. ASSUME UNCHANGED storeVars
      PROVE  StoreTypeOK' /\ attempts' >= attempts
  BY <1>s, StoreAssumption DEF storeVars, TypeInv, TypeOK, StoreTypeOK
<1>k. ASSUME UNCHANGED <<handles, wake, cache, reported>>
      PROVE  Locals
  BY <1>k DEF TypeInv, TypeOK, ContextTypeOK
<1>1. CASE Load(e)
  BY <1>1 DEF Load, TypeInv, TypeOK, StoreTypeOK, ContextTypeOK, PhaseOK, Goto, Phases, AtOp,
              storeVars, States
<1>2. CASE ReadClock(e)
  BY <1>2 DEF ReadClock, TypeInv, TypeOK, StoreTypeOK, ContextTypeOK, PhaseOK, Goto, Phases, AtOp,
              storeVars
<1>3. CASE LookupHit(e)
  <2>1. /\ phase[e] # "idle" /\ pc[e] \in Ops
        /\ Cached(e) \in Outcomes
        /\ held' = held
    BY <1>3, LooksUpOp, CachedType DEF LookupHit, AtOp, Outcomes
  <2>2. Locals
    <3>1. Cached(e) \in States \cup {Null, NoState}
      BY <1>3, LooksUpOp, CachedType DEF LookupHit
    <3>2. handles' \in [Executors -> [Ops -> States \cup {Null, NoState}]]
      BY <1>3, <3>1 DEF LookupHit, TypeInv, TypeOK, ContextTypeOK
    <3> QED BY <1>3, <3>1, <3>2, CacheType DEF LookupHit, TypeInv, TypeOK, ContextTypeOK
  <2>3. StoreTypeOK' /\ attempts' >= attempts
    BY <1>3, <1>s DEF LookupHit
  <2>4. CASE Return(e, Cached(e))
    BY <2>1, <2>2, <2>3, <2>4, ReturnType
  <2>5. CASE AtOp(e, "sleep") /\ Cached(e) \in WakeTimes /\ SleepUntil(e, Cached(e))
    BY <2>1, <2>2, <2>3, <2>5, SleepUntilType
  <2>6. CASE Raise(e)
    BY <2>1, <2>2, <2>3, <2>6, RaiseType
  <2> QED BY <1>3, <2>4, <2>5, <2>6 DEF LookupHit
<1>4. CASE Compute(e)
  <2>1. AtOp(e, "step") \/ AtOp(e, "sleep")
    BY <1>4, LooksUpOp DEF Compute
  <2>2. AtOp(e, "step") => ~AtOp(e, "sleep")
    BY DEF AtOp
  <2>3. phase[e] # "idle"
    BY <1>4, LooksUpOp DEF Compute
  <2>4. PICK v \in IF AtOp(e, "sleep") THEN WakeTimes ELSE Values :
          value' = [value EXCEPT ![e] = v]
    BY <1>4 DEF Compute
  <2> QED BY <1>4, <2>1, <2>2, <2>3, <2>4
          DEF Compute, TypeInv, TypeOK, StoreTypeOK, ContextTypeOK, PhaseOK, Goto, Phases, AtOp,
              storeVars, States
<1>5. CASE BeginAwait(e)
  <2>1. phase[e] # "idle" /\ AtOp(e, "event") /\ Event(e) \in Events
    BY <1>5, LooksUpOp, ProgramAssumption DEF BeginAwait, AtOp, Ops, Event
  <2>2. CASE wake[e] = Event(e)
    <3>1. /\ wake' = [wake EXCEPT ![e] = NoEvent]
          /\ reported' = [reported EXCEPT ![e] = @ \cup {Event(e)}]
          /\ UNCHANGED <<cache, handles>>
      BY <1>5, <2>2 DEF BeginAwait
    <3>3. Locals
      BY <2>1, <3>1 DEF TypeInv, TypeOK, ContextTypeOK
    <3>2. EventTimeout(e) /\ held' = held /\ UNCHANGED storeVars
      BY <1>5, <2>2 DEF BeginAwait
    <3> QED BY <2>1, <3>2, <3>3, <1>s, EventTimeoutType
  <2>3. CASE wake[e] # Event(e)
    <3>1. /\ Goto(e, "await")
          /\ UNCHANGED <<held, handles, wake, pc, cache, reported, now, value, returned>>
          /\ UNCHANGED storeVars
      BY <1>5, <2>3 DEF BeginAwait
    <3>2. ContextTypeOK'
      BY <3>1 DEF TypeInv, TypeOK, ContextTypeOK, Goto, Phases
    <3>3. PhaseOK'
      <4>1. \A f \in Executors : phase'[f] = IF f = e THEN "await" ELSE phase[f]
        BY <3>1 DEF Goto, TypeInv, TypeOK, ContextTypeOK
      <4>2. \A f \in Executors : \A k : AtOp(f, k)' = AtOp(f, k)
        BY <3>1 DEF AtOp
      <4>3. held' = held /\ value' = value /\ attempts' = attempts
        BY <3>1 DEF storeVars
      <4> QED BY <2>1, <4>1, <4>2, <4>3 DEF TypeInv, PhaseOK
    <3> QED BY <1>s, <3>1, <3>2, <3>3 DEF TypeInv, TypeOK
  <2> QED BY <2>2, <2>3
<1>6. CASE Persist(e)
  <2>1. \/ (AtOp(e, "step") \/ AtOp(e, "complete") \/ AtOp(e, "result")) /\ value[e] \in Values
        \/ AtOp(e, "sleep") /\ value[e] \in WakeTimes
    BY <1>6 DEF Persist, TypeInv, PhaseOK
  <2>2. value[e] \in States /\ phase[e] # "idle" /\ held' = held
    BY <1>6, <2>1 DEF Persist, States
  <2>3. StoreTypeOK' /\ attempts' >= attempts
    BY <1>6, <2>1, <2>2, CachedType, CheckpointType DEF Persist, TypeInv, TypeOK
  <2>4. Locals
    BY <1>6, <2>2, CacheType DEF Persist, TypeInv, TypeOK, ContextTypeOK
  <2>5. CASE AtOp(e, "sleep")
    <3>1. SleepUntil(e, value[e]) /\ value[e] \in WakeTimes
      BY <1>6, <2>1, <2>5 DEF Persist, AtOp
    <3> QED BY <2>2, <2>3, <2>4, <2>5, <3>1, SleepUntilType
  <2>6. CASE ~AtOp(e, "sleep")
    <3>1. Return(e, value[e]) /\ value[e] \in Outcomes /\ pc[e] \in Ops
      BY <1>6, <2>1, <2>2, <2>6 DEF Persist, Outcomes, AtOp
    <3> QED BY <2>2, <2>3, <2>4, <3>1, ReturnType
  <2> QED BY <2>5, <2>6
<1>7. CASE AwaitPayload(e)
  <2>1. AtOp(e, "event") /\ pc[e] \in Ops /\ Event(e) \in Events /\ phase[e] # "idle"
    BY <1>7, AwaitsEvent DEF AwaitPayload
  <2>2. emitted[Event(e)] \in States
    BY <1>7, <2>1 DEF AwaitPayload, EventPayload, TypeInv, TypeOK, StoreTypeOK, States
  <2>3. StoreTypeOK' /\ attempts' >= attempts
    BY <1>7, <2>1, CachedType, AwaitType DEF AwaitPayload, TypeInv, TypeOK
  <2>4. Locals
    BY <1>7, <2>2, CacheType DEF AwaitPayload, TypeInv, TypeOK, ContextTypeOK
  <2>5. Return(e, emitted[Event(e)]) /\ emitted[Event(e)] \in Outcomes /\ held' = held
    BY <1>7, <2>2 DEF AwaitPayload, Outcomes
  <2> QED BY <2>1, <2>3, <2>4, <2>5, ReturnType
<1>8. CASE AwaitTimedOut(e)
  <2>1. AtOp(e, "event") /\ pc[e] \in Ops /\ Event(e) \in Events /\ phase[e] # "idle"
    BY <1>8, AwaitsEvent DEF AwaitTimedOut
  <2>2. StoreTypeOK' /\ attempts' >= attempts
    BY <1>8, <2>1, CachedType, AwaitType DEF AwaitTimedOut, TypeInv, TypeOK
  <2>3. held' = held
    BY <1>8 DEF AwaitTimedOut
  <2>4. CASE Event(e) \in reported[e]
    <3>1. Remember(e, Null) /\ Return(e, Null) /\ Null \in Outcomes
      BY <1>8, <2>4 DEF AwaitTimedOut, Outcomes
    <3>2. Locals
      BY <1>8, <3>1, CacheType DEF AwaitTimedOut, TypeInv, TypeOK, ContextTypeOK
    <3> QED BY <2>1, <2>2, <2>3, <3>1, <3>2, ReturnType
  <2>5. CASE Event(e) \notin reported[e]
    <3>1. EventTimeout(e) /\ Locals
      BY <1>8, <2>5 DEF AwaitTimedOut, TypeInv, TypeOK, ContextTypeOK
    <3> QED BY <2>1, <2>2, <2>3, <3>1, EventTimeoutType
  <2> QED BY <2>4, <2>5
<1>9. CASE AwaitSuspended(e)
  <2>1. StoreTypeOK' /\ attempts' >= attempts
    BY <1>9, AwaitsEvent, CachedType, AwaitType DEF AwaitSuspended, TypeInv, TypeOK
  <2> QED BY <1>9, <2>1, StopType DEF AwaitSuspended
<1>10. CASE ScheduleRun(e)
  <2>1. value[e] \in WakeTimes
    BY <1>10 DEF ScheduleRun, TypeInv, PhaseOK
  <2>2. StoreTypeOK' /\ attempts' >= attempts
    BY <1>10, <2>1, ScheduleType DEF ScheduleRun, TypeInv, TypeOK
  <2> QED BY <1>10, <2>2, StopType DEF ScheduleRun
<1>11. CASE Emit(e)
  <2>1. pc[e] \in Ops /\ Event(e) \in Events /\ Program[pc[e]].kind = "emit" /\ phase[e] = "body"
    BY <1>11, ProgramAssumption DEF Emit, AtOp, Ops, Event
  <2>2. StoreTypeOK' /\ attempts' >= attempts
    BY <1>11, <2>1, EmitType DEF Emit, TypeInv, TypeOK
  <2> QED BY <1>11, <2>1, <2>2, ProgramAssumption, StoreAssumption
          DEF Emit, TypeInv, TypeOK, StoreTypeOK, ContextTypeOK, PhaseOK, AtOp, Ops
<1>12. CASE Heartbeat(e)
  BY <1>12, ProgramAssumption
     DEF Heartbeat, TypeInv, TypeOK, StoreTypeOK, ContextTypeOK, PhaseOK, AtOp, Ops, storeVars
<1>13. CASE Refused(e)
  <2>1. StoreTypeOK' /\ attempts' >= attempts /\ phase[e] # "idle"
    BY <1>13, <1>s DEF Refused, Fenced
  <2>2. CASE Stop(e)
    BY <2>1, <2>2, StopType
  <2>3. CASE Raise(e) /\ UNCHANGED <<held, handles, wake, cache, reported>>
    BY <2>1, <2>3, <1>k, RaiseType
  <2> QED BY <1>13, <2>2, <2>3 DEF Refused
<1>15. CASE BeginWait(e)
  BY <1>15, LooksUpOp
     DEF BeginWait, TypeInv, TypeOK, StoreTypeOK, ContextTypeOK, PhaseOK, Goto, Phases, AtOp,
         storeVars
<1>16. CASE ResultArrives(e)
  BY <1>16, StoreAssumption
     DEF ResultArrives, TypeInv, TypeOK, StoreTypeOK, ContextTypeOK, PhaseOK, Goto, Phases, AtOp,
         storeVars, States
<1>17. CASE BeginStep(e)
  <2>1. pc[e] \in Ops /\ phase[e] = "body"
    BY <1>17, LooksUpOp DEF BeginStep, LooksUp, TypeInv, PhaseOK, AtOp
  <2> QED BY <1>17, <2>1, ProgramAssumption
          DEF BeginStep, TypeInv, TypeOK, StoreTypeOK, ContextTypeOK, PhaseOK, AtOp, Ops, storeVars
<1>18. CASE CompleteStep(e)
  <2>1. pc[e] \in Ops /\ AtOp(e, "complete") /\ phase[e] # "idle" /\ Program[pc[e]].of \in Ops
    BY <1>18, ProgramAssumption DEF CompleteStep, AtOp, Ops
  <2>2. Handle(e) \in States \cup {Null, NoState}
    BY <2>1 DEF Handle, TypeInv, TypeOK, ContextTypeOK
  <2>3. CASE Handle(e) # NoState
    <3>1. Return(e, Handle(e)) /\ Handle(e) \in Outcomes
      BY <1>18, <2>2, <2>3 DEF CompleteStep, Outcomes
    <3>2. Locals /\ held' = held
      BY <1>18, <1>k DEF CompleteStep
    <3>3. StoreTypeOK' /\ attempts' >= attempts
      BY <1>18, <1>s DEF CompleteStep
    <3> QED BY <2>1, <3>1, <3>2, <3>3, ReturnType
  <2>4. CASE Handle(e) = NoState
    <3>1. PICK v \in Values : value' = [value EXCEPT ![e] = v]
      BY <1>18, <2>4 DEF CompleteStep
    <3>2. /\ phase' = [phase EXCEPT ![e] = "persist"]
          /\ UNCHANGED <<held, wake, pc, cache, handles, reported, now, returned, storeVars>>
      BY <1>18, <2>4 DEF CompleteStep, Goto
    <3>3. TypeOK'
      BY <3>1, <3>2 DEF TypeInv, TypeOK, StoreTypeOK, ContextTypeOK, Phases, storeVars, States
    <3>4. PhaseOK'
      BY <2>1, <3>1, <3>2, <3>3 DEF TypeInv, TypeOK, ContextTypeOK, PhaseOK, AtOp, storeVars
    <3> QED BY <3>3, <3>4 DEF TypeInv
  <2> QED BY <2>3, <2>4
<1>14. CASE HandlerReturns(e)
  BY <1>14 DEF HandlerReturns, TypeInv, TypeOK, StoreTypeOK, ContextTypeOK, PhaseOK, Goto, Phases,
               AtOp, storeVars
<1> QED BY <1>1, <1>2, <1>3, <1>4, <1>5, <1>6, <1>7, <1>8, <1>9, <1>10, <1>11, <1>12, <1>13, <1>14,
       <1>15, <1>16, <1>17, <1>18
        DEF HandlerStep

LEMMA HandlerFaultType ==
  ASSUME TypeInv, NEW e \in Executors, HandlerFault(e)
  PROVE  TypeInv'
<1>1. Raise(e) /\ phase[e] # "idle" /\ UNCHANGED <<held, handles, wake, cache, reported>>
  BY DEF HandlerFault, AckLost, HandlerFails, HandlerPhases
<1>2. StoreTypeOK' /\ attempts' >= attempts
  <2>1. CASE HandlerFails(e)
    BY <2>1, StoreAssumption DEF HandlerFails, storeVars, TypeInv, TypeOK, StoreTypeOK
  <2>2. CASE AckLost(e)
    <3>1. StoreTypeOK
      BY DEF TypeInv, TypeOK
    <3>2. CASE phase[e] = "persist" /\ set_task_checkpoint_state(held[e], Slot(e), value[e])
      <4>1. value[e] \in States /\ (\/ AtOp(e, "step") \/ AtOp(e, "complete")
                                 \/ AtOp(e, "result") \/ AtOp(e, "sleep"))
        BY <3>2 DEF TypeInv, PhaseOK, States
      <4> QED BY <3>1, <3>2, <4>1, CachedType, CheckpointType
    <3>3. CASE phase[e] = "schedule" /\ schedule_run(held[e], value[e])
      <4>1. value[e] \in WakeTimes
        BY <3>3 DEF TypeInv, PhaseOK
      <4> QED BY <3>1, <3>3, <4>1, ScheduleType
    <3>4. CASE /\ phase[e] = "await"
               /\ \/ EventPayload(held[e], Slot(e), Event(e))
                  \/ EventTimedOut(held[e], Event(e))
                  \/ EventSuspend(held[e], Event(e), Program[pc[e]].timeout # "none")
      BY <3>1, <3>4, AwaitsEvent, CachedType, AwaitType
    <3>5. ASSUME AtOp(e, "emit"), NEW v \in Values, emit_event(Event(e), v)
          PROVE  StoreTypeOK' /\ attempts' >= attempts
      <4>1. Event(e) \in Events
        BY <3>5, ProgramAssumption DEF AtOp, Ops, Event
      <4> QED BY <3>1, <3>5, <4>1, EmitType
    <3> QED BY <2>2, <3>2, <3>3, <3>4, <3>5 DEF AckLost
  <2> QED BY <2>1, <2>2 DEF HandlerFault
<1> QED BY <1>1, <1>2, RaiseType DEF TypeInv, TypeOK, ContextTypeOK

LEMMA NextTypeInv == TypeInv /\ [Next]_vars => TypeInv'
<1> SUFFICES ASSUME TypeInv, [Next]_vars PROVE TypeInv'
  OBVIOUS
<1>1. ASSUME NEW e \in Executors, Claim(e) PROVE TypeInv'
  <2>1. StoreTypeOK'
    BY <1>1, StoreAssumption DEF Claim, claim_task, TypeInv, TypeOK, StoreTypeOK, Run, RunStates
  <2>2. ContextTypeOK'
    BY <1>1, StoreAssumption
       DEF Claim, claim_task, TypeInv, TypeOK, StoreTypeOK, ContextTypeOK, Goto, Phases
  <2>3. PhaseOK'
    BY <1>1, StoreAssumption
       DEF Claim, claim_task, TypeInv, TypeOK, StoreTypeOK, ContextTypeOK, PhaseOK, Goto, AtOp
  <2> QED BY <2>1, <2>2, <2>3 DEF TypeInv, TypeOK
<1>2. ASSUME NEW e \in Executors, Dispatch(e) PROVE TypeInv'
  <2>1. PICK p \in {"loading", "failing", "deferring"} : Goto(e, p)
    BY <1>2 DEF Dispatch
  <2>2. TypeOK'
    BY <1>2, <2>1 DEF Dispatch, TypeInv, TypeOK, StoreTypeOK, ContextTypeOK, Goto, Phases, storeVars
  <2>3. PhaseOK'
    BY <1>2, <2>1 DEF Dispatch, TypeInv, TypeOK, ContextTypeOK, PhaseOK, Goto, AtOp, storeVars
  <2> QED BY <2>2, <2>3 DEF TypeInv
<1>3. ASSUME NEW e \in Executors, Complete(e) \/ Fail(e) \/ Defer(e) \/ Crash(e) PROVE TypeInv'
  <2>1. StoreTypeOK /\ held[e] \in Nat
    BY HeldType DEF TypeInv, TypeOK
  <2>2. StoreTypeOK' /\ attempts' >= attempts
    <3>1. CASE UNCHANGED storeVars
      BY <2>1, <3>1, StoreAssumption DEF storeVars, StoreTypeOK
    <3>2. CASE complete_run(held[e])
      BY <2>1, <3>2, StoreAssumption DEF complete_run, StoreTypeOK, Run, Ended, RunStates
    <3>3. CASE fail_run(held[e])
      BY <2>1, <3>3, FailOrRetryType DEF fail_run
    <3>4. CASE schedule_run(held[e], Later)
      BY <2>1, <3>4, ScheduleType
    <3> QED BY <1>3, <3>1, <3>2, <3>3, <3>4 DEF Complete, Fail, Defer, Crash
  <2>3. Stop(e)
    BY <1>3 DEF Complete, Fail, Defer, Crash
  <2> QED BY <2>2, <2>3, StopType
<1>4. CASE Environment /\ UNCHANGED contextVars
  <2>1. StoreTypeOK' /\ attempts' >= attempts
    BY <1>4, EnvironmentType DEF TypeInv, TypeOK
  <2> QED BY <1>4, <2>1, StoreAssumption
          DEF contextVars, TypeInv, TypeOK, StoreTypeOK, ContextTypeOK, PhaseOK, AtOp
<1>5. CASE UNCHANGED vars
  BY <1>5 DEF vars, storeVars, contextVars, TypeInv, TypeOK, StoreTypeOK, ContextTypeOK, PhaseOK,
              AtOp
<1> QED BY <1>1, <1>2, <1>3, <1>4, <1>5, HandlerStepType, HandlerFaultType DEF Next, Execute

(* Every variable keeps its type, whatever the handler, the number of      *)
(* executions and the faults: no operation leaves the data it is made for. *)
THEOREM TypeCorrect == Spec => []TypeOK
<1>1. Spec => []TypeInv
  BY InitTypeInv, NextTypeInv, PTL DEF Spec
<1>2. TypeInv => TypeOK
  BY DEF TypeInv
<1> QED BY <1>1, <1>2, PTL

-----------------------------------------------------------------------------
(***************************************************************************)
(* Ownership: who may act on a run.  At most one execution, and none while *)
(* the run can be claimed.  When the acknowledgement of a suspension is    *)
(* lost, the handler ends with an error in a run that can be claimed again,*)
(* and that error is still to be reported; such an execution does not      *)
(* count as busy with the run.                                             *)
(***************************************************************************)
Open == {"pending", "sleeping"}

Active == Phases \ {"idle", "failing"}

Busy(e) == phase[e] \in Active \/ (~AckLoss /\ phase[e] = "failing")

OwnInv ==
  /\ \A e, f \in Executors : e # f /\ Busy(e) /\ Busy(f) => held[e] # held[f]
  /\ run.state \in Open => \A e \in Executors : Busy(e) => held[e] < attempts

(* No run becomes claimable, and no run is replaced. *)
Quiet == attempts' = attempts /\ (run'.state \in Open => run.state \in Open)

Others(e) == \A f \in Executors \ {e} : phase'[f] = phase[f] /\ held'[f] = held[f]

(* Execution e moves on in the run it holds. *)
GoesOn(e) == phase[e] \in Active /\ Others(e) /\ held' = held

(* Execution e is done with the run it holds. *)
Leaves(e) == ~Busy(e)' /\ Others(e)

LEMMA InitOwnInv == Init => OwnInv
BY DEF Init, ContextInit, OwnInv, Busy, Active

LEMMA BusyHeld ==
  ASSUME TypeInv
  PROVE  /\ \A f \in Executors : Busy(f) => held[f] \in 1..attempts
         /\ attempts \in Nat
BY StoreAssumption DEF Busy, Active, TypeInv, TypeOK, StoreTypeOK, PhaseOK

LEMMA GoesOnOwn ==
  ASSUME TypeInv, OwnInv, NEW e \in Executors, GoesOn(e), Quiet
  PROVE  OwnInv'
<1>1. \A f \in Executors : Busy(f)' => Busy(f) /\ held'[f] = held[f]
  BY DEF GoesOn, Others, Busy
<1> QED BY <1>1 DEF OwnInv, Quiet, Open

LEMMA LeavesOwn ==
  ASSUME TypeInv, OwnInv, NEW e \in Executors, Leaves(e),
         \/ Quiet
         \/ attempts' = attempts /\ held[e] = attempts /\ Busy(e)
         \/ attempts' = attempts + 1
  PROVE  OwnInv'
<1>1. \A f \in Executors : Busy(f)' =>
        f # e /\ Busy(f) /\ held'[f] = held[f] /\ held[f] \in 1..attempts
  BY BusyHeld DEF Leaves, Others, Busy
<1>2. \A f, g \in Executors : f # g /\ Busy(f)' /\ Busy(g)' => held'[f] # held'[g]
  BY <1>1 DEF OwnInv
<1>3. ASSUME run'.state \in Open, NEW f \in Executors, Busy(f)'
      PROVE  held'[f] < attempts'
  <2>1. f # e /\ Busy(f) /\ held'[f] = held[f] /\ held[f] \in 1..attempts /\ attempts \in Nat
    BY <1>1, <1>3, BusyHeld
  <2>2. CASE Quiet
    BY <1>3, <2>1, <2>2 DEF Quiet, OwnInv
  <2>3. CASE attempts' = attempts /\ held[e] = attempts /\ Busy(e)
    <3>1. held[f] # held[e]
      BY <2>1, <2>3 DEF OwnInv
    <3> QED BY <2>1, <2>3, <3>1
  <2>4. CASE attempts' = attempts + 1
    BY <2>1, <2>4
  <2> QED BY <2>2, <2>3, <2>4
<1> QED BY <1>2, <1>3 DEF OwnInv

LEMMA StopLeaves ==
  ASSUME TypeInv, NEW e \in Executors, Stop(e)
  PROVE  Leaves(e)
BY DEF Stop, Goto, Leaves, Others, Busy, Active, TypeInv, TypeOK, ContextTypeOK

(* An error whose call has taken effect. *)
LEMMA RaiseLeaves ==
  ASSUME AckLoss, TypeInv, NEW e \in Executors, Raise(e), held' = held
  PROVE  Leaves(e)
BY DEF Raise, Goto, Leaves, Others, Busy, Active, TypeInv, TypeOK, ContextTypeOK

(* A call the database accepts comes from the holder of the last run. *)
LEMMA RunningIsLast ==
  ASSUME NEW r, Running(r)
  PROVE  r = attempts /\ run.state = "running"
BY DEF Running, RunState

LEMMA StoreQuiet == UNCHANGED storeVars => Quiet
BY DEF storeVars, Quiet

LEMMA RetryQuiet ==
  ASSUME StoreTypeOK, FailOrRetry
  PROVE  Quiet \/ attempts' = attempts + 1
BY DEF FailOrRetry, Quiet, Open, Ended, Run

LEMMA GotoGoesOn ==
  ASSUME TypeInv, NEW e \in Executors, NEW p, Goto(e, p), phase[e] \in Active, held' = held
  PROVE  GoesOn(e)
BY DEF TypeInv, TypeOK, ContextTypeOK, Goto, GoesOn, Others

LEMMA CallGoesOn ==
  ASSUME TypeInv, NEW e \in Executors, NEW x, phase[e] \in Active, held' = held,
         \/ Return(e, x) \/ Raise(e) \/ EventTimeout(e) \/ SleepUntil(e, x)
  PROVE  GoesOn(e)
<1>1. \/ Goto(e, "body") \/ Goto(e, "failing") \/ Goto(e, "schedule")
  BY DEF Return, Raise, EventTimeout, SleepUntil
<1> QED BY <1>1, GotoGoesOn

LEMMA HandlerStepOwn ==
  ASSUME TypeInv, OwnInv, NEW e \in Executors, HandlerStep(e)
  PROVE  OwnInv'
<1>1. CASE \/ Load(e) \/ ReadClock(e) \/ Compute(e) \/ HandlerReturns(e)
           \/ BeginWait(e) \/ ResultArrives(e)
  <2>1. /\ \E p \in Phases : Goto(e, p)
        /\ held' = held /\ UNCHANGED storeVars
        /\ phase[e] \in Active
    BY <1>1
       DEF Active, LooksUp, Load, ReadClock, Compute, HandlerReturns, BeginWait, ResultArrives, Phases
  <2> QED BY <2>1, GotoGoesOn, GoesOnOwn, StoreQuiet
<1>2. CASE LookupHit(e)
  <2>1. /\ phase[e] \in Active /\ held' = held /\ UNCHANGED storeVars
        /\ Return(e, Cached(e)) \/ SleepUntil(e, Cached(e)) \/ Raise(e)
    BY <1>2 DEF LookupHit, LooksUp, Active, Phases
  <2> QED BY <2>1, CallGoesOn, GoesOnOwn, StoreQuiet
<1>3. CASE BeginAwait(e)
  <2>1. phase[e] \in Active /\ held' = held /\ UNCHANGED storeVars
    BY <1>3 DEF BeginAwait, LooksUp, Active, Phases
  <2>2. EventTimeout(e) \/ Goto(e, "await")
    BY <1>3 DEF BeginAwait
  <2>3. GoesOn(e)
    BY <2>1, <2>2, CallGoesOn, GotoGoesOn DEF Phases
  <2> QED BY <2>1, <2>3, GoesOnOwn, StoreQuiet
<1>4. CASE Persist(e)
  <2>1. /\ phase[e] \in Active /\ held' = held
        /\ SleepUntil(e, value[e]) \/ Return(e, value[e])
    BY <1>4 DEF Persist, Active, Phases
  <2>2. Quiet
    BY <1>4 DEF Persist, set_task_checkpoint_state, Quiet
  <2> QED BY <2>1, <2>2, CallGoesOn, GoesOnOwn
<1>5. CASE AwaitPayload(e)
  <2>1. phase[e] \in Active /\ held' = held /\ Return(e, emitted[Event(e)])
    BY <1>5 DEF AwaitPayload, Active, Phases
  <2>2. Quiet
    BY <1>5 DEF AwaitPayload, EventPayload, Quiet, Unwaited, Run
  <2> QED BY <2>1, <2>2, CallGoesOn, GoesOnOwn
<1>6. CASE AwaitTimedOut(e)
  <2>1. /\ phase[e] \in Active /\ held' = held
        /\ Return(e, Null) \/ EventTimeout(e)
    BY <1>6 DEF AwaitTimedOut, Active, Phases
  <2>2. Quiet
    BY <1>6 DEF AwaitTimedOut, EventTimedOut, Quiet, Unwaited, Run
  <2> QED BY <2>1, <2>2, CallGoesOn, GoesOnOwn
<1>7. CASE AwaitSuspended(e)
  <2>1. phase[e] \in Active /\ Stop(e) /\ attempts' = attempts /\ held[e] = attempts
    BY <1>7, RunningIsLast DEF AwaitSuspended, EventSuspend, Active, Phases
  <2> QED BY <2>1, StopLeaves, LeavesOwn DEF Busy
<1>8. CASE ScheduleRun(e)
  <2>1. phase[e] \in Active /\ Stop(e) /\ attempts' = attempts /\ held[e] = attempts
    BY <1>8, RunningIsLast DEF ScheduleRun, schedule_run, Active, Phases
  <2> QED BY <2>1, StopLeaves, LeavesOwn DEF Busy
<1>9. CASE Emit(e) \/ Heartbeat(e) \/ BeginStep(e)
  <2>1. GoesOn(e)
    BY <1>9, LooksUpOp DEF Emit, Heartbeat, BeginStep, LooksUp, GoesOn, Others, Active, Phases
  <2>2. Quiet
    BY <1>9, StoreQuiet DEF Emit, Heartbeat, BeginStep, emit_event, Quiet, Open
  <2> QED BY <2>1, <2>2, GoesOnOwn
<1>11. CASE CompleteStep(e)
  <2>1. /\ phase[e] \in Active /\ held' = held /\ UNCHANGED storeVars
        /\ Return(e, Handle(e)) \/ Goto(e, "persist")
    BY <1>11 DEF CompleteStep, Active, Phases
  <2>2. GoesOn(e)
    BY <2>1, CallGoesOn, GotoGoesOn
  <2> QED BY <2>1, <2>2, GoesOnOwn, StoreQuiet
<1>10. CASE Refused(e)
  <2>1. phase[e] \in Active /\ Quiet
    BY <1>10, StoreQuiet DEF Refused, Fenced, Active, Phases
  <2>2. Stop(e) \/ (Raise(e) /\ held' = held)
    BY <1>10 DEF Refused
  <2> QED BY <2>1, <2>2, StopLeaves, LeavesOwn, CallGoesOn, GoesOnOwn
<1> QED BY <1>1, <1>2, <1>3, <1>4, <1>5, <1>6, <1>7, <1>8, <1>9, <1>10, <1>11 DEF HandlerStep

(* A call that takes effect and fails: the handler ends. *)
LEMMA AckLostOwn ==
  ASSUME TypeInv, OwnInv, NEW e \in Executors, AckLost(e)
  PROVE  OwnInv'
<1>1. phase[e] \in Active /\ AckLoss /\ Leaves(e)
  BY RaiseLeaves DEF AckLost, Active, Phases
<1>2. \/ Quiet
      \/ attempts' = attempts /\ held[e] = attempts
  <2>1. CASE set_task_checkpoint_state(held[e], Slot(e), value[e])
    BY <2>1 DEF set_task_checkpoint_state, Quiet
  <2>2. CASE schedule_run(held[e], value[e])
    BY <2>2, RunningIsLast DEF schedule_run
  <2>3. CASE \E v \in Values : emit_event(Event(e), v)
    BY <2>3 DEF emit_event, Quiet, Open
  <2>4. CASE EventPayload(held[e], Slot(e), Event(e)) \/ EventTimedOut(held[e], Event(e))
    BY <2>4 DEF EventPayload, EventTimedOut, Quiet, Unwaited, Run
  <2>5. CASE EventSuspend(held[e], Event(e), Program[pc[e]].timeout # "none")
    BY <2>5, RunningIsLast DEF EventSuspend
  <2> QED BY <2>1, <2>2, <2>3, <2>4, <2>5 DEF AckLost
<1> QED BY <1>1, <1>2, LeavesOwn DEF Busy

LEMMA NextOwnInv ==
  ASSUME TypeInv, OwnInv, [Next]_vars
  PROVE  OwnInv'
<1>1. ASSUME NEW e \in Executors, Claim(e) PROVE OwnInv'
  <2>1. /\ run.state \in Open /\ run'.state = "running" /\ attempts' = attempts
        /\ held'[e] = attempts /\ Others(e)
    BY <1>1 DEF Claim, claim_task, Open, Run, Goto, Others, TypeInv, TypeOK, ContextTypeOK
  <2>2. \A f \in Executors : Busy(f) => held[f] < attempts /\ held[f] \in Nat
    BY <2>1, HeldType DEF OwnInv
  <2>3. \A f \in Executors \ {e} : Busy(f)' => Busy(f) /\ held'[f] = held[f]
    BY <2>1 DEF Others, Busy
  <2> QED BY <2>1, <2>2, <2>3, BusyHeld DEF OwnInv, Open
<1>2. ASSUME NEW e \in Executors, Dispatch(e) PROVE OwnInv'
  <2>1. /\ \E p \in Phases : Goto(e, p)
        /\ held' = held /\ UNCHANGED storeVars /\ phase[e] \in Active
    BY <1>2, ExecutionAssumption DEF Dispatch, Active, Phases
  <2> QED BY <2>1, GotoGoesOn, GoesOnOwn, StoreQuiet
<1>3. ASSUME NEW e \in Executors, HandlerFails(e) PROVE OwnInv'
  <2>1. phase[e] \in Active /\ held' = held /\ UNCHANGED storeVars /\ Raise(e)
    BY <1>3 DEF HandlerFails, HandlerPhases, Active, Phases
  <2> QED BY <2>1, CallGoesOn, GoesOnOwn, StoreQuiet
<1>4. ASSUME NEW e \in Executors, Complete(e) \/ Fail(e) \/ Defer(e) \/ Crash(e) PROVE OwnInv'
  <2>1. Leaves(e)
    BY <1>4, StopLeaves DEF Complete, Fail, Defer, Crash
  <2>2. CASE UNCHANGED storeVars
    BY <2>1, <2>2, StoreQuiet, LeavesOwn
  <2>3. CASE complete_run(held[e])
    <3>1. Quiet
      BY <2>3 DEF complete_run, Quiet, Open, Ended, Run
    <3> QED BY <2>1, <3>1, LeavesOwn
  <2>4. CASE fail_run(held[e])
    BY <2>1, <2>4, RetryQuiet, LeavesOwn DEF fail_run, TypeInv, TypeOK
  <2>5. CASE Defer(e) /\ schedule_run(held[e], Later)
    <3>1. attempts' = attempts /\ held[e] = attempts /\ phase[e] \in Active
      BY <2>5, RunningIsLast DEF schedule_run, Defer, Active, Phases
    <3> QED BY <2>1, <3>1, LeavesOwn DEF Busy
  <2> QED BY <1>4, <2>2, <2>3, <2>4, <2>5 DEF Complete, Fail, Defer, Crash
<1>5. CASE Environment /\ UNCHANGED contextVars
  <2>1. Quiet \/ attempts' = attempts + 1
    BY <1>5, RetryQuiet
       DEF Environment, EmitEvent, emit_event, CancelTask, RetryTask, ExpireClaim, TimePasses,
           DelayEnds, Quiet, Open, Ended, Run, TypeInv, TypeOK
  <2>2. \A f \in Executors : Busy(f)' => Busy(f) /\ held'[f] = held[f] /\ held[f] \in 1..attempts
    BY <1>5, BusyHeld DEF contextVars, Busy
  <2> QED BY <2>1, <2>2, BusyHeld DEF OwnInv, Quiet, Open
<1>6. CASE UNCHANGED vars
  BY <1>6 DEF vars, storeVars, contextVars, OwnInv, Busy
<1> QED BY <1>1, <1>2, <1>3, <1>4, <1>5, <1>6, HandlerStepOwn, AckLostOwn
        DEF Next, Execute, HandlerFault

LEMMA SpecOwnInv == Spec => [](TypeInv /\ OwnInv)
<1>1. Init => TypeInv /\ OwnInv
  BY InitTypeInv, InitOwnInv
<1>2. TypeInv /\ OwnInv /\ [Next]_vars => TypeInv' /\ OwnInv'
  BY NextTypeInv, NextOwnInv
<1> QED BY <1>1, <1>2, PTL DEF Spec

(* A run never has two executions, however leases expire, tasks are        *)
(* cancelled or retried, processes die and executions that lost their run  *)
(* go on.                                                                  *)
THEOREM RunsAreExclusive == ~AckLoss => (Spec => []ExclusiveRun)
<1> SUFFICES ASSUME ~AckLoss PROVE Spec => []ExclusiveRun
  OBVIOUS
<1>1. TypeInv /\ OwnInv => ExclusiveRun
  BY DEF OwnInv, Busy, Active, ExclusiveRun, TypeInv, TypeOK, ContextTypeOK
<1> QED BY <1>1, SpecOwnInv, PTL

(* When a run waits to be claimed nobody is left in it: what suspends it,  *)
(* the SDK or an expired lease that starts another one, leaves it.         *)
THEOREM SuspendedRunsAreLeft == ~AckLoss => (Spec => []SuspendedIsLeft)
<1> SUFFICES ASSUME ~AckLoss PROVE Spec => []SuspendedIsLeft
  OBVIOUS
<1>1. TypeInv /\ OwnInv => SuspendedIsLeft
  BY DEF OwnInv, Busy, Active, Open, SuspendedIsLeft, TypeInv, TypeOK, ContextTypeOK
<1> QED BY <1>1, SpecOwnInv, PTL

(* A run never has two handlers at work, even when answers of the database *)
(* get lost and a suspended run is left with an error to report.           *)
THEOREM HandlersAreExclusive == Spec => []OneHandlerPerRun
<1>1. TypeInv /\ OwnInv => OneHandlerPerRun
  BY DEF OwnInv, Busy, Active, Phases, HandlerPhases, OneHandlerPerRun
<1> QED BY <1>1, SpecOwnInv, PTL

-----------------------------------------------------------------------------
(***************************************************************************)
(* Checkpoints: what an execution writes is written once.                  *)
(***************************************************************************)
(* The calls that end in the write of a checkpoint. *)
Writing == {"wait", "persist", "await"}

(* An execution is about to write its checkpoint only if there is none,    *)
(* or if it has lost its run and will be refused.                          *)
WriteInv ==
  \A e \in Executors :
    phase[e] \in Writing /\ Running(held[e]) => checkpoint[Slot(e)] = NoState

(* A checkpoint that exists stays, and time does not go back. *)
Monotone ==
  /\ \A s \in Slots : checkpoint[s] # NoState => checkpoint'[s] = checkpoint[s]
  /\ elapsed \subseteq elapsed'

LEMMA InitWriteInv == Init => WriteInv
BY DEF Init, ContextInit, WriteInv, Writing

(* The last run becomes running only when it is claimed, and only a claim  *)
(* changes who has claimed a running run.                                  *)
LEMMA RunStep ==
  ASSUME TypeInv, [Next]_vars
  PROVE  \/ attempts' = attempts + 1
         \/ /\ attempts' = attempts
            /\ run'.state = "running" =>
                 \/ run.state = "running" /\ run'.claimedBy = run.claimedBy
                 \/ \E e \in Executors : Claim(e)
<1> DEFINE Keeps == run'.state = "running" =>
                      run.state = "running" /\ run'.claimedBy = run.claimedBy
<1>s. StoreTypeOK
  BY DEF TypeInv, TypeOK
<1>1. ASSUME NEW e \in Executors, HandlerStep(e) \/ HandlerFault(e)
      PROVE  attempts' = attempts /\ Keeps
  BY <1>1
     DEF HandlerStep, HandlerFault, Load, ReadClock, LookupHit, Compute, BeginStep,
         CompleteStep, BeginAwait, BeginWait, ResultArrives, Persist,
         AwaitPayload, AwaitTimedOut, AwaitSuspended, ScheduleRun, Emit, Heartbeat, Refused,
         HandlerReturns, AckLost, HandlerFails, set_task_checkpoint_state, schedule_run,
         EventPayload, EventTimedOut, EventSuspend, emit_event, storeVars, NewRun, Run, Unwaited
<1>2. ASSUME NEW e \in Executors, Complete(e) \/ Fail(e) \/ Defer(e) \/ Crash(e) \/ Dispatch(e)
      PROVE  \/ attempts' = attempts + 1
             \/ attempts' = attempts /\ Keeps
  BY <1>2
     DEF Complete, Fail, Defer, Crash, Dispatch, complete_run, fail_run, FailOrRetry, schedule_run,
         storeVars, NewRun, Ended, Run
<1>3. CASE Environment
  <2>1. CASE RetryTask \/ ExpireClaim
    BY <2>1 DEF RetryTask, ExpireClaim, FailOrRetry, NewRun, Ended, Run
  <2>2. CASE EmitEvent \/ CancelTask \/ DelayEnds \/ \E w \in WakeTimes : TimePasses(w)
    BY <2>2 DEF EmitEvent, emit_event, CancelTask, TimePasses, DelayEnds, Ended, Run
  <2> QED BY <1>3, <2>1, <2>2 DEF Environment
<1>4. CASE UNCHANGED vars
  BY <1>4 DEF vars, storeVars
<1>5. ASSUME NEW e \in Executors, Claim(e) PROVE attempts' = attempts
  BY <1>5 DEF Claim, claim_task
<1> QED BY <1>1, <1>2, <1>3, <1>4, <1>5 DEF Next, Execute

(* A run an execution has lost does not come back to it. *)
LEMMA NoReturn ==
  ASSUME TypeInv, OwnInv, [Next]_vars, NEW f \in Executors,
         Busy(f), held'[f] = held[f], Running(held[f])'
  PROVE  Running(held[f])
<1>1. held[f] \in 1..attempts /\ attempts \in Nat
  BY BusyHeld
<1>2. held[f] = attempts' /\ run'.state = "running"
  BY DEF Running, RunState
<1>3. attempts' = attempts
  BY <1>1, <1>2, RunStep
<1>4. CASE run.state = "running"
  BY <1>2, <1>3, <1>4 DEF Running, RunState
<1>5. ASSUME NEW e \in Executors, Claim(e) PROVE FALSE
  <2>1. run.state \in {"pending", "sleeping"}
    BY <1>5 DEF Claim, claim_task
  <2>2. held[f] < attempts
    BY <2>1 DEF OwnInv, Open
  <2> QED BY <1>1, <1>2, <1>3, <2>2
<1> QED BY <1>1, <1>2, <1>4, <1>5, RunStep

(* Only the holder of the running run writes; what it writes for an event  *)
(* is the payload.                                                         *)
LEMMA CheckpointStep ==
  ASSUME TypeInv, [Next]_vars
  PROVE  \/ checkpoint' = checkpoint
         \/ \E e \in Executors :
              /\ phase[e] \in Writing /\ phase'[e] \notin Writing
              /\ Running(held[e])
              /\ Slot(e) \in Slots
              /\ \E v \in States :
                   /\ checkpoint' = [checkpoint EXCEPT ![Slot(e)] = v]
                   /\ AtOp(e, "event") => v = emitted[Event(e)]
<1>s. StoreTypeOK
  BY DEF TypeInv, TypeOK
<1>1. ASSUME NEW e \in Executors, Persist(e)
      PROVE  /\ phase[e] = "persist" /\ phase'[e] \in {"body", "schedule"}
             /\ Running(held[e]) /\ Slot(e) \in Slots /\ value[e] \in States
             /\ ~AtOp(e, "event")
             /\ checkpoint' = [checkpoint EXCEPT ![Slot(e)] = value[e]]
  <2>1. /\ phase[e] = "persist" /\ Running(held[e])
        /\ checkpoint' = [checkpoint EXCEPT ![Slot(e)] = value[e]]
        /\ Goto(e, "body") \/ Goto(e, "schedule")
    BY <1>1 DEF Persist, set_task_checkpoint_state, SleepUntil, Return
  <2>2. value[e] \in States /\ Slot(e) \in Slots /\ ~AtOp(e, "event")
    BY <2>1, CachedType DEF TypeInv, PhaseOK, States, AtOp
  <2> QED BY <2>1, <2>2 DEF Goto, TypeInv, TypeOK, ContextTypeOK
<1>2. ASSUME NEW e \in Executors, AwaitPayload(e)
      PROVE  /\ phase[e] = "await" /\ phase'[e] = "body"
             /\ Running(held[e]) /\ Slot(e) \in Slots /\ emitted[Event(e)] \in States
             /\ checkpoint' = [checkpoint EXCEPT ![Slot(e)] = emitted[Event(e)]]
  <2>1. /\ phase[e] = "await" /\ Running(held[e]) /\ emitted[Event(e)] # NoState
        /\ checkpoint' = [checkpoint EXCEPT ![Slot(e)] = emitted[Event(e)]]
        /\ Goto(e, "body")
    BY <1>2 DEF AwaitPayload, EventPayload, Return
  <2>2. emitted[Event(e)] \in States /\ Slot(e) \in Slots
    BY <1>s, <2>1, AwaitsEvent, CachedType DEF StoreTypeOK, States
  <2> QED BY <2>1, <2>2 DEF Goto, TypeInv, TypeOK, ContextTypeOK
<1>7. ASSUME NEW e \in Executors, AckLost(e)
      PROVE  \/ checkpoint' = checkpoint
             \/ /\ phase[e] \in Writing /\ phase'[e] = "failing"
                /\ Running(held[e]) /\ Slot(e) \in Slots
                /\ \E v \in States :
                     /\ checkpoint' = [checkpoint EXCEPT ![Slot(e)] = v]
                     /\ AtOp(e, "event") => v = emitted[Event(e)]
  <2>1. phase'[e] = "failing"
    BY <1>7 DEF AckLost, Raise, Goto, TypeInv, TypeOK, ContextTypeOK
  <2>2. CASE phase[e] = "persist" /\ set_task_checkpoint_state(held[e], Slot(e), value[e])
    <3>1. value[e] \in States /\ Slot(e) \in Slots /\ ~AtOp(e, "event")
      BY <2>2, CachedType DEF TypeInv, PhaseOK, States, AtOp
    <3> QED BY <2>1, <2>2, <3>1 DEF set_task_checkpoint_state, Writing
  <2>3. CASE phase[e] = "await" /\ EventPayload(held[e], Slot(e), Event(e))
    <3>1. emitted[Event(e)] \in States /\ Slot(e) \in Slots
      BY <1>s, <2>3, AwaitsEvent, CachedType DEF StoreTypeOK, States, EventPayload
    <3> QED BY <2>1, <2>3, <3>1 DEF EventPayload, Writing
  <2> QED BY <1>7, <2>2, <2>3
          DEF AckLost, schedule_run, emit_event, EventTimedOut, EventSuspend
<1>3. ASSUME NEW e \in Executors, HandlerStep(e) \/ HandlerFails(e), ~Persist(e), ~AwaitPayload(e)
      PROVE  checkpoint' = checkpoint
  BY <1>3
     DEF HandlerStep, Load, ReadClock, LookupHit, Compute, BeginStep,
         CompleteStep, BeginAwait, BeginWait, ResultArrives,
         AwaitTimedOut, AwaitSuspended, ScheduleRun, Emit, Heartbeat, Refused,
         HandlerReturns, HandlerFails, schedule_run,
         EventTimedOut, EventSuspend, emit_event, storeVars
<1>4. ASSUME NEW e \in Executors,
             Claim(e) \/ Complete(e) \/ Fail(e) \/ Defer(e) \/ Crash(e) \/ Dispatch(e)
      PROVE  checkpoint' = checkpoint
  BY <1>4
     DEF Claim, claim_task, Complete, Fail, Defer, Crash, Dispatch, complete_run, fail_run,
         FailOrRetry, schedule_run, storeVars
<1>5. CASE Environment
  BY <1>5
     DEF Environment, EmitEvent, emit_event, CancelTask, RetryTask, ExpireClaim, TimePasses,
         DelayEnds, FailOrRetry
<1>6. CASE UNCHANGED vars
  BY <1>6 DEF vars, storeVars
<1> QED BY <1>1, <1>2, <1>3, <1>4, <1>5, <1>6, <1>7 DEF Next, Execute, HandlerFault, Writing

(* What the calls of one execution leave of the others. *)
Frame(e) ==
  \A f \in Executors \ {e} :
    /\ phase'[f] = phase[f] /\ held'[f] = held[f] /\ pc'[f] = pc[f]
    /\ cache'[f] = cache[f] /\ reported'[f] = reported[f] /\ now'[f] = now[f]
    /\ handles'[f] = handles[f]

LEMMA HandlerFrame ==
  ASSUME TypeInv, NEW e \in Executors, HandlerStep(e) \/ HandlerFault(e)
  PROVE  Frame(e)
<1>1. CASE \/ Load(e) \/ ReadClock(e) \/ Compute(e) \/ HandlerReturns(e) \/ Emit(e) \/ Heartbeat(e)
           \/ BeginWait(e) \/ ResultArrives(e) \/ BeginStep(e) \/ CompleteStep(e)
  BY <1>1 DEF Load, ReadClock, Compute, BeginWait, ResultArrives, BeginStep, CompleteStep,
              HandlerReturns, Emit, Heartbeat, Return, Goto, Frame, TypeInv, TypeOK, ContextTypeOK
<1>2. CASE LookupHit(e) \/ Persist(e)
  BY <1>2 DEF LookupHit, Persist, Remember, SleepUntil, Return, Raise, Goto, Frame, TypeInv, TypeOK,
              ContextTypeOK
<1>3. CASE BeginAwait(e)
  BY <1>3 DEF BeginAwait, EventTimeout, Return, Raise, Goto, Frame, TypeInv, TypeOK, ContextTypeOK
<1>4. CASE AwaitPayload(e) \/ AwaitTimedOut(e)
  BY <1>4 DEF AwaitPayload, AwaitTimedOut, Remember, EventTimeout, Return, Raise, Goto, Frame,
              TypeInv, TypeOK, ContextTypeOK
<1>5. CASE AwaitSuspended(e) \/ ScheduleRun(e) \/ Refused(e) \/ HandlerFault(e)
  BY <1>5 DEF AwaitSuspended, ScheduleRun, Refused, HandlerFault, AckLost, HandlerFails, Stop, Raise,
              Goto, Frame, TypeInv, TypeOK, ContextTypeOK
<1> QED BY <1>1, <1>2, <1>3, <1>4, <1>5 DEF HandlerStep

LEMMA ExecutionFrame ==
  ASSUME TypeInv, NEW e \in Executors,
         Claim(e) \/ Execute(e) \/ HandlerFault(e) \/ Crash(e)
  PROVE  Frame(e)
<1>1. CASE Claim(e) \/ Dispatch(e)
  BY <1>1, ExecutionAssumption
     DEF Claim, Dispatch, Goto, Frame, TypeInv, TypeOK, ContextTypeOK
<1>2. CASE Complete(e) \/ Fail(e) \/ Defer(e) \/ Crash(e)
  BY <1>2 DEF Complete, Fail, Defer, Crash, Stop, Goto, Frame, TypeInv, TypeOK, ContextTypeOK
<1> QED BY <1>1, <1>2, HandlerFrame DEF Execute

(* An execution that has not reached its handler has made no call. *)
StartInv ==
  \A e \in Executors : phase[e] \in {"idle", "claimed", "loading"} => pc[e] = 1

(* The checkpoint of a handle that is not done is empty until it is        *)
(* completed, or the run is lost.                                          *)
HandleInv ==
  \A e \in Executors, i \in Ops :
    /\ Program[i].kind = "complete" /\ Program[i].of < pc[e] /\ pc[e] <= i
    /\ handles[e][Program[i].of] = NoState
    /\ phase[e] \in HandlerPhases /\ Running(held[e])
    => checkpoint[CheckpointName(i)] = NoState

(* A slot an execution begins to write is empty when it begins. *)
LEMMA BeginsEmpty ==
  ASSUME TypeInv, NEW e \in Executors, Claim(e) \/ Execute(e) \/ HandlerFault(e) \/ Crash(e),
         phase'[e] \in Writing
  PROVE  \/ /\ pc'[e] = pc[e] /\ checkpoint' = checkpoint /\ checkpoint[Slot(e)] = NoState
         \/ /\ pc'[e] = pc[e] /\ held'[e] = held[e] /\ phase[e] \in Writing
         \/ /\ pc'[e] = pc[e] /\ held'[e] = held[e] /\ checkpoint' = checkpoint
            /\ phase[e] = "body" /\ AtOp(e, "complete") /\ Handle(e) = NoState
<1>1. CASE Compute(e) \/ BeginAwait(e) \/ BeginWait(e)
  <2>1. Cached(e) = NoState /\ checkpoint' = checkpoint
    BY <1>1 DEF Compute, BeginAwait, BeginWait, storeVars
  <2>2. checkpoint[Slot(e)] = NoState
    BY <2>1 DEF Cached
  <2>3. pc'[e] = pc[e]
    BY <1>1 DEF Compute, BeginAwait, BeginWait, EventTimeout, Return, Raise, Goto, Writing, TypeInv,
                TypeOK, ContextTypeOK
  <2> QED BY <2>1, <2>2, <2>3
<1>2. CASE Claim(e) \/ Dispatch(e) \/ Complete(e) \/ Fail(e) \/ Defer(e) \/ Crash(e)
  BY <1>2, ExecutionAssumption
     DEF Claim, Dispatch, Complete, Fail, Defer, Crash, Stop, Goto, Writing, TypeInv, TypeOK,
         ContextTypeOK
<1>3. CASE \/ Load(e) \/ ReadClock(e) \/ HandlerReturns(e) \/ Emit(e) \/ Heartbeat(e)
           \/ ResultArrives(e) \/ BeginStep(e)
  BY <1>3, LooksUpOp
     DEF Load, ReadClock, HandlerReturns, Emit, Heartbeat, ResultArrives, BeginStep, LooksUp, Goto,
         Writing, TypeInv, TypeOK, ContextTypeOK
<1>6. CASE CompleteStep(e)
  <2>1. Handle(e) = NoState
    BY <1>6 DEF CompleteStep, Return, Goto, Writing, TypeInv, TypeOK, ContextTypeOK
  <2> QED BY <1>6, <2>1 DEF CompleteStep, storeVars
<1>4. CASE LookupHit(e) \/ Persist(e)
  BY <1>4 DEF LookupHit, Persist, SleepUntil, Return, Raise, Goto, Writing, TypeInv, TypeOK,
              ContextTypeOK
<1>5. CASE AwaitPayload(e) \/ AwaitTimedOut(e) \/ AwaitSuspended(e) \/ ScheduleRun(e) \/ Refused(e)
           \/ HandlerFault(e)
  BY <1>5 DEF AwaitPayload, AwaitTimedOut, AwaitSuspended, ScheduleRun, Refused, HandlerFault,
              AckLost, HandlerFails, EventTimeout, Return, Raise, Stop, Goto, Writing, TypeInv,
              TypeOK, ContextTypeOK
<1> QED BY <1>1, <1>2, <1>3, <1>4, <1>5, <1>6 DEF Execute, HandlerStep

LEMMA NextWriteInv ==
  ASSUME TypeInv, OwnInv, WriteInv, HandleInv, [Next]_vars
  PROVE  WriteInv'
<1> SUFFICES ASSUME NEW f \in Executors, phase'[f] \in Writing, Running(held[f])'
             PROVE  (checkpoint[Slot(f)] = NoState)'
  BY DEF WriteInv
<1>1. ASSUME phase[f] \in Writing, held'[f] = held[f], pc'[f] = pc[f]
      PROVE  (checkpoint[Slot(f)] = NoState)'
  <2>1. Running(held[f]) /\ checkpoint[Slot(f)] = NoState /\ Slot(f)' = Slot(f)
    BY <1>1, NoReturn DEF WriteInv, Writing, Slot, Busy, Active, Phases
  <2>2. CASE checkpoint' = checkpoint
    BY <2>1, <2>2
  <2>3. ASSUME NEW e \in Executors, phase[e] \in Writing,
               phase'[e] \notin Writing, Running(held[e])
        PROVE  FALSE
    <3>1. e # f /\ held[e] = held[f]
      BY <2>1, <2>3, RunningIsLast
    <3> QED BY <1>1, <2>3, <3>1 DEF OwnInv, Writing, Busy, Active, Phases
  <2> QED BY <2>2, <2>3, CheckpointStep
<1>2. CASE UNCHANGED contextVars
  BY <1>1, <1>2 DEF contextVars
<1>3. ASSUME NEW e \in Executors, Claim(e) \/ Execute(e) \/ HandlerFault(e) \/ Crash(e)
      PROVE  (checkpoint[Slot(f)] = NoState)'
  <2>1. CASE e # f
    BY <1>1, <1>3, <2>1, ExecutionFrame DEF Frame
  <2>2. CASE e = f
    <3>1. CASE /\ pc'[f] = pc[f] /\ checkpoint' = checkpoint /\ checkpoint[Slot(f)] = NoState
      BY <3>1 DEF Slot
    <3>2. CASE pc'[f] = pc[f] /\ held'[f] = held[f] /\ phase[f] \in Writing
      BY <1>1, <3>2
    <3>3. CASE /\ pc'[f] = pc[f] /\ held'[f] = held[f] /\ checkpoint' = checkpoint
               /\ phase[f] = "body" /\ AtOp(f, "complete") /\ Handle(f) = NoState
      <4>1. Running(held[f])
        BY <3>3, NoReturn DEF Busy, Active, Phases
      <4>2. pc[f] \in Ops /\ Program[pc[f]].kind = "complete" /\ Program[pc[f]].of < pc[f]
        BY <3>3, ProgramAssumption DEF AtOp, Ops
      <4>3. checkpoint[CheckpointName(pc[f])] = NoState
        BY <3>3, <4>1, <4>2, ProgramAssumption DEF HandleInv, Handle, HandlerPhases, Ops
      <4> QED BY <3>3, <4>3 DEF Slot
    <3> QED BY <1>3, <2>2, <3>1, <3>2, <3>3, BeginsEmpty
  <2> QED BY <2>1, <2>2
<1> QED BY <1>2, <1>3 DEF Next, vars

(* What a call of the handler does to the handles and its place.           *)
LEMMA HandleCases ==
  ASSUME TypeInv, NEW e \in Executors, Claim(e) \/ Execute(e) \/ HandlerFault(e) \/ Crash(e),
         phase'[e] \in HandlerPhases
  PROVE  \/ Load(e)
         \/ /\ phase[e] \in HandlerPhases /\ held' = held
            /\ \/ /\ handles' = handles /\ pc'[e] = pc[e]
                  /\ checkpoint' = checkpoint \/ ~AtOp(e, "complete")
               \/ handles' = handles /\ pc'[e] = pc[e] + 1 /\ ~AtOp(e, "begin")
               \/ /\ AtOp(e, "begin") /\ checkpoint' = checkpoint /\ pc'[e] = pc[e] + 1
                  /\ \/ handles' = handles /\ checkpoint[Slot(e)] = NoState
                     \/ \E x : x # NoState /\ handles' = [handles EXCEPT ![e][pc[e]] = x]
<1> USE DEF TypeInv, TypeOK, ContextTypeOK
<1>1. CASE \/ ReadClock(e) \/ Compute(e) \/ BeginWait(e) \/ ResultArrives(e)
           \/ HandlerReturns(e)
  BY <1>1, LooksUpOp
     DEF ReadClock, Compute, BeginWait, ResultArrives, HandlerReturns, LooksUp, storeVars,
         HandlerPhases
<1>2. CASE Emit(e) \/ Heartbeat(e)
  BY <1>2 DEF Emit, Heartbeat, AtOp, HandlerPhases
<1>3. CASE BeginStep(e)
  <2>1. checkpoint[Slot(e)] = NoState
    BY <1>3 DEF BeginStep, Cached
  <2> QED BY <1>3, <2>1 DEF BeginStep, LooksUp, storeVars, HandlerPhases
<1>4. CASE CompleteStep(e)
  BY <1>4 DEF CompleteStep, Return, Goto, AtOp, storeVars, HandlerPhases
<1>5. CASE LookupHit(e)
  <2>1. phase[e] \in HandlerPhases /\ held' = held /\ checkpoint' = checkpoint
    BY <1>5 DEF LookupHit, LooksUp, HandlerPhases, storeVars
  <2>2. CASE AtOp(e, "begin")
    <3>1. Return(e, Cached(e)) /\ handles' = [handles EXCEPT ![e][pc[e]] = Cached(e)]
      BY <1>5, <2>2 DEF LookupHit, AtOp
    <3> QED BY <1>5, <2>1, <2>2, <3>1 DEF LookupHit, Return
  <2>3. CASE ~AtOp(e, "begin")
    BY <1>5, <2>1, <2>3 DEF LookupHit, SleepUntil, Return, Raise
  <2> QED BY <2>2, <2>3
<1>6. CASE Persist(e)
  <2>1. phase[e] \in HandlerPhases /\ held' = held /\ handles' = handles /\ ~AtOp(e, "begin")
    BY <1>6 DEF Persist, PhaseOK, AtOp, HandlerPhases
  <2>2. CASE AtOp(e, "sleep")
    <3>1. ~AtOp(e, "complete")
      BY <2>2 DEF AtOp
    <3> QED BY <1>6, <2>1, <2>2, <3>1 DEF Persist, SleepUntil, Return
  <2>3. CASE ~AtOp(e, "sleep")
    BY <1>6, <2>1, <2>3 DEF Persist, Return
  <2> QED BY <2>2, <2>3
<1>7. CASE BeginAwait(e) \/ AwaitPayload(e) \/ AwaitTimedOut(e)
  <2>1. /\ phase[e] \in HandlerPhases /\ held' = held /\ handles' = handles
        /\ ~AtOp(e, "begin") /\ ~AtOp(e, "complete")
    BY <1>7, AwaitsEvent
       DEF BeginAwait, AwaitPayload, AwaitTimedOut, LooksUp, AtOp, HandlerPhases
  <2> QED BY <1>7, <2>1 DEF BeginAwait, AwaitPayload, AwaitTimedOut, EventTimeout, Return, Raise
<1>8. CASE \/ AwaitSuspended(e) \/ ScheduleRun(e) \/ Refused(e) \/ HandlerFault(e)
           \/ Claim(e) \/ Dispatch(e) \/ Complete(e) \/ Fail(e) \/ Defer(e) \/ Crash(e)
  <2>1. \E p \in Phases \ HandlerPhases : Goto(e, p)
    BY <1>8, ExecutionAssumption
       DEF AwaitSuspended, ScheduleRun, Refused, HandlerFault, AckLost, HandlerFails, Claim, Dispatch,
           Complete, Fail, Defer, Crash, Stop, Raise, Phases, HandlerPhases
  <2> QED BY <2>1 DEF Goto
<1> QED BY <1>1, <1>2, <1>3, <1>4, <1>5, <1>6, <1>7, <1>8 DEF Execute, HandlerStep

LEMMA NextStartInv ==
  ASSUME TypeInv, StartInv, [Next]_vars
  PROVE  StartInv'
<1> USE DEF TypeInv, TypeOK, ContextTypeOK
<1>1. ASSUME NEW e \in Executors, Claim(e) \/ Dispatch(e)
      PROVE  StartInv'
  BY <1>1 DEF Claim, Dispatch, Goto, StartInv
<1>2. ASSUME NEW e \in Executors, Stop(e)
      PROVE  StartInv'
  BY <1>2 DEF Stop, Goto, StartInv
<1>3. ASSUME NEW e \in Executors, HandlerStep(e) \/ HandlerFault(e), ~Stop(e)
      PROVE  StartInv'
  <2>1. Frame(e)
    BY <1>3, HandlerFrame
  <2>2. phase'[e] \notin {"idle", "claimed", "loading"}
    <3>1. CASE \E p \in Phases \ {"idle", "claimed", "loading"} : Goto(e, p)
      BY <3>1 DEF Goto
    <3>2. CASE Emit(e) \/ Heartbeat(e) \/ BeginStep(e)
      BY <3>2, LooksUpOp DEF Emit, Heartbeat, BeginStep, LooksUp
    <3> QED BY <1>3, <3>1, <3>2
            DEF HandlerStep, HandlerFault, Load, ReadClock, LookupHit, Compute, CompleteStep,
                BeginAwait, BeginWait, ResultArrives, Persist, AwaitPayload, AwaitTimedOut,
                AwaitSuspended, ScheduleRun, Refused, HandlerReturns, AckLost, HandlerFails,
                SleepUntil, EventTimeout, Return, Raise, Phases
  <2> QED BY <2>1, <2>2 DEF Frame, StartInv
<1>4. CASE UNCHANGED contextVars
  BY <1>4 DEF contextVars, StartInv
<1> QED BY <1>1, <1>2, <1>3, <1>4 DEF Next, vars, Execute, Complete, Fail, Defer, Crash

(* The operation of an execution that writes has a checkpoint. *)
LEMMA WriterOp ==
  ASSUME TypeInv, NEW e \in Executors, phase[e] \in Writing
  PROVE  pc[e] \in Ops /\ Checkpointed(pc[e])
BY DEF TypeInv, PhaseOK, Writing, AtOp, Checkpointed

LEMMA NextHandleInv ==
  ASSUME HandlesApart, TypeInv, OwnInv, StartInv, HandleInv, [Next]_vars
  PROVE  HandleInv'
<1> SUFFICES ASSUME NEW f \in Executors, NEW i \in Ops, Program[i].kind = "complete",
                    Program[i].of < pc'[f], pc'[f] <= i, handles'[f][Program[i].of] = NoState,
                    phase'[f] \in HandlerPhases, Running(held[f])'
             PROVE  checkpoint'[CheckpointName(i)] = NoState
  BY DEF HandleInv
<1> DEFINE o == Program[i].of
<1>0. /\ o \in Ops /\ o < i /\ Program[o].kind = "begin"
      /\ pc[f] \in Nat /\ i \in Nat /\ o \in Nat
      /\ CheckpointName(i) = CheckpointName(o)
  BY ProgramAssumption DEF Ops, TypeInv, TypeOK, ContextTypeOK, CheckpointName, Opener
<1>1. ASSUME phase[f] \in HandlerPhases, held'[f] = held[f], handles'[f][o] = handles[f][o],
             o < pc[f], pc[f] <= i, pc[f] # i \/ checkpoint' = checkpoint \/ phase'[f] = phase[f]
      PROVE  checkpoint'[CheckpointName(i)] = NoState
  <2>1. Running(held[f]) /\ checkpoint[CheckpointName(i)] = NoState
    <3>1. Running(held[f])
      BY <1>1, NoReturn DEF Busy, Active, Phases, HandlerPhases
    <3> QED BY <1>1, <3>1 DEF HandleInv
  <2>2. ASSUME NEW e \in Executors, phase[e] \in Writing, phase'[e] \notin Writing,
               Running(held[e]), checkpoint' # checkpoint,
               NEW v, checkpoint' = [checkpoint EXCEPT ![Slot(e)] = v]
        PROVE  checkpoint'[CheckpointName(i)] = NoState
    <3>1. e = f
      <4>1. held[e] = held[f]
        BY <2>1, <2>2, RunningIsLast
      <4>2. Busy(e) /\ Busy(f)
        BY <1>1, <2>2 DEF Busy, Active, Phases, HandlerPhases, Writing
      <4> QED BY <4>1, <4>2 DEF OwnInv
    <3>2. pc[f] # i
      BY <1>1, <2>2, <3>1
    <3>3. Slot(f) # CheckpointName(i)
      BY <2>2, <3>1, <3>2, WriterOp DEF HandlesApart, Slot
    <3> QED BY <2>1, <2>2, <3>1, <3>3 DEF TypeInv, TypeOK, StoreTypeOK
  <2> QED BY <2>1, <2>2, CheckpointStep
<1>2. CASE UNCHANGED contextVars
  BY <1>1, <1>2 DEF contextVars
<1>3. ASSUME NEW e \in Executors, e # f, Claim(e) \/ Execute(e) \/ HandlerFault(e) \/ Crash(e)
      PROVE  checkpoint'[CheckpointName(i)] = NoState
  BY <1>1, <1>3, ExecutionFrame DEF Frame
<1>4. ASSUME Claim(f) \/ Execute(f) \/ HandlerFault(f) \/ Crash(f)
      PROVE  checkpoint'[CheckpointName(i)] = NoState
  <2>1. CASE Load(f)
    <3>1. pc'[f] = 1
      BY <2>1 DEF Load, StartInv
    <3> QED BY <1>0, <3>1, ProgramAssumption DEF Ops
  <2>2. ASSUME phase[f] \in HandlerPhases, held' = held, handles' = handles, pc'[f] = pc[f],
               checkpoint' = checkpoint \/ ~AtOp(f, "complete")
        PROVE  checkpoint'[CheckpointName(i)] = NoState
    <3>1. AtOp(f, "complete") \/ pc[f] # i
      BY DEF AtOp
    <3> QED BY <1>1, <2>2, <3>1
  <2>3. ASSUME phase[f] \in HandlerPhases, held' = held, handles' = handles,
               pc'[f] = pc[f] + 1, ~AtOp(f, "begin")
        PROVE  checkpoint'[CheckpointName(i)] = NoState
    <3>1. o # pc[f]
      BY <1>0, <2>3 DEF AtOp
    <3> QED BY <1>0, <1>1, <2>3, <3>1
  <2>4. ASSUME phase[f] \in HandlerPhases, held' = held, AtOp(f, "begin"),
               checkpoint' = checkpoint, pc'[f] = pc[f] + 1,
               \/ handles' = handles /\ checkpoint[Slot(f)] = NoState
               \/ \E x : x # NoState /\ handles' = [handles EXCEPT ![f][pc[f]] = x]
        PROVE  checkpoint'[CheckpointName(i)] = NoState
    <3>1. CASE o = pc[f]
      <4>1. checkpoint[Slot(f)] = NoState
        BY <1>0, <2>4, <3>1 DEF TypeInv, TypeOK, ContextTypeOK
      <4> QED BY <1>0, <2>4, <3>1, <4>1 DEF Slot
    <3>2. CASE o # pc[f]
      <4>1. handles'[f][o] = handles[f][o]
        BY <1>0, <2>4, <3>2 DEF TypeInv, TypeOK, ContextTypeOK
      <4> QED BY <1>0, <1>1, <2>4, <3>2, <4>1
    <3> QED BY <3>1, <3>2
  <2> QED BY <1>4, <2>1, <2>2, <2>3, <2>4, HandleCases
<1> QED BY <1>2, <1>3, <1>4 DEF Next, vars

LEMMA StepMonotone ==
  ASSUME TypeInv, OwnInv, WriteInv, [Next]_vars
  PROVE  Monotone
<1>1. \A s \in Slots : checkpoint[s] # NoState => checkpoint'[s] = checkpoint[s]
  BY CheckpointStep DEF WriteInv, TypeInv, TypeOK, StoreTypeOK
<1>2. elapsed \subseteq elapsed'
  <2>1. ASSUME NEW e \in Executors, HandlerStep(e) \/ HandlerFault(e)
        PROVE  elapsed' = elapsed
    BY <2>1
       DEF HandlerStep, HandlerFault, Load, ReadClock, LookupHit, Compute, BeginStep,
         CompleteStep, BeginAwait, BeginWait, ResultArrives, Persist,
           AwaitPayload, AwaitTimedOut, AwaitSuspended, ScheduleRun, Emit, Heartbeat, Refused,
           HandlerReturns, AckLost, HandlerFails, set_task_checkpoint_state, schedule_run,
           EventPayload, EventTimedOut, EventSuspend, emit_event, storeVars
  <2>2. ASSUME NEW e \in Executors,
               Claim(e) \/ Complete(e) \/ Fail(e) \/ Defer(e) \/ Crash(e) \/ Dispatch(e)
        PROVE  elapsed' = elapsed
    BY <2>2
       DEF Claim, claim_task, Complete, Fail, Defer, Crash, Dispatch, complete_run, fail_run,
           FailOrRetry, schedule_run, storeVars
  <2>3. CASE Environment
    BY <2>3
       DEF Environment, EmitEvent, emit_event, CancelTask, RetryTask, ExpireClaim, TimePasses,
           DelayEnds, FailOrRetry
  <2>4. CASE UNCHANGED vars
    BY <2>4 DEF vars, storeVars
  <2> QED BY <2>1, <2>2, <2>3, <2>4 DEF Next, Execute
<1> QED BY <1>1, <1>2 DEF Monotone

ReplayInv == OwnInv /\ StartInv /\ HandleInv /\ WriteInv

LEMMA SpecReplayInv == HandlesApart => (Spec => [](TypeInv /\ ReplayInv))
<1> SUFFICES ASSUME HandlesApart PROVE Spec => [](TypeInv /\ ReplayInv)
  OBVIOUS
<1>1. Init => TypeInv /\ ReplayInv
  <2>1. Init => StartInv /\ HandleInv
    BY DEF Init, ContextInit, StartInv, HandleInv, HandlerPhases
  <2> QED BY <2>1, InitTypeInv, InitOwnInv, InitWriteInv DEF ReplayInv
<1>2. TypeInv /\ ReplayInv /\ [Next]_vars => TypeInv' /\ ReplayInv'
  BY NextTypeInv, NextOwnInv, NextStartInv, NextHandleInv, NextWriteInv DEF ReplayInv
<1> QED BY <1>1, <1>2, PTL DEF Spec

(* The first write of a checkpoint is the only one: an execution that lost *)
(* its run never writes over what its successor recorded, and neither does *)
(* one whose first write took effect but was reported as an error, nor one *)
(* that completes a handle it got long before.                             *)
THEOREM CheckpointsAreWrittenOnce == HandlesApart => (Spec => CheckpointsWriteOnce)
<1> SUFFICES ASSUME HandlesApart PROVE Spec => CheckpointsWriteOnce
  OBVIOUS
<1>1. TypeInv /\ ReplayInv /\ [Next]_vars =>
        [\A s \in Slots : checkpoint[s] # NoState => checkpoint'[s] = checkpoint[s]]_vars
  BY StepMonotone DEF Monotone, ReplayInv
<1> QED BY <1>1, SpecReplayInv, PTL DEF Spec, CheckpointsWriteOnce

-----------------------------------------------------------------------------
(***************************************************************************)
(* Reports: who decides how a run ends.                                    *)
(***************************************************************************)

(* The execution that works on a running run is the one that claimed it.   *)
ClaimInv ==
  run.state = "running" =>
    \A e \in Executors : Busy(e) /\ held[e] = attempts => run.claimedBy = e

(* An execution gets a run to work on by a claim only. *)
LEMMA BusyStep ==
  ASSUME TypeInv, [Next]_vars, NEW f \in Executors, ~Claim(f), Busy(f)'
  PROVE  Busy(f) /\ held'[f] = held[f]
<1>1. CASE UNCHANGED contextVars
  BY <1>1 DEF contextVars, Busy
<1>2. ASSUME NEW e \in Executors, e # f, Claim(e) \/ Execute(e) \/ HandlerFault(e) \/ Crash(e)
      PROVE  Busy(f) /\ held'[f] = held[f]
  BY <1>2, ExecutionFrame DEF Frame, Busy
<1>3. CASE Complete(f) \/ Fail(f) \/ Defer(f) \/ Crash(f)
  BY <1>3, StopLeaves DEF Complete, Fail, Defer, Crash, Leaves
<1>4. CASE HandlerStep(f) \/ HandlerFault(f) \/ Dispatch(f)
  <2>1. phase[f] \in Active
    BY <1>4, LooksUpOp
       DEF HandlerStep, HandlerFault, Load, ReadClock, LookupHit, Compute, BeginStep,
           CompleteStep, BeginAwait, BeginWait, ResultArrives, Persist, AwaitPayload,
           AwaitTimedOut, AwaitSuspended, ScheduleRun, Emit, Heartbeat, Refused, Fenced,
           HandlerReturns, AckLost, HandlerFails, Dispatch, LooksUp, Active, Phases, HandlerPhases
  <2>2. held' = held \/ Stop(f)
    BY <1>4
       DEF HandlerStep, HandlerFault, Load, ReadClock, LookupHit, Compute, BeginStep,
           CompleteStep, BeginAwait, BeginWait, ResultArrives, Persist, AwaitPayload,
           AwaitTimedOut, AwaitSuspended, ScheduleRun, Emit, Heartbeat, Refused,
           HandlerReturns, AckLost, HandlerFails, Dispatch
  <2> QED BY <2>1, <2>2, StopLeaves DEF Leaves, Busy
<1> QED BY <1>1, <1>2, <1>3, <1>4 DEF Next, vars, Execute

LEMMA NextClaimInv ==
  ASSUME TypeInv, OwnInv, ClaimInv, [Next]_vars
  PROVE  ClaimInv'
<1> SUFFICES ASSUME run'.state = "running", NEW f \in Executors, Busy(f)', held'[f] = attempts'
             PROVE  run'.claimedBy = f
  BY DEF ClaimInv
<1>1. CASE Claim(f)
  BY <1>1, ExecutionAssumption DEF Claim, claim_task, Run
<1>2. CASE ~Claim(f)
  <2>1. Busy(f) /\ held[f] = attempts' /\ held[f] \in 1..attempts /\ attempts \in Nat
    BY <1>2, BusyStep, BusyHeld
  <2>2. attempts' = attempts
    BY <2>1, RunStep
  <2>3. ASSUME NEW e \in Executors, Claim(e) PROVE FALSE
    BY <2>1, <2>2, <2>3 DEF Claim, claim_task, OwnInv, Open
  <2>4. run.state = "running" /\ run'.claimedBy = run.claimedBy
    BY <2>1, <2>2, <2>3, RunStep
  <2> QED BY <2>1, <2>2, <2>4 DEF ClaimInv
<1> QED BY <1>1, <1>2

(* The report of a busy execution that changes the run is its claimant's. *)
LEMMA ReportOfClaimant ==
  ASSUME TypeInv, OwnInv, ClaimInv, [Next]_vars, NEW f \in Executors, Busy(f),
         phase[f] \in {"completing", "failing", "deferring"}, phase'[f] # phase[f], run' # run
  PROVE  held[f] = attempts /\ run.claimedBy = f
<1>1. ~(UNCHANGED contextVars) /\ ~(UNCHANGED storeVars)
  BY DEF contextVars, storeVars
<1>2. \E e \in Executors : Claim(e) \/ Execute(e) \/ HandlerFault(e) \/ Crash(e)
  BY <1>1 DEF Next, vars
<1>3. Claim(f) \/ Execute(f) \/ HandlerFault(f) \/ Crash(f)
  BY <1>2, ExecutionFrame DEF Frame
<1>4. Complete(f) \/ Fail(f) \/ Defer(f)
  BY <1>1, <1>3, LooksUpOp
     DEF Claim, Execute, Dispatch, Crash, HandlerStep, HandlerFault, Load, ReadClock, LookupHit,
         Compute, BeginStep, CompleteStep, BeginAwait, BeginWait, ResultArrives, Persist,
         AwaitPayload, AwaitTimedOut, AwaitSuspended, ScheduleRun, Emit, Heartbeat, Refused,
         Fenced, HandlerReturns, AckLost, HandlerFails, LooksUp, HandlerPhases
<1>5. Running(held[f]) \/ RunState(held[f]) = "sleeping"
  BY <1>1, <1>4 DEF Complete, Fail, Defer, fail_run, Running
<1>6. held[f] = attempts /\ (run.state = "running" \/ run.state = "sleeping")
  BY <1>5 DEF Running, RunState
<1>7. run.state # "sleeping"
  BY <1>6, BusyHeld DEF OwnInv, Open
<1> QED BY <1>6, <1>7 DEF ClaimInv

LEMMA SpecClaimInv == Spec => [](TypeInv /\ OwnInv /\ ClaimInv)
<1>1. Init => ClaimInv
  BY DEF Init, StoreInit, ClaimInv, NewRun, Run
<1>2. TypeInv /\ OwnInv /\ ClaimInv /\ [Next]_vars => ClaimInv'
  BY NextClaimInv
<1> QED BY <1>1, <1>2, SpecOwnInv, PTL DEF Spec

(* Only the execution that claimed a run last decides how the run ends:    *)
(* the report of one that lost its run to another claim, or to the expiry  *)
(* of its lease, changes nothing.                                          *)
THEOREM OnlyClaimantsReport == ~AckLoss => (Spec => OnlyClaimantReports)
<1> DEFINE Reports ==
      \A e \in Executors :
        /\ phase[e] \in {"completing", "failing", "deferring"}
        /\ phase'[e] # phase[e]
        /\ run' # run
        => held[e] = attempts /\ run.claimedBy = e
<1> SUFFICES ASSUME ~AckLoss PROVE Spec => OnlyClaimantReports
  OBVIOUS
<1>1. ASSUME TypeInv, OwnInv, ClaimInv, [Next]_vars PROVE Reports
  <2> SUFFICES ASSUME NEW f \in Executors, phase[f] \in {"completing", "failing", "deferring"},
                      phase'[f] # phase[f], run' # run
               PROVE  held[f] = attempts /\ run.claimedBy = f
    OBVIOUS
  <2>1. Busy(f)
    BY DEF Busy, Active, Phases
  <2> QED BY <1>1, <2>1, ReportOfClaimant
<1>2. TypeInv /\ OwnInv /\ ClaimInv /\ [Next]_vars => [Reports]_vars
  BY <1>1
<1> QED BY <1>2, SpecClaimInv, PTL DEF Spec, OnlyClaimantReports

(* A run is completed, or deferred to another process, by the execution    *)
(* that claimed it last.                                                   *)
ClaimantCompletes ==
  [][\A e \in Executors :
       /\ phase[e] \in {"completing", "deferring"}
       /\ phase'[e] # phase[e]
       /\ run' # run
       => held[e] = attempts /\ run.claimedBy = e]_vars

(* Lost answers included: an execution that does not know that it has been *)
(* suspended can at most fail the run of its successor, never complete or  *)
(* defer it.                                                               *)
THEOREM OnlyClaimantsComplete == Spec => ClaimantCompletes
<1> DEFINE Reports ==
      \A e \in Executors :
        /\ phase[e] \in {"completing", "deferring"}
        /\ phase'[e] # phase[e]
        /\ run' # run
        => held[e] = attempts /\ run.claimedBy = e
<1>1. ASSUME TypeInv, OwnInv, ClaimInv, [Next]_vars PROVE Reports
  <2> SUFFICES ASSUME NEW f \in Executors, phase[f] \in {"completing", "deferring"},
                      phase'[f] # phase[f], run' # run
               PROVE  held[f] = attempts /\ run.claimedBy = f
    OBVIOUS
  <2>1. Busy(f)
    BY DEF Busy, Active, Phases
  <2> QED BY <1>1, <2>1, ReportOfClaimant
<1>2. TypeInv /\ OwnInv /\ ClaimInv /\ [Next]_vars => [Reports]_vars
  BY <1>1
<1> QED BY <1>2, SpecClaimInv, PTL DEF Spec, ClaimantCompletes
=============================================================================
