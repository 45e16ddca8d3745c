-------------------------- MODULE TaskReplayProofs --------------------------
(***************************************************************************)
(* What a call returns to the handler is what every later execution of the *)
(* task will see, and a sleep that returns is over.                        *)
(***************************************************************************)
EXTENDS TaskExecutionProofs, FiniteSetTheorems, SequenceTheorems

(* The handler lets timeouts end it. *)
NoCatch == \A i \in Ops : Program[i].timeout # "catch"

StepOf(e) == Claim(e) \/ Execute(e) \/ HandlerFault(e) \/ Crash(e)

(* The caches hold checkpoints, or the null of an event that timed out.    *)
CacheInv ==
  \A e \in Executors : \A s \in Slots : cache[e][s] \in {NoState, Null, checkpoint[s]}

ClockInv == \A e \in Executors : now[e] \subseteq elapsed

SleepInv == CacheInv /\ ClockInv /\ SleepNotEarly

(* The slots of events, whose timeouts leave no checkpoint: a handler that *)
(* catches them can find null in its cache.  All other slots are firm.     *)
EventSlot(s) == \E i \in Ops : Program[i].kind = "event" /\ CheckpointName(i) = s

Firm == {s \in Slots : NoCatch \/ ~EventSlot(s)}

(* Without caught timeouts no handler goes on after one, and no null gets  *)
(* into a cache.                                                           *)
Going == {"idle", "claimed", "loading"} \cup HandlerPhases

ReportInv == NoCatch => \A e \in Executors : phase[e] \in Going => reported[e] = {}

CacheStable ==
  \A e \in Executors : \A s \in Firm : cache[e][s] \in {NoState, checkpoint[s]}

(* A handle that is done holds what the checkpoint holds. *)
HandleStable ==
  \A e \in Executors : \A i \in Ops :
    handles[e][i] # NoState /\ CheckpointName(i) \in Firm =>
      handles[e][i] = checkpoint[CheckpointName(i)]

FirmStable ==
  \A i \in Ops : Checkpointed(i) /\ CheckpointName(i) \in Firm =>
    returned[i] \subseteq {checkpoint[CheckpointName(i)]} \ {NoState}

StableInv == ReportInv /\ CacheStable /\ HandleStable /\ FirmStable

-----------------------------------------------------------------------------
(* The three ways an execution goes on. *)

Returns(e, x) == pc[e] \in Ops /\ Return(e, x)

(* What SleepUntil returns, if it returns, is over. *)
LEMMA SleepReturns ==
  ASSUME NEW e \in Executors, AtOp(e, "sleep"), NEW w, SleepUntil(e, w)
  PROVE  \/ UNCHANGED <<returned, now>>
         \/ Returns(e, w) /\ w \in now[e]
BY DEF SleepUntil, Returns, AtOp

(* The cases of a step of execution e, by what it returns.                 *)
LEMMA ReturnCases ==
  ASSUME TypeInv, NEW e \in Executors, StepOf(e)
  PROVE  \/ UNCHANGED <<returned, now>>
         \/ UNCHANGED returned /\ now' = [now EXCEPT ![e] = {}]
         \/ UNCHANGED returned /\ now' = [now EXCEPT ![e] = elapsed]
         \/ /\ LookupHit(e) /\ ~AtOp(e, "sleep") /\ Returns(e, Cached(e))
         \/ /\ LookupHit(e) /\ AtOp(e, "sleep") /\ Cached(e) \in WakeTimes \cap now[e]
            /\ Returns(e, Cached(e))
         \/ CompleteStep(e) /\ ~AtOp(e, "sleep") /\ Returns(e, Handle(e))
         \/ Persist(e) /\ ~AtOp(e, "sleep") /\ Returns(e, value[e])
         \/ Persist(e) /\ AtOp(e, "sleep") /\ value[e] \in now[e] /\ Returns(e, value[e])
         \/ AwaitPayload(e) /\ ~AtOp(e, "sleep") /\ Returns(e, emitted[Event(e)])
         \/ /\ AwaitTimedOut(e) /\ ~AtOp(e, "sleep") /\ Event(e) \in reported[e]
            /\ Returns(e, Null)
         \/ /\ AwaitTimedOut(e) \/ BeginAwait(e)
            /\ ~AtOp(e, "sleep") /\ Program[pc[e]].timeout = "catch" /\ Returns(e, "timeout")
<1>1. CASE \/ Load(e) \/ Compute(e) \/ BeginWait(e) \/ ResultArrives(e) \/ Emit(e) \/ Heartbeat(e)
           \/ HandlerReturns(e) \/ HandlerFault(e) \/ Claim(e) \/ Dispatch(e) \/ BeginStep(e)
  BY <1>1 DEF Load, Compute, BeginStep, BeginWait, ResultArrives, Emit, Heartbeat, HandlerReturns, HandlerFault,
              AckLost, HandlerFails, Raise, Claim, Dispatch
<1>2. CASE \/ AwaitSuspended(e) \/ ScheduleRun(e) \/ Complete(e) \/ Fail(e) \/ Defer(e) \/ Crash(e)
           \/ Refused(e)
  BY <1>2 DEF AwaitSuspended, ScheduleRun, Complete, Fail, Defer, Crash, Refused, Stop, Raise
<1>3. CASE ReadClock(e)
  BY <1>3 DEF ReadClock
<1>4. CASE LookupHit(e)
  <2>1. pc[e] \in Ops
    BY <1>4, LooksUpOp DEF LookupHit, AtOp
  <2>2. CASE ~AtOp(e, "sleep")
    BY <1>4, <2>1, <2>2 DEF LookupHit, Returns
  <2>3. CASE AtOp(e, "sleep") /\ Cached(e) \in WakeTimes
    BY <1>4, <2>3, SleepReturns DEF LookupHit
  <2>4. CASE AtOp(e, "sleep") /\ Cached(e) \notin WakeTimes
    BY <1>4, <2>4 DEF LookupHit, Raise
  <2> QED BY <2>2, <2>3, <2>4
<1>5. CASE Persist(e)
  <2>1. pc[e] \in Ops
    BY <1>5 DEF Persist, TypeInv, PhaseOK, AtOp
  <2>2. CASE ~AtOp(e, "sleep")
    BY <1>5, <2>1, <2>2 DEF Persist, Returns
  <2>3. CASE AtOp(e, "sleep")
    BY <1>5, <2>3, SleepReturns DEF Persist
  <2> QED BY <2>2, <2>3
<1>6. CASE AwaitPayload(e) \/ AwaitTimedOut(e)
  <2>1. pc[e] \in Ops /\ ~AtOp(e, "sleep")
    BY <1>6, AwaitsEvent DEF AwaitPayload, AwaitTimedOut, AtOp
  <2> QED BY <1>6, <2>1 DEF AwaitPayload, AwaitTimedOut, EventTimeout, Raise, Returns
<1>7. CASE BeginAwait(e)
  <2>1. pc[e] \in Ops /\ ~AtOp(e, "sleep")
    BY <1>7 DEF BeginAwait, AtOp
  <2> QED BY <1>7, <2>1 DEF BeginAwait, EventTimeout, Raise, Returns
<1>8. CASE CompleteStep(e)
  <2>1. pc[e] \in Ops /\ ~AtOp(e, "sleep")
    BY <1>8 DEF CompleteStep, AtOp
  <2> QED BY <1>8, <2>1 DEF CompleteStep, Returns
<1> QED BY <1>1, <1>2, <1>3, <1>4, <1>5, <1>6, <1>7, <1>8 DEF StepOf, Execute, HandlerStep

(* What a step of execution e does to its cache.                           *)
LEMMA CacheCases ==
  ASSUME TypeInv, NEW e \in Executors, StepOf(e), NEW s \in Slots
  PROVE  \/ cache'[e][s] \in {NoState, cache[e][s], checkpoint'[s]}
         \/ /\ cache'[e][s] = Null /\ s = Slot(e)
            /\ AwaitTimedOut(e) /\ Event(e) \in reported[e]
<1>c. cache \in [Executors -> [Slots -> States \cup {Null, NoState}]]
  BY DEF TypeInv, TypeOK, ContextTypeOK
<1>k. checkpoint \in [Slots -> States \cup {NoState}]
  BY DEF TypeInv, TypeOK, StoreTypeOK
<1>1. CASE \/ ReadClock(e) \/ Compute(e) \/ BeginWait(e) \/ ResultArrives(e) \/ Emit(e)
           \/ Heartbeat(e) \/ HandlerReturns(e) \/ HandlerFault(e) \/ Claim(e) \/ Dispatch(e)
           \/ BeginAwait(e) \/ BeginStep(e) \/ CompleteStep(e)
  BY <1>1 DEF ReadClock, Compute, BeginStep, CompleteStep, BeginWait, ResultArrives, Emit, Heartbeat, HandlerReturns,
              HandlerFault, AckLost, HandlerFails, Claim, Dispatch, BeginAwait
<1>2. CASE \/ AwaitSuspended(e) \/ ScheduleRun(e) \/ Complete(e) \/ Fail(e) \/ Defer(e) \/ Crash(e)
           \/ Refused(e)
  <2>1. cache' = cache \/ cache' = [cache EXCEPT ![e] = NoCheckpoints]
    BY <1>2 DEF AwaitSuspended, ScheduleRun, Complete, Fail, Defer, Crash, Refused, Stop
  <2> QED BY <1>c, <2>1 DEF NoCheckpoints
<1>3. CASE Load(e)
  BY <1>3, <1>c DEF Load, storeVars
<1>4. CASE LookupHit(e)
  BY <1>4, <1>c DEF LookupHit, Remember, Cached, storeVars
<1>5. CASE Persist(e)
  <2>1. Slot(e) \in Slots
    BY <1>5, CachedType DEF Persist, TypeInv, PhaseOK
  <2> QED BY <1>5, <1>c, <1>k, <2>1 DEF Persist, Remember, set_task_checkpoint_state
<1>6. CASE AwaitPayload(e)
  <2>1. Slot(e) \in Slots
    BY <1>6, AwaitsEvent, CachedType DEF AwaitPayload
  <2> QED BY <1>6, <1>c, <1>k, <2>1 DEF AwaitPayload, Remember, EventPayload
<1>7. CASE AwaitTimedOut(e)
  BY <1>7, <1>c DEF AwaitTimedOut, Remember
<1> QED BY <1>1, <1>2, <1>3, <1>4, <1>5, <1>6, <1>7 DEF StepOf, Execute, HandlerStep

-----------------------------------------------------------------------------
(* Sleeps.                                                                 *)

LEMMA FrameOf ==
  ASSUME TypeInv, NEW e \in Executors, StepOf(e)
  PROVE  Frame(e)
BY ExecutionFrame DEF StepOf

LEMMA NextCases ==
  ASSUME [Next]_vars
  PROVE  (\E e \in Executors : StepOf(e)) \/ UNCHANGED contextVars
BY DEF Next, vars, StepOf

LEMMA NextCacheInv ==
  ASSUME TypeInv, Monotone, CacheInv, [Next]_vars
  PROVE  CacheInv'
<1> SUFFICES ASSUME NEW f \in Executors, NEW s \in Slots
             PROVE  cache'[f][s] \in {NoState, Null, checkpoint'[s]}
  BY DEF CacheInv
<1>1. ASSUME cache'[f][s] = cache[f][s]
      PROVE  cache'[f][s] \in {NoState, Null, checkpoint'[s]}
  BY <1>1 DEF CacheInv, Monotone
<1>2. CASE UNCHANGED contextVars
  BY <1>1, <1>2 DEF contextVars
<1>3. ASSUME NEW e \in Executors, StepOf(e)
      PROVE  cache'[f][s] \in {NoState, Null, checkpoint'[s]}
  <2>1. CASE e = f
    BY <1>1, <1>3, <2>1, CacheCases
  <2>2. CASE e # f
    BY <1>1, <1>3, <2>2, FrameOf DEF Frame
  <2> QED BY <2>1, <2>2
<1> QED BY <1>2, <1>3, NextCases

LEMMA NextClockInv ==
  ASSUME TypeInv, Monotone, ClockInv, [Next]_vars
  PROVE  ClockInv'
<1>1. CASE UNCHANGED contextVars
  BY <1>1 DEF contextVars, ClockInv, Monotone
<1>2. ASSUME NEW e \in Executors, StepOf(e)
      PROVE  ClockInv'
  <2>1. now' \in {now, [now EXCEPT ![e] = {}], [now EXCEPT ![e] = elapsed]}
    BY <1>2, ReturnCases DEF Returns, Return
  <2> QED BY <2>1 DEF ClockInv, Monotone, TypeInv, TypeOK, ContextTypeOK
<1> QED BY <1>1, <1>2, NextCases

(* The calls that persist leave what they return in the checkpoint.        *)
LEMMA Recorded ==
  ASSUME TypeInv, NEW e \in Executors
  PROVE  /\ Persist(e) => checkpoint'[Slot(e)] = value[e] /\ value[e] # NoState
         /\ AwaitPayload(e) => /\ checkpoint'[Slot(e)] = emitted[Event(e)]
                              /\ emitted[Event(e)] # NoState
         /\ LookupHit(e) => checkpoint' = checkpoint /\ Cached(e) # NoState
<1>1. checkpoint \in [Slots -> States \cup {NoState}]
  BY DEF TypeInv, TypeOK, StoreTypeOK
<1>2. ASSUME Persist(e)
      PROVE  checkpoint'[Slot(e)] = value[e] /\ value[e] # NoState
  <2>1. Slot(e) \in Slots /\ value[e] \in Values \cup WakeTimes
    BY <1>2, CachedType DEF Persist, TypeInv, PhaseOK
  <2> QED BY <1>1, <1>2, <2>1, StoreAssumption DEF Persist, set_task_checkpoint_state
<1>3. ASSUME AwaitPayload(e)
      PROVE  checkpoint'[Slot(e)] = emitted[Event(e)] /\ emitted[Event(e)] # NoState
  <2>1. Slot(e) \in Slots
    BY <1>3, AwaitsEvent, CachedType DEF AwaitPayload
  <2> QED BY <1>1, <1>3, <2>1 DEF AwaitPayload, EventPayload
<1>4. LookupHit(e) => checkpoint' = checkpoint /\ Cached(e) # NoState
  BY DEF LookupHit, storeVars
<1> QED BY <1>2, <1>3, <1>4

(* A cached value that is neither the null of a timeout nor nothing is the *)
(* checkpoint.                                                             *)
LEMMA CachedIsCheckpoint ==
  ASSUME TypeInv, CacheInv, NEW e \in Executors, LookupHit(e)
  PROVE  Cached(e) \in {Null, checkpoint[Slot(e)]}
<1>1. Slot(e) \in Slots
  BY LooksUpOp, CachedType DEF LookupHit
<1> QED BY <1>1 DEF CacheInv, Cached, LookupHit

LEMMA NextSleepNotEarly ==
  ASSUME TypeInv, Monotone, SleepInv, [Next]_vars
  PROVE  SleepNotEarly'
<1> SUFFICES ASSUME NEW i \in Ops, Program[i].kind = "sleep", returned'[i] # {}
             PROVE  checkpoint'[CheckpointName(i)] \in elapsed'
  BY DEF SleepNotEarly
<1>0. CheckpointName(i) \in Slots
  BY OpenerAsks DEF Checkpointed
<1>1. CASE returned'[i] = returned[i]
  <2>1. checkpoint[CheckpointName(i)] \in elapsed
    BY <1>1 DEF SleepInv, SleepNotEarly
  <2>2. checkpoint[CheckpointName(i)] # NoState
    BY <2>1, StoreAssumption DEF TypeInv, TypeOK, StoreTypeOK
  <2> QED BY <1>0, <2>1, <2>2 DEF Monotone
<1>2. CASE UNCHANGED contextVars
  BY <1>1, <1>2 DEF contextVars
<1>3. ASSUME NEW e \in Executors, StepOf(e), returned'[i] # returned[i]
      PROVE  checkpoint'[CheckpointName(i)] \in elapsed'
  <2>1. ASSUME NEW x, Returns(e, x) PROVE pc[e] = i
    BY <1>3, <2>1 DEF Returns, Return, TypeInv, TypeOK, ContextTypeOK
  <2>2. \/ LookupHit(e) /\ Cached(e) \in WakeTimes \cap now[e] /\ Returns(e, Cached(e))
        \/ Persist(e) /\ value[e] \in now[e] /\ Returns(e, value[e])
    <3>1. ASSUME NEW x, Returns(e, x) PROVE AtOp(e, "sleep")
      BY <2>1, <3>1 DEF AtOp
    <3> QED BY <1>3, <3>1, ReturnCases
  <2>3. pc[e] = i /\ Slot(e) = CheckpointName(i)
    BY <2>1, <2>2 DEF Slot
  <2>4. now[e] \subseteq elapsed'
    BY DEF SleepInv, ClockInv, Monotone
  <2>5. CASE LookupHit(e) /\ Cached(e) \in WakeTimes \cap now[e]
    <3>1. Cached(e) = checkpoint[Slot(e)]
      BY <2>5, CachedIsCheckpoint, StoreAssumption DEF SleepInv
    <3> QED BY <2>3, <2>4, <2>5, <3>1, Recorded
  <2>6. CASE Persist(e) /\ value[e] \in now[e]
    BY <2>3, <2>4, <2>6, Recorded
  <2> QED BY <2>2, <2>5, <2>6
<1> QED BY <1>1, <1>2, <1>3, NextCases

LEMMA InitSleepInv == Init => SleepInv
BY DEF Init, StoreInit, ContextInit, SleepInv, CacheInv, ClockInv, SleepNotEarly, NoCheckpoints

(* A sleep never returns before the wake time in its checkpoint, though    *)
(* the clock is read before the wake time is known, though another         *)
(* execution may have chosen it, and whatever answers get lost.            *)
THEOREM SleepsAreNotCutShort == HandlesApart => (Spec => []SleepNotEarly)
<1> SUFFICES ASSUME HandlesApart PROVE Spec => []SleepNotEarly
  OBVIOUS
<1>1. TypeInv /\ ReplayInv /\ SleepInv /\ [Next]_vars => SleepInv'
  BY StepMonotone, NextCacheInv, NextClockInv, NextSleepNotEarly DEF SleepInv, ReplayInv
<1>2. SleepInv => SleepNotEarly
  BY DEF SleepInv
<1> QED BY <1>1, <1>2, InitSleepInv, SpecReplayInv, PTL DEF Spec

-----------------------------------------------------------------------------
(* Replays.                                                                *)

LEMMA NextReportInv ==
  ASSUME TypeInv, ReportInv, [Next]_vars
  PROVE  ReportInv'
<1> SUFFICES ASSUME NoCatch
             PROVE  (\A e \in Executors : phase[e] \in Going => reported[e] = {})'
  BY DEF ReportInv, NoCatch
<1>1. CASE UNCHANGED contextVars
  BY <1>1 DEF contextVars, ReportInv
<1>2. ASSUME NEW e \in Executors, StepOf(e), phase'[e] \in Going
      PROVE  reported'[e] = {}
  <2>1. CASE reported' = reported /\ phase[e] \in Going
    BY <2>1 DEF ReportInv
  <2>2. CASE \/ Load(e) \/ ReadClock(e) \/ Compute(e) \/ BeginWait(e) \/ ResultArrives(e) \/ Emit(e)
             \/ Heartbeat(e) \/ HandlerReturns(e) \/ LookupHit(e) \/ Persist(e)
             \/ BeginStep(e) \/ CompleteStep(e)
    BY <2>1, <2>2
       DEF BeginStep, CompleteStep, Load, ReadClock, Compute, BeginWait, ResultArrives, Emit, Heartbeat, HandlerReturns,
           LookupHit, Persist, LooksUp, Going, HandlerPhases
  <2>3. CASE Claim(e)
    BY <2>3 DEF Claim, ReportInv, Going, HandlerPhases, TypeInv, TypeOK, ContextTypeOK
  <2>5. CASE \/ AwaitSuspended(e) \/ ScheduleRun(e) \/ Complete(e) \/ Fail(e) \/ Defer(e)
             \/ Crash(e)
    BY <1>2, <2>5
       DEF AwaitSuspended, ScheduleRun, Complete, Fail, Defer, Crash, Stop, Goto, Going, HandlerPhases,
           TypeInv, TypeOK, ContextTypeOK
  <2>6. CASE Refused(e) \/ HandlerFault(e)
    BY <1>2, <2>6
       DEF Refused, HandlerFault, AckLost, HandlerFails, Stop, Raise, Goto, Going, HandlerPhases,
           TypeInv, TypeOK, ContextTypeOK
  <2>7. CASE AwaitPayload(e)
    BY <2>7 DEF AwaitPayload, ReportInv, Going, HandlerPhases, TypeInv, TypeOK, ContextTypeOK
  <2>8. CASE AwaitTimedOut(e)
    BY <2>8 DEF AwaitTimedOut, ReportInv, Going, HandlerPhases, TypeInv, TypeOK, ContextTypeOK
  <2>9. CASE BeginAwait(e)
    <3>1. pc[e] \in Ops
      BY <2>9 DEF BeginAwait, AtOp
    <3>2. ~(EventTimeout(e) /\ wake[e] = Event(e))
      BY <1>2, <3>1
         DEF NoCatch, EventTimeout, Raise, Goto, Going, HandlerPhases, TypeInv, TypeOK, ContextTypeOK
    <3> QED BY <2>1, <2>9, <3>2 DEF BeginAwait, LooksUp, Going, HandlerPhases
  <2>10. CASE Dispatch(e)
    BY <2>1, <2>10 DEF Dispatch, Going
  <2> QED BY <1>2, <2>2, <2>3, <2>5, <2>6, <2>7, <2>8, <2>9, <2>10 DEF StepOf, Execute, HandlerStep
<1>3. ASSUME NEW e \in Executors, StepOf(e), NEW f \in Executors \ {e}, phase'[f] \in Going
      PROVE  reported'[f] = {}
  BY <1>3, FrameOf DEF Frame, ReportInv
<1> QED BY <1>1, <1>2, <1>3, NextCases

(* A handler that lets timeouts end it never sees one twice. *)
LEMMA NoSecondTimeout ==
  ASSUME NoCatch, TypeInv, ReportInv, NEW e \in Executors, AwaitTimedOut(e)
  PROVE  Event(e) \notin reported[e]
BY DEF AwaitTimedOut, ReportInv, Going, HandlerPhases

(* A timeout that is caught concerns the slot of an event. *)
LEMMA EventSlotNotFirm ==
  ASSUME NEW e \in Executors, AtOp(e, "event"), Slot(e) \in Firm
  PROVE  NoCatch
BY DEF Firm, EventSlot, AtOp, Slot

LEMMA NextCacheStable ==
  ASSUME TypeInv, Monotone, ReportInv, CacheStable, [Next]_vars
  PROVE  CacheStable'
<1> SUFFICES ASSUME NEW f \in Executors, NEW s \in Firm
             PROVE  cache'[f][s] \in {NoState, checkpoint'[s]}
  BY DEF CacheStable, Firm, NoCatch, EventSlot
<1>0. s \in Slots
  BY DEF Firm
<1>1. ASSUME cache'[f][s] = cache[f][s]
      PROVE  cache'[f][s] \in {NoState, checkpoint'[s]}
  BY <1>0, <1>1 DEF CacheStable, Monotone
<1>2. CASE UNCHANGED contextVars
  BY <1>1, <1>2 DEF contextVars
<1>3. ASSUME NEW e \in Executors, StepOf(e)
      PROVE  cache'[f][s] \in {NoState, checkpoint'[s]}
  <2>1. CASE e = f
    <3>1. CASE AwaitTimedOut(e) /\ Event(e) \in reported[e] /\ s = Slot(e)
      <4>1. NoCatch
        BY <3>1, AwaitsEvent, EventSlotNotFirm DEF AwaitTimedOut
      <4> QED BY <3>1, <4>1, NoSecondTimeout
    <3> QED BY <1>0, <1>1, <1>3, <2>1, <3>1, CacheCases
  <2>2. CASE e # f
    BY <1>1, <1>3, <2>2, FrameOf DEF Frame
  <2> QED BY <2>1, <2>2
<1> QED BY <1>2, <1>3, NextCases

LEMMA NextHandleStable ==
  ASSUME TypeInv, Monotone, CacheStable, HandleStable, [Next]_vars
  PROVE  HandleStable'
<1> SUFFICES ASSUME NEW f \in Executors, NEW i \in Ops, handles'[f][i] # NoState,
                    CheckpointName(i) \in Firm
             PROVE  handles'[f][i] = checkpoint'[CheckpointName(i)]
  BY DEF HandleStable, Firm, NoCatch, EventSlot
<1>1. ASSUME handles'[f][i] = handles[f][i]
      PROVE  handles'[f][i] = checkpoint'[CheckpointName(i)]
  BY <1>1 DEF HandleStable, Monotone, Firm
<1>2. CASE UNCHANGED contextVars
  BY <1>1, <1>2 DEF contextVars
<1>3. ASSUME NEW e \in Executors, StepOf(e), e # f
      PROVE  handles'[f][i] = checkpoint'[CheckpointName(i)]
  BY <1>1, <1>3, FrameOf DEF Frame
<1>4. ASSUME StepOf(f), ~LookupHit(f), handles'[f][i] # handles[f][i]
      PROVE  FALSE
  <2>1. CASE Stop(f)
    BY <2>1 DEF Stop, NoHandles, TypeInv, TypeOK, ContextTypeOK
  <2> QED BY <1>4, <2>1
          DEF StepOf, Execute, HandlerStep, HandlerFault, Claim, Dispatch, Complete, Fail, Defer,
              Crash, Load, ReadClock, Compute, BeginStep, CompleteStep, BeginAwait, BeginWait,
              ResultArrives, Persist, AwaitPayload, AwaitTimedOut, AwaitSuspended, ScheduleRun, Emit,
              Heartbeat, Refused, HandlerReturns, AckLost, HandlerFails
<1>5. ASSUME LookupHit(f), handles'[f][i] # handles[f][i]
      PROVE  handles'[f][i] = checkpoint'[CheckpointName(i)]
  <2>1. AtOp(f, "begin") /\ i = pc[f] /\ handles'[f][i] = Cached(f)
    BY <1>5 DEF LookupHit, TypeInv, TypeOK, ContextTypeOK
  <2>2. Slot(f) \in Slots /\ checkpoint' = checkpoint /\ Cached(f) # NoState
    BY <1>5, <2>1, CachedType, Recorded
  <2>3. Cached(f) = checkpoint[Slot(f)]
    BY <2>1, <2>2 DEF CacheStable, Cached, Slot
  <2> QED BY <2>1, <2>2, <2>3 DEF Slot
<1> QED BY <1>1, <1>2, <1>3, <1>4, <1>5, NextCases

LEMMA NextFirmStable ==
  ASSUME TypeInv, Monotone, StableInv, [Next]_vars
  PROVE  FirmStable'
<1> SUFFICES ASSUME NEW i \in Ops, Checkpointed(i), CheckpointName(i) \in Firm,
                    NEW y \in returned'[i]
             PROVE  y = checkpoint'[CheckpointName(i)] /\ y # NoState
  BY DEF FirmStable, Firm, NoCatch, EventSlot
<1>0. CheckpointName(i) \in Slots
  BY DEF Firm
<1>1. CASE y \in returned[i]
  <2>1. y = checkpoint[CheckpointName(i)] /\ y # NoState
    BY <1>1 DEF StableInv, FirmStable
  <2> QED BY <1>0, <2>1 DEF Monotone
<1>2. CASE UNCHANGED contextVars
  BY <1>1, <1>2 DEF contextVars
<1>3. ASSUME NEW e \in Executors, StepOf(e), y \notin returned[i]
      PROVE  y = checkpoint'[CheckpointName(i)] /\ y # NoState
  <2>1. ASSUME NEW x, Returns(e, x)
        PROVE  y = x /\ Slot(e) = CheckpointName(i)
    BY <1>3, <2>1 DEF Returns, Return, Slot, TypeInv, TypeOK, ContextTypeOK
  <2>2. \/ LookupHit(e) /\ Returns(e, Cached(e))
        \/ CompleteStep(e) /\ Returns(e, Handle(e))
        \/ Persist(e) /\ Returns(e, value[e])
        \/ AwaitPayload(e) /\ Returns(e, emitted[Event(e)])
    <3>1. ASSUME AwaitTimedOut(e) \/ BeginAwait(e), NEW x, Returns(e, x)
          PROVE  NoCatch
      <4>1. AtOp(e, "event")
        BY <3>1, AwaitsEvent DEF AwaitTimedOut, BeginAwait
      <4> QED BY <2>1, <3>1, <4>1, EventSlotNotFirm
    <3>2. ASSUME AwaitTimedOut(e), Event(e) \in reported[e], Returns(e, Null)
          PROVE  FALSE
      BY <3>1, <3>2, NoSecondTimeout DEF StableInv
    <3>3. ASSUME AwaitTimedOut(e) \/ BeginAwait(e), Program[pc[e]].timeout = "catch",
                 Returns(e, "timeout")
          PROVE  FALSE
      BY <3>1, <3>3 DEF NoCatch, Returns
    <3> QED BY <1>3, <3>2, <3>3, ReturnCases
  <2>3. ASSUME LookupHit(e), Returns(e, Cached(e))
        PROVE  Cached(e) = checkpoint'[Slot(e)] /\ Cached(e) # NoState
    BY <2>1, <2>3, Recorded DEF StableInv, CacheStable, Cached
  <2>4. ASSUME CompleteStep(e), Returns(e, Handle(e))
        PROVE  Handle(e) = checkpoint'[Slot(e)] /\ Handle(e) # NoState
    <3>1. Program[pc[e]].kind = "complete" /\ pc[e] \in Ops
      BY <2>4 DEF CompleteStep, AtOp
    <3>2. Program[pc[e]].of \in Ops /\ Program[Program[pc[e]].of].kind = "begin"
      BY <3>1, ProgramAssumption DEF Ops
    <3>3. Slot(e) = CheckpointName(Program[pc[e]].of)
      BY <3>1, <3>2 DEF Slot, CheckpointName, Opener
    <3>4. Handle(e) # NoState
      <4>1. ~Goto(e, "persist")
        BY <2>4 DEF Returns, Return, Goto, TypeInv, TypeOK, ContextTypeOK
      <4> QED BY <2>4, <4>1 DEF CompleteStep
    <3>5. checkpoint' = checkpoint
      BY <2>4 DEF CompleteStep, storeVars
    <3>6. CheckpointName(Program[pc[e]].of) \in Firm
      BY <2>1, <2>4, <3>3
    <3> QED BY <3>2, <3>3, <3>4, <3>5, <3>6 DEF StableInv, HandleStable, Handle
  <2> QED BY <2>1, <2>2, <2>3, <2>4, Recorded
<1> QED BY <1>1, <1>2, <1>3, NextCases

LEMMA InitStableInv == Init => StableInv
BY DEF Init, StoreInit, ContextInit, StableInv, ReportInv, CacheStable, HandleStable,
   FirmStable, Firm, NoCheckpoints, NoHandles

LEMMA SpecStableInv ==
  HandlesApart => (Spec => [](TypeInv /\ ReplayInv /\ StableInv))
<1> SUFFICES ASSUME HandlesApart PROVE Spec => [](TypeInv /\ ReplayInv /\ StableInv)
  OBVIOUS
<1>1. TypeInv /\ ReplayInv /\ StableInv /\ [Next]_vars => StableInv'
  BY StepMonotone, NextReportInv, NextCacheStable, NextHandleStable, NextFirmStable
     DEF StableInv, ReplayInv
<1> QED BY <1>1, InitStableInv, SpecReplayInv, PTL DEF Spec

(* In a handler that lets timeouts end it, what a call with a checkpoint   *)
(* has once returned is what it returns in every later execution, whatever *)
(* fails, expires, crashes or gets lost.                                   *)
THEOREM ReplaysAreStable == NoCatch /\ HandlesApart => (Spec => []ReplayStable)
<1> SUFFICES ASSUME NoCatch, HandlesApart PROVE Spec => []ReplayStable
  OBVIOUS
<1>1. StableInv => ReplayStable
  BY OpenerAsks DEF StableInv, FirmStable, Firm, ReplayStable
<1> QED BY <1>1, SpecStableInv, PTL

(* No step, handle or sleep takes the checkpoint of an event for its own. *)
EventsApart ==
  \A i, j \in Ops :
    Program[i].kind = "event" /\ Program[j].kind \in {"step", "complete", "sleep"} =>
      CheckpointName(i) # CheckpointName(j)

(* Timeouts that a handler catches leave no checkpoint, so that a replay   *)
(* may take another way through its events; but steps, handles and sleeps  *)
(* return in every execution what they have once returned.                 *)
THEOREM StepReplaysAreStable == EventsApart /\ HandlesApart => (Spec => []StepsReplayStable)
<1> SUFFICES ASSUME EventsApart, HandlesApart PROVE Spec => []StepsReplayStable
  OBVIOUS
<1>1. StableInv => StepsReplayStable
  <2> SUFFICES ASSUME StableInv, NEW i \in Ops, Program[i].kind \in {"step", "complete", "sleep"}
               PROVE  returned[i] \subseteq {checkpoint[CheckpointName(i)]} \ {NoState}
    BY DEF StepsReplayStable
  <2>1. Checkpointed(i)
    BY DEF Checkpointed
  <2>2. CheckpointName(i) \in Firm
    BY <2>1, OpenerAsks DEF Firm, EventSlot, EventsApart
  <2> QED BY <2>1, <2>2 DEF StableInv, FirmStable
<1> QED BY <1>1, SpecStableInv, PTL

-----------------------------------------------------------------------------
(***************************************************************************)
(* Names: when each operation has a checkpoint of its own.                 *)
(***************************************************************************)

(* No name looks like a later use of another: "a#2" next to "a". *)
PlainNames ==
  \A i, j \in Ops : Asks(i) /\ Asks(j) =>
    \A n \in 2..Len(Program) : Program[i].name # Append(Program[j].name, n)

(* No handle is completed twice. *)
CompletedOnce ==
  \A i, j \in Ops :
    Program[i].kind = "complete" /\ Program[j].kind = "complete" /\ i # j =>
      Program[i].of # Program[j].of

SlotsApart ==
  \A i, j \in Ops :
    Checkpointed(i) /\ Checkpointed(j) /\ i # j => CheckpointName(i) # CheckpointName(j)

LEMMA StepCountType ==
  ASSUME NEW i \in Ops, Asks(i)
  PROVE  /\ StepCount(i) \in 1..Len(Program)
         /\ IsFiniteSet({k \in 1..i : Asks(k) /\ Program[k].name = Program[i].name})
<1> DEFINE Uses == {k \in 1..i : Asks(k) /\ Program[k].name = Program[i].name}
<1>1. i \in 1..Len(Program) /\ Len(Program) \in Nat
  BY ProgramAssumption DEF Ops
<1>2. IsFiniteSet(1..i) /\ Cardinality(1..i) = i
  BY <1>1, FS_Interval
<1>3. Uses \in SUBSET (1..i) /\ i \in Uses
  BY <1>1
<1>4. IsFiniteSet(Uses) /\ Cardinality(Uses) <= i /\ Cardinality(Uses) \in Nat
  BY <1>2, <1>3, FS_Subset, FS_CardinalityType
<1>5. Cardinality(Uses) # 0
  BY <1>3, <1>4, FS_EmptySet
<1> QED BY <1>1, <1>4, <1>5 DEF StepCount

(* A later use of a name has a larger number. *)
LEMMA StepCountGrows ==
  ASSUME NEW i \in Ops, NEW j \in Ops, Asks(i), Asks(j),
         Program[i].name = Program[j].name, i < j
  PROVE  StepCount(i) < StepCount(j)
<1> DEFINE Uses(k) == {l \in 1..k : Asks(l) /\ Program[l].name = Program[k].name}
<1>1. i \in Nat /\ j \in Nat /\ i >= 1
  BY ProgramAssumption DEF Ops
<1>2. IsFiniteSet(Uses(i)) /\ IsFiniteSet(Uses(j))
  BY StepCountType
<1>3. Uses(i) \in SUBSET Uses(j) /\ j \in Uses(j) /\ j \notin Uses(i)
  BY <1>1
<1>4. Cardinality(Uses(i)) <= Cardinality(Uses(j)) /\ Cardinality(Uses(i)) # Cardinality(Uses(j))
  BY <1>2, <1>3, FS_Subset
<1>5. Cardinality(Uses(i)) \in Nat /\ Cardinality(Uses(j)) \in Nat
  BY <1>2, FS_CardinalityType
<1> QED BY <1>4, <1>5 DEF StepCount

(* The numbers at the end of a name tell its uses apart. *)
LEMMA SuffixApart ==
  ASSUME NEW i \in Ops, NEW j \in Ops
  PROVE  \A m, n \in Nat :
           Append(Program[i].name, m) = Append(Program[j].name, n) =>
             Program[i].name = Program[j].name /\ m = n
<1> SUFFICES ASSUME NEW m \in Nat, NEW n \in Nat,
                    Append(Program[i].name, m) = Append(Program[j].name, n)
             PROVE  Program[i].name = Program[j].name /\ m = n
  OBVIOUS
<1>1. ASSUME NEW a, NEW b, Len(a) \in Nat, a = [k \in 1..Len(a) |-> a[k]],
             Len(b) \in Nat, b = [k \in 1..Len(b) |-> b[k]], Append(a, m) = Append(b, n)
      PROVE  a = b /\ m = n
  <2> DEFINE W == {a[k] : k \in 1..Len(a)} \cup {b[k] : k \in 1..Len(b)} \cup Nat
  <2>1. a \in [1..Len(a) -> W] /\ b \in [1..Len(b) -> W]
    BY <1>1
  <2>3. m \in W /\ n \in W
    OBVIOUS
  <2> HIDE DEF W
  <2>2. a \in Seq(W) /\ b \in Seq(W)
    BY <1>1, <2>1, SeqDef
  <2>4. /\ Len(Append(a, m)) = Len(a) + 1 /\ Append(a, m)[Len(a) + 1] = m
        /\ \A k \in 1..Len(a) : Append(a, m)[k] = a[k]
    BY <2>2, <2>3, AppendProperties
  <2>5. /\ Len(Append(b, n)) = Len(b) + 1 /\ Append(b, n)[Len(b) + 1] = n
        /\ \A k \in 1..Len(b) : Append(b, n)[k] = b[k]
    BY <2>2, <2>3, AppendProperties
  <2>6. Len(a) + 1 = Len(b) + 1
    BY <1>1, <2>4, <2>5, Zenon
  <2>7. Len(a) = Len(b)
    <3>1. \A x, y \in Nat : x + 1 = y + 1 => x = y
      OBVIOUS
    <3> QED BY <1>1, <2>6, <3>1, Zenon
  <2>8. m = n /\ \A k \in 1..Len(a) : a[k] = b[k]
    BY <1>1, <2>4, <2>5, <2>7, Zenon
  <2>9. a = b
    BY <1>1, <2>7, <2>8
  <2> QED BY <2>8, <2>9
<1>2. /\ Len(Program[i].name) \in Nat
      /\ Program[i].name = [k \in 1..Len(Program[i].name) |-> Program[i].name[k]]
      /\ Len(Program[j].name) \in Nat
      /\ Program[j].name = [k \in 1..Len(Program[j].name) |-> Program[j].name[k]]
  BY NameAssumption DEF Ops
<1> HIDE DEF Ops
<1> QED BY <1>1, <1>2, Zenon

LEMMA AsksApart ==
  ASSUME PlainNames, NEW i \in Ops, NEW j \in Ops, Asks(i), Asks(j), i # j
  PROVE  NextCheckpointName(i) # NextCheckpointName(j)
<1>1. StepCount(i) \in 1..Len(Program) /\ StepCount(j) \in 1..Len(Program) /\ Len(Program) \in Nat
  BY StepCountType, ProgramAssumption
<1>2. Program[i].name = Program[j].name => StepCount(i) # StepCount(j)
  <2>1. i < j \/ j < i
    BY ProgramAssumption DEF Ops
  <2> QED BY <1>1, <2>1, StepCountGrows
<1>3. CASE StepCount(i) = 1 /\ StepCount(j) = 1
  BY <1>2, <1>3 DEF NextCheckpointName
<1>4. CASE StepCount(i) = 1 /\ StepCount(j) # 1
  BY <1>1, <1>4 DEF NextCheckpointName, PlainNames
<1>5. CASE StepCount(i) # 1 /\ StepCount(j) = 1
  BY <1>1, <1>5 DEF NextCheckpointName, PlainNames
<1>6. CASE StepCount(i) # 1 /\ StepCount(j) # 1
  <2>1. /\ NextCheckpointName(i) = Append(Program[i].name, StepCount(i))
        /\ NextCheckpointName(j) = Append(Program[j].name, StepCount(j))
    BY <1>6 DEF NextCheckpointName
  <2>2. StepCount(i) \in Nat /\ StepCount(j) \in Nat
    BY <1>1
  <2>3. ASSUME NextCheckpointName(i) = NextCheckpointName(j) PROVE FALSE
    <3>1. Append(Program[i].name, StepCount(i)) = Append(Program[j].name, StepCount(j))
      BY <2>1, <2>3
    <3>2. \A m, n \in Nat :
            Append(Program[i].name, m) = Append(Program[j].name, n) =>
              Program[i].name = Program[j].name /\ m = n
      BY SuffixApart
    <3>3. Program[i].name = Program[j].name /\ StepCount(i) = StepCount(j)
      BY <2>2, <3>1, <3>2, Zenon
    <3> QED BY <1>2, <3>3
  <2> QED BY <2>3
<1> QED BY <1>3, <1>4, <1>5, <1>6

LEMMA NamesKeepSlotsApart == PlainNames /\ CompletedOnce => SlotsApart
<1> SUFFICES ASSUME PlainNames, CompletedOnce, NEW i \in Ops, NEW j \in Ops,
                    Checkpointed(i), Checkpointed(j), i # j
             PROVE  CheckpointName(i) # CheckpointName(j)
  BY DEF SlotsApart
<1>1. \A k \in Ops : Program[k].kind = "complete" =>
        Program[k].of \in Ops /\ Program[Program[k].of].kind = "begin"
  BY ProgramAssumption DEF Ops
<1>2. /\ Opener(i) \in Ops /\ Asks(Opener(i)) /\ Opener(j) \in Ops /\ Asks(Opener(j))
  BY <1>1 DEF Opener, Asks, Checkpointed
<1>3. Opener(i) # Opener(j)
  BY <1>1 DEF Opener, Checkpointed, CompletedOnce
<1> QED BY <1>2, <1>3, AsksApart DEF CheckpointName

LEMMA SlotsApartHandles == SlotsApart => HandlesApart
BY DEF SlotsApart, HandlesApart, Checkpointed

(* The suffixes of repeated names give every operation a checkpoint of its *)
(* own as long as no name looks like a suffixed one.                       *)
THEOREM CheckpointsAreOwn == PlainNames /\ CompletedOnce => (Spec => []OwnCheckpoints)
<1> SUFFICES ASSUME PlainNames, CompletedOnce PROVE Spec => []OwnCheckpoints
  OBVIOUS
<1>1. OwnCheckpoints
  BY NamesKeepSlotsApart DEF SlotsApart, OwnCheckpoints
<1> QED BY <1>1, PTL

-----------------------------------------------------------------------------
(***************************************************************************)
(* Events: what is in the checkpoint of one is what was emitted first.     *)
(***************************************************************************)

(* An operation that shares its checkpoint with an event awaits the same. *)
SameEvent ==
  \A i, j \in Ops :
    Program[i].kind = "event" /\ Checkpointed(j) /\ CheckpointName(i) = CheckpointName(j) =>
      Program[j].kind = "event" /\ Program[j].event = Program[i].event

LEMMA EmittedStep ==
  ASSUME TypeInv, [Next]_vars, NEW ev \in Events, emitted[ev] # NoState
  PROVE  emitted'[ev] = emitted[ev]
<1>s. StoreTypeOK
  BY DEF TypeInv, TypeOK
<1>1. ASSUME NEW a \in Events, NEW v \in Values, emit_event(a, v)
      PROVE  emitted'[ev] = emitted[ev]
  BY <1>s, <1>1 DEF emit_event, StoreTypeOK
<1>2. ASSUME NEW e \in Executors, AtOp(e, "emit")
      PROVE  Event(e) \in Events
  BY <1>2, ProgramAssumption DEF AtOp, Ops, Event
<1>3. ASSUME NEW e \in Executors, HandlerStep(e) \/ HandlerFault(e)
      PROVE  emitted'[ev] = emitted[ev]
  <2>1. CASE AtOp(e, "emit") /\ \E v \in Values : emit_event(Event(e), v)
    BY <1>1, <1>2, <2>1
  <2>2. CASE emitted' = emitted
    BY <2>2
  <2> QED BY <1>3, <2>1, <2>2
          DEF HandlerStep, HandlerFault, Load, ReadClock, LookupHit, Compute, BeginStep,
              CompleteStep, BeginAwait, BeginWait, ResultArrives, Persist,
              AwaitPayload, AwaitTimedOut, AwaitSuspended, ScheduleRun, Emit, Heartbeat, Refused,
              HandlerReturns, AckLost, HandlerFails, set_task_checkpoint_state, schedule_run,
              EventPayload, EventTimedOut, EventSuspend, storeVars
<1>4. ASSUME NEW e \in Executors,
             Claim(e) \/ Complete(e) \/ Fail(e) \/ Defer(e) \/ Crash(e) \/ Dispatch(e)
      PROVE  emitted' = emitted
  BY <1>4
     DEF Claim, claim_task, Complete, Fail, Defer, Crash, Dispatch, complete_run, fail_run,
         FailOrRetry, schedule_run, storeVars
<1>5. CASE Environment
  BY <1>1, <1>5
     DEF Environment, EmitEvent, CancelTask, RetryTask, ExpireClaim, TimePasses, DelayEnds,
         FailOrRetry
<1>6. CASE UNCHANGED vars
  BY <1>6 DEF vars, storeVars
<1> QED BY <1>3, <1>4, <1>5, <1>6 DEF Next, Execute

LEMMA NextEventsAgree ==
  ASSUME SameEvent, TypeInv, EventsAgree, [Next]_vars
  PROVE  EventsAgree'
<1> SUFFICES ASSUME NEW i \in Ops, Program[i].kind = "event"
             PROVE  checkpoint'[CheckpointName(i)] \in {NoState, emitted'[Program[i].event]}
  BY DEF EventsAgree
<1>0. CheckpointName(i) \in Slots /\ Program[i].event \in Events
  BY OpenerAsks, ProgramAssumption DEF Checkpointed, Ops
<1>1. CASE checkpoint'[CheckpointName(i)] = checkpoint[CheckpointName(i)]
  BY <1>0, <1>1, EmittedStep DEF EventsAgree
<1>2. ASSUME NEW e \in Executors, phase[e] \in Writing, Slot(e) = CheckpointName(i),
             NEW v \in States, checkpoint'[CheckpointName(i)] = v,
             AtOp(e, "event") => v = emitted[Event(e)]
      PROVE  checkpoint'[CheckpointName(i)] = emitted'[Program[i].event]
  <2>1. AtOp(e, "event") /\ Event(e) = Program[i].event
    BY <1>2, WriterOp DEF SameEvent, Slot, AtOp, Event
  <2>2. v # NoState
    BY StoreAssumption DEF States
  <2> QED BY <1>0, <1>2, <2>1, <2>2, EmittedStep
<1>3. CASE \E e \in Executors :
             /\ phase[e] \in Writing
             /\ \E v \in States :
                  /\ checkpoint' = [checkpoint EXCEPT ![Slot(e)] = v]
                  /\ AtOp(e, "event") => v = emitted[Event(e)]
  <2>1. checkpoint \in [Slots -> States \cup {NoState}]
    BY DEF TypeInv, TypeOK, StoreTypeOK
  <2> QED BY <1>0, <1>1, <1>2, <1>3, <2>1
<1> QED BY <1>1, <1>3, CheckpointStep

(* The payload in the checkpoint of an event is the one that was emitted   *)
(* first, whoever emits, whenever, and however often the task is replayed. *)
THEOREM EventsAreAgreed == SameEvent => (Spec => []EventsAgree)
<1> SUFFICES ASSUME SameEvent PROVE Spec => []EventsAgree
  OBVIOUS
<1>1. Init => TypeInv /\ EventsAgree
  BY InitTypeInv, OpenerAsks DEF Init, StoreInit, EventsAgree, Checkpointed
<1>2. TypeInv /\ EventsAgree /\ [Next]_vars => TypeInv' /\ EventsAgree'
  BY NextTypeInv, NextEventsAgree
<1> QED BY <1>1, <1>2, PTL DEF Spec

-----------------------------------------------------------------------------
(***************************************************************************)
(* Progress: an execution passes no operation without its result.          *)
(***************************************************************************)
ProgressInv ==
  \A e \in Executors, i \in Ops : i < pc[e] /\ Checkpointed(i) => returned[i] # {}

EndInv == \A e \in Executors : phase[e] = "completing" => pc[e] = Len(Program) + 1

(* Where a step of execution e leaves the handler. *)
LEMMA PlaceCases ==
  ASSUME TypeInv, NEW e \in Executors, StepOf(e)
  PROVE  \/ UNCHANGED <<pc, returned>>
         \/ Stop(e)
         \/ \E x : Returns(e, x)
         \/ /\ pc[e] \in Ops /\ ~Checkpointed(pc[e])
            /\ pc' = [pc EXCEPT ![e] = @ + 1] /\ UNCHANGED returned
<1>1. CASE \/ ReadClock(e) \/ LookupHit(e) \/ CompleteStep(e) \/ Persist(e) \/ AwaitPayload(e)
           \/ AwaitTimedOut(e) \/ BeginAwait(e)
  <2>1. pc[e] \in Ops
    BY <1>1, LooksUpOp, AwaitsEvent
       DEF ReadClock, LookupHit, CompleteStep, Persist, AwaitPayload, AwaitTimedOut, BeginAwait,
           AtOp, TypeInv, PhaseOK
  <2> QED BY <1>1, <2>1
          DEF ReadClock, LookupHit, CompleteStep, Persist, AwaitPayload, AwaitTimedOut, BeginAwait,
              SleepUntil, EventTimeout, Raise, Returns
<1>2. CASE \/ Load(e) \/ Compute(e) \/ BeginWait(e) \/ ResultArrives(e) \/ HandlerReturns(e)
           \/ HandlerFault(e) \/ Claim(e) \/ Dispatch(e)
  BY <1>2 DEF Load, Compute, BeginWait, ResultArrives, HandlerReturns, HandlerFault, AckLost,
              HandlerFails, Raise, Claim, Dispatch
<1>3. CASE Emit(e) \/ Heartbeat(e) \/ BeginStep(e)
  BY <1>3 DEF Emit, Heartbeat, BeginStep, AtOp, Checkpointed
<1>4. CASE \/ AwaitSuspended(e) \/ ScheduleRun(e) \/ Complete(e) \/ Fail(e) \/ Defer(e) \/ Crash(e)
           \/ Refused(e)
  BY <1>4 DEF AwaitSuspended, ScheduleRun, Complete, Fail, Defer, Crash, Refused, Raise
<1> QED BY <1>1, <1>2, <1>3, <1>4 DEF StepOf, Execute, HandlerStep

(* Only a handler that has made all its calls is completed. *)
LEMMA CompletingCases ==
  ASSUME TypeInv, NEW e \in Executors, StepOf(e), phase'[e] = "completing"
  PROVE  HandlerReturns(e)
<1> USE DEF TypeInv, TypeOK, ContextTypeOK
<1>1. CASE Emit(e) \/ Heartbeat(e) \/ BeginStep(e)
  BY <1>1, LooksUpOp DEF Emit, Heartbeat, BeginStep, LooksUp
<1>2. CASE \E p \in Phases \ {"completing"} : Goto(e, p)
  BY <1>2 DEF Goto
<1> QED BY <1>1, <1>2, ExecutionAssumption
        DEF StepOf, Execute, HandlerStep, HandlerFault, Claim, Dispatch, Complete, Fail, Defer,
            Crash, Load, ReadClock, LookupHit, Compute, CompleteStep, BeginAwait, BeginWait,
            ResultArrives, Persist, AwaitPayload, AwaitTimedOut, AwaitSuspended, ScheduleRun,
            Refused, AckLost, HandlerFails, SleepUntil, EventTimeout, Return, Raise, Stop, Phases

LEMMA NextEndInv ==
  ASSUME TypeInv, EndInv, [Next]_vars
  PROVE  EndInv'
<1> SUFFICES ASSUME NEW f \in Executors, phase'[f] = "completing"
             PROVE  pc'[f] = Len(Program) + 1
  BY DEF EndInv
<1>1. CASE UNCHANGED contextVars
  BY <1>1 DEF contextVars, EndInv
<1>2. CASE StepOf(f)
  BY <1>2, CompletingCases DEF HandlerReturns
<1>3. ASSUME NEW e \in Executors, e # f, StepOf(e)
      PROVE  pc'[f] = Len(Program) + 1
  BY <1>3, FrameOf DEF Frame, EndInv
<1> QED BY <1>1, <1>2, <1>3, NextCases

LEMMA NextProgressInv ==
  ASSUME TypeInv, ProgressInv, [Next]_vars
  PROVE  ProgressInv'
<1> SUFFICES ASSUME NEW f \in Executors, NEW i \in Ops, i < pc'[f], Checkpointed(i)
             PROVE  returned'[i] # {}
  BY DEF ProgressInv
<1>0. /\ returned \in [Ops -> SUBSET Outcomes] /\ pc \in [Executors -> 1..(Len(Program) + 1)]
      /\ i \in Nat /\ Len(Program) \in Nat
  BY ProgramAssumption DEF TypeInv, TypeOK, ContextTypeOK, Ops
<1>1. CASE UNCHANGED contextVars
  BY <1>1 DEF contextVars, ProgressInv
<1>2. ASSUME NEW e \in Executors, StepOf(e)
      PROVE  returned'[i] # {}
  <2>1. returned[i] # {} => returned'[i] # {}
    BY <1>0, <1>2, PlaceCases DEF Returns, Return, Stop
  <2>2. CASE e # f
    BY <1>2, <2>1, <2>2, FrameOf DEF Frame, ProgressInv
  <2>3. CASE e = f
    <3>1. CASE i < pc[f]
      BY <2>1, <3>1 DEF ProgressInv
    <3>2. CASE ~(i < pc[f])
      <4>1. ~Stop(e)
        BY <1>0, <2>3, <3>2, ProgramAssumption DEF Stop, Ops
      <4>2. pc'[f] = pc[f] + 1 /\ pc[f] = i
        BY <1>0, <1>2, <2>3, <3>2, <4>1, PlaceCases DEF Returns, Return
      <4>3. \E x : Returns(e, x)
        BY <1>0, <1>2, <2>3, <4>1, <4>2, PlaceCases
      <4> QED BY <1>0, <2>3, <4>2, <4>3 DEF Returns, Return
    <3> QED BY <3>1, <3>2
  <2> QED BY <2>2, <2>3
<1> QED BY <1>1, <1>2, NextCases

LEMMA InitProgress == Init => ProgressInv /\ EndInv
BY ProgramAssumption DEF Init, ContextInit, ProgressInv, EndInv, Ops

-----------------------------------------------------------------------------
(***************************************************************************)
(* Outcomes.                                                               *)
(***************************************************************************)
Outcome == IF run.state \in Terminal THEN run.state ELSE "open"

LEMMA WriterCase ==
  ASSUME TypeInv, [Next]_vars, checkpoint' # checkpoint
  PROVE  /\ run.state = "running" /\ run'.state = "running"
         /\ \E e \in Executors :
              /\ phase[e] \in Writing /\ Running(held[e])
              /\ \E v \in States : checkpoint' = [checkpoint EXCEPT ![Slot(e)] = v]
<1>s. StoreTypeOK
  BY DEF TypeInv, TypeOK
<1>1. PICK e \in Executors :
        /\ phase[e] \in Writing /\ Running(held[e])
        /\ \E v \in States : checkpoint' = [checkpoint EXCEPT ![Slot(e)] = v]
  BY CheckpointStep
<1>2. run.state = "running"
  BY <1>1, RunningIsLast
<1>3. run' = run \/ run' = Unwaited \/ checkpoint' = checkpoint
  <2>1. ASSUME NEW f \in Executors, HandlerStep(f) \/ HandlerFault(f)
        PROVE  run' = run \/ run' = Unwaited \/ checkpoint' = checkpoint
    BY <2>1
       DEF HandlerStep, HandlerFault, Load, ReadClock, LookupHit, Compute, BeginStep,
           CompleteStep, BeginAwait, BeginWait, ResultArrives, Persist,
           AwaitPayload, AwaitTimedOut, AwaitSuspended, ScheduleRun, Emit, Heartbeat, Refused,
           HandlerReturns, AckLost, HandlerFails, set_task_checkpoint_state, schedule_run,
           EventPayload, EventTimedOut, EventSuspend, emit_event, storeVars
  <2>2. ASSUME NEW f \in Executors,
               Claim(f) \/ Complete(f) \/ Fail(f) \/ Defer(f) \/ Crash(f) \/ Dispatch(f)
        PROVE  checkpoint' = checkpoint
    BY <2>2
       DEF Claim, claim_task, Complete, Fail, Defer, Crash, Dispatch, complete_run, fail_run,
           FailOrRetry, schedule_run, storeVars
  <2>3. CASE Environment
    BY <2>3
       DEF Environment, EmitEvent, emit_event, CancelTask, RetryTask, ExpireClaim, TimePasses,
           DelayEnds, FailOrRetry
  <2>4. CASE UNCHANGED vars
    BY <2>4 DEF vars, storeVars
  <2> QED BY <2>1, <2>2, <2>3, <2>4 DEF Next, Execute
<1>4. run'.state = "running"
  BY <1>2, <1>3 DEF Unwaited, Run
<1> QED BY <1>1, <1>2, <1>4

(* The outcome of a task is decided by its last run, and stays unless      *)
(* retry_task starts another.                                              *)
LEMMA OutcomeCases ==
  ASSUME TypeInv, [Next]_vars
  PROVE  \/ Outcome' = Outcome
         \/ Outcome = "open" /\ Outcome' \in {"failed", "cancelled"}
         \/ Outcome = "failed" /\ Outcome' = "open"
         \/ /\ Outcome = "open" /\ Outcome' = "completed"
            /\ \E e \in Executors : phase[e] = "completing"
<1>s. StoreTypeOK
  BY DEF TypeInv, TypeOK
<1>1. ASSUME FailOrRetry, run.state \in {"running", "sleeping"}
      PROVE  Outcome = "open" /\ Outcome' \in {"open", "failed"}
  BY <1>1 DEF FailOrRetry, Outcome, Terminal, NewRun, Ended, Run
<1>2. ASSUME NEW e \in Executors, HandlerStep(e) \/ HandlerFault(e) \/ Dispatch(e) \/ Crash(e)
      PROVE  Outcome' = Outcome
  <2>1. \/ run' = run \/ run' = Unwaited
        \/ /\ run.state \in {"running", "sleeping"}
           /\ run'.state \in {"sleeping", "pending"}
    BY <1>2, RunningIsLast
       DEF HandlerStep, HandlerFault, Load, ReadClock, LookupHit, Compute, BeginStep,
           CompleteStep, BeginAwait, BeginWait, ResultArrives, Persist,
           AwaitPayload, AwaitTimedOut, AwaitSuspended, ScheduleRun, Emit, Heartbeat, Refused,
           HandlerReturns, AckLost, HandlerFails, set_task_checkpoint_state, schedule_run,
           EventPayload, EventTimedOut, EventSuspend, emit_event, storeVars, NewRun, Run,
           Dispatch, Crash
  <2> QED BY <2>1 DEF Outcome, Unwaited, Run, Terminal
<1>3. ASSUME NEW e \in Executors, Complete(e)
      PROVE  \/ Outcome' = Outcome
             \/ /\ Outcome = "open" /\ Outcome' = "completed" /\ phase[e] = "completing"
  <2>1. \/ run' = run
        \/ run.state = "running" /\ run'.state = "completed" /\ phase[e] = "completing"
    BY <1>3, RunningIsLast DEF Complete, complete_run, storeVars, Ended, Run
  <2> QED BY <2>1 DEF Outcome, Terminal
<1>4. ASSUME NEW e \in Executors, Fail(e)
      PROVE  Outcome' = Outcome \/ (Outcome = "open" /\ Outcome' = "failed")
  <2>1. CASE UNCHANGED storeVars
    BY <2>1 DEF Outcome, storeVars
  <2>2. CASE fail_run(held[e])
    <3>1. run.state \in {"running", "sleeping"} /\ FailOrRetry
      BY <2>2 DEF fail_run, RunState
    <3> QED BY <1>1, <3>1
  <2> QED BY <1>4, <2>1, <2>2 DEF Fail
<1>5. ASSUME NEW e \in Executors, Claim(e) \/ Defer(e)
      PROVE  Outcome' = Outcome
  <2>1. \/ run' = run
        \/ /\ run.state \in {"pending", "sleeping", "running"}
           /\ run'.state \in {"sleeping", "running"}
    BY <1>5, RunningIsLast DEF Claim, claim_task, Defer, schedule_run, storeVars, NewRun, Run
  <2> QED BY <2>1 DEF Outcome, Terminal
<1>6. CASE Environment
  <2>1. CASE ExpireClaim
    BY <1>1, <2>1 DEF ExpireClaim
  <2>2. CASE CancelTask
    BY <2>2 DEF CancelTask, Outcome, Terminal, Ended, Run
  <2>3. CASE RetryTask
    BY <2>3 DEF RetryTask, Outcome, Terminal, NewRun, Run
  <2>4. CASE EmitEvent \/ DelayEnds \/ \E w \in WakeTimes : TimePasses(w)
    BY <2>4 DEF EmitEvent, emit_event, DelayEnds, TimePasses, Outcome, Terminal, Run
  <2> QED BY <1>6, <2>1, <2>2, <2>3, <2>4 DEF Environment
<1>7. CASE UNCHANGED vars
  BY <1>7 DEF vars, storeVars, Outcome
<1> QED BY <1>1, <1>2, <1>3, <1>4, <1>5, <1>6, <1>7 DEF Next, Execute

(* What the completion of a task rests on. *)
EndsInv == TypeInv /\ ReplayInv /\ StableInv /\ ProgressInv /\ EndInv

LEMMA SpecEndsInv == HandlesApart => (Spec => []EndsInv)
<1> SUFFICES ASSUME HandlesApart PROVE Spec => []EndsInv
  OBVIOUS
<1>1. TypeInv /\ ProgressInv /\ EndInv /\ [Next]_vars => ProgressInv' /\ EndInv'
  BY NextProgressInv, NextEndInv
<1> QED BY <1>1, InitProgress, SpecStableInv, PTL DEF Spec, EndsInv

(* What has returned is in its checkpoint. *)
LEMMA PassedIsThere ==
  ASSUME EndsInv, NEW e \in Executors, NEW i \in Ops, Checkpointed(i), i < pc[e],
         CheckpointName(i) \in Firm
  PROVE  checkpoint[CheckpointName(i)] # NoState
<1>1. returned[i] # {}
  BY DEF EndsInv, ProgressInv
<1> QED BY <1>1 DEF EndsInv, StableInv, FirmStable

LEMMA CompletingHasAll ==
  ASSUME EndsInv, NEW e \in Executors, phase[e] = "completing", NEW i \in Ops, Checkpointed(i),
         CheckpointName(i) \in Firm
  PROVE  checkpoint[CheckpointName(i)] # NoState
<1>1. i < pc[e]
  BY ProgramAssumption DEF EndsInv, EndInv, Ops
<1> QED BY <1>1, PassedIsThere

LEMMA NoCatchFirm ==
  ASSUME NoCatch, NEW i \in Ops, Checkpointed(i)
  PROVE  CheckpointName(i) \in Firm
BY OpenerAsks DEF Firm

LEMMA NextCompletedWithAll ==
  ASSUME NoCatch, EndsInv, CompletedWithAllCheckpoints, [Next]_vars
  PROVE  CompletedWithAllCheckpoints'
<1> SUFFICES ASSUME run'.state = "completed", NEW i \in Ops, Checkpointed(i)
             PROVE  checkpoint'[CheckpointName(i)] # NoState
  BY DEF CompletedWithAllCheckpoints
<1>1. CheckpointName(i) \in Slots /\ Outcome' = "completed"
  BY OpenerAsks DEF Outcome, Terminal
<1>2. checkpoint[CheckpointName(i)] # NoState
  <2>1. CASE Outcome = "completed"
    BY <2>1 DEF Outcome, CompletedWithAllCheckpoints
  <2>2. CASE \E e \in Executors : phase[e] = "completing"
    BY <2>2, CompletingHasAll, NoCatchFirm
  <2> QED BY <1>1, <2>1, <2>2, OutcomeCases DEF EndsInv
<1> QED BY <1>1, <1>2, StepMonotone DEF EndsInv, ReplayInv, Monotone

(* A task that lets timeouts end it completes with a checkpoint for each   *)
(* of its operations, though the execution that completes it may not have  *)
(* made any of them.                                                       *)
THEOREM CompletionsAreWhole ==
  NoCatch /\ HandlesApart => (Spec => []CompletedWithAllCheckpoints)
<1> SUFFICES ASSUME NoCatch, HandlesApart PROVE Spec => []CompletedWithAllCheckpoints
  OBVIOUS
<1>1. Init => CompletedWithAllCheckpoints
  BY DEF Init, StoreInit, NewRun, Run, CompletedWithAllCheckpoints
<1>2. EndsInv /\ CompletedWithAllCheckpoints /\ [Next]_vars => CompletedWithAllCheckpoints'
  BY NextCompletedWithAll
<1> QED BY <1>1, <1>2, SpecEndsInv, PTL DEF Spec

-----------------------------------------------------------------------------
(***************************************************************************)
(* The refinement of the durable task.  A handler that catches timeouts    *)
(* implements one whose operations are all but the events.                 *)
(***************************************************************************)
FirmOps == {i \in Ops : Checkpointed(i) /\ (NoCatch \/ Program[i].kind # "event")}

ResultOf == [i \in FirmOps |-> checkpoint[CheckpointName(i)]]

FirmTask == INSTANCE DurableTask WITH
  Positions <- FirmOps,
  Results   <- States,
  NoResult  <- NoState,
  results   <- ResultOf,
  outcome   <- Outcome

LEMMA FirmSlots ==
  ASSUME SlotsApart, NEW i \in Ops, Checkpointed(i)
  PROVE  i \in FirmOps <=> CheckpointName(i) \in Firm
<1>1. CheckpointName(i) \in Slots
  BY OpenerAsks
<1>2. EventSlot(CheckpointName(i)) <=> Program[i].kind = "event"
  BY DEF EventSlot, SlotsApart, Checkpointed
<1> QED BY <1>1, <1>2 DEF Firm, FirmOps

(* A write is the next result in program order, or that of an event.       *)
LEMMA WriteRecords ==
  ASSUME SlotsApart, EndsInv, [Next]_vars, checkpoint' # checkpoint
  PROVE  ResultOf' = ResultOf \/ \E i \in FirmOps : FirmTask!Record(i)
<1>1. /\ run.state = "running" /\ run'.state = "running"
      /\ \E e \in Executors :
           /\ phase[e] \in Writing /\ Running(held[e])
           /\ \E v \in States : checkpoint' = [checkpoint EXCEPT ![Slot(e)] = v]
  BY WriterCase DEF EndsInv
<1>2. PICK e \in Executors, v \in States :
        /\ phase[e] \in Writing /\ Running(held[e])
        /\ checkpoint' = [checkpoint EXCEPT ![Slot(e)] = v]
  BY <1>1
<1>3. pc[e] \in Ops /\ Checkpointed(pc[e])
  BY <1>2, WriterOp DEF EndsInv
<1>4. Outcome = "open" /\ Outcome' = "open"
  BY <1>1 DEF Outcome, Terminal
<1>5. \A j \in FirmOps : checkpoint'[CheckpointName(j)] =
        IF j = pc[e] THEN v ELSE checkpoint[CheckpointName(j)]
  <2>1. \A j \in FirmOps : CheckpointName(j) \in Slots
    BY OpenerAsks DEF FirmOps
  <2>2. checkpoint \in [Slots -> States \cup {NoState}]
    BY DEF EndsInv, TypeInv, TypeOK, StoreTypeOK
  <2> QED BY <1>2, <1>3, <2>1, <2>2 DEF SlotsApart, FirmOps, Slot
<1>6. CASE pc[e] \notin FirmOps
  BY <1>5, <1>6 DEF ResultOf
<1>7. CASE pc[e] \in FirmOps
  <2>1. ResultOf[pc[e]] = NoState
    BY <1>2, <1>7 DEF EndsInv, ReplayInv, WriteInv, ResultOf, Slot
  <2>2. \A j \in FirmOps : j < pc[e] => ResultOf[j] # NoState
    BY PassedIsThere, FirmSlots DEF FirmOps, ResultOf
  <2>3. ResultOf' = [ResultOf EXCEPT ![pc[e]] = v]
    BY <1>5, <1>7 DEF ResultOf
  <2>4. FirmTask!Record(pc[e])
    BY <1>4, <1>7, <2>1, <2>2, <2>3 DEF FirmTask!Record
  <2> QED BY <1>7, <2>4
<1> QED BY <1>6, <1>7

LEMMA FirmStep ==
  ASSUME SlotsApart, EndsInv, [Next]_vars
  PROVE  [FirmTask!Next]_(FirmTask!vars)
<1>1. CASE ResultOf' # ResultOf
  <2>1. checkpoint' # checkpoint
    BY <1>1 DEF ResultOf
  <2> QED BY <1>1, <2>1, WriteRecords DEF FirmTask!Next
<1>2. CASE ResultOf' = ResultOf
  <2>1. CASE Outcome' = Outcome
    BY <1>2, <2>1 DEF FirmTask!vars
  <2>2. CASE Outcome = "open" /\ Outcome' \in {"failed", "cancelled"}
    BY <1>2, <2>2 DEF FirmTask!Next, FirmTask!GiveUp
  <2>3. CASE Outcome = "failed" /\ Outcome' = "open"
    BY <1>2, <2>3 DEF FirmTask!Next, FirmTask!Reopen
  <2>4. CASE /\ Outcome = "open" /\ Outcome' = "completed"
             /\ \E e \in Executors : phase[e] = "completing"
    <3>1. \A i \in FirmOps : ResultOf[i] # NoState
      BY <2>4, CompletingHasAll, FirmSlots DEF FirmOps, ResultOf
    <3> QED BY <1>2, <2>4, <3>1 DEF FirmTask!Next, FirmTask!Complete
  <2> QED BY <2>1, <2>2, <2>3, <2>4, OutcomeCases DEF EndsInv
<1> QED BY <1>1, <1>2

LEMMA FirmInit == Init => FirmTask!Init
<1> SUFFICES ASSUME Init PROVE FirmTask!Init
  OBVIOUS
<1>1. Outcome = "open"
  BY DEF Init, StoreInit, NewRun, Run, Outcome, Terminal
<1>2. ResultOf = [i \in FirmOps |-> NoState]
  BY OpenerAsks DEF Init, StoreInit, ResultOf, FirmOps
<1> QED BY <1>1, <1>2 DEF FirmTask!Init

(* What is left of the durable task for a handler that catches timeouts:   *)
(* its steps, handles, sleeps and results are those of a durable task, in  *)
(* order, once, and all of them when it completes, whatever its events do  *)
(* in between.                                                             *)
THEOREM FirmTasksAreDurable == SlotsApart => (Spec => FirmTask!Spec)
<1> SUFFICES ASSUME SlotsApart PROVE Spec => FirmTask!Spec
  OBVIOUS
<1>1. HandlesApart
  BY SlotsApartHandles
<1>2. EndsInv /\ [Next]_vars => [FirmTask!Next]_(FirmTask!vars)
  BY FirmStep
<1> QED BY <1>1, <1>2, FirmInit, SpecEndsInv, PTL DEF Spec, FirmTask!Spec

(* Without caught timeouts nothing is left out. *)
LEMMA FirmIsAll ==
  ASSUME NoCatch
  PROVE  FirmOps = {i \in Ops : Checkpointed(i)}
BY DEF FirmOps

LEMMA DurableStep ==
  ASSUME NoCatch, [FirmTask!Next]_(FirmTask!vars)
  PROVE  [Durable!Next]_(Durable!vars)
BY FirmIsAll
   DEF FirmTask!Next, FirmTask!Record, FirmTask!Complete, FirmTask!GiveUp, FirmTask!Reopen,
       FirmTask!vars, Durable!Next, Durable!Record, Durable!Complete, Durable!GiveUp,
       Durable!Reopen, Durable!vars, ResultOf, Outcome

LEMMA DurableInit ==
  ASSUME NoCatch, FirmTask!Init
  PROVE  Durable!Init
BY FirmIsAll DEF FirmTask!Init, Durable!Init, ResultOf, Outcome

(* Claims, leases, retries, crashes and lost answers come down to a task   *)
(* that records the results of its operations one after the other, each    *)
(* once, and ends once: when timeouts end the handler and every operation  *)
(* has a checkpoint of its own (NamesKeepSlotsApart says when it has).     *)
THEOREM TasksAreDurable == NoCatch /\ SlotsApart => (Spec => ImplementsDurableTask)
<1> SUFFICES ASSUME NoCatch, SlotsApart PROVE Spec => ImplementsDurableTask
  OBVIOUS
<1>1. FirmTask!Init => Durable!Init
  BY DurableInit
<1>2. [FirmTask!Next]_(FirmTask!vars) => [Durable!Next]_(Durable!vars)
  BY DurableStep
<1> QED BY <1>1, <1>2, FirmTasksAreDurable, PTL DEF FirmTask!Spec, ImplementsDurableTask,
       Durable!Spec
=============================================================================
