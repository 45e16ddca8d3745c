------------------------------ MODULE FleetProofs ------------------------------
(***************************************************************************)
(* Proofs about Fleet, for any number of tasks, queues, workers and        *)
(* batches, and any waits between the tasks.                               *)
(***************************************************************************)
EXTENDS Fleet, FiniteSetTheorems, WellFoundedInduction, TLAPS

(* A set of natural numbers has a least one. *)
LEMMA LeastNatural ==
  ASSUME NEW T, T \subseteq Nat, T # {}
  PROVE  \E m \in T : \A n \in T : m <= n
<1>1. IsWellFoundedOn(OpToRel(<, Nat), Nat)
  BY NatLessThanWellFounded
<1>2. \E m \in T : \A n \in T : <<n, m>> \notin OpToRel(<, Nat)
  BY <1>1, WFMin
<1>3. \A m, n \in Nat : <<n, m>> \notin OpToRel(<, Nat) => m <= n
  BY DEF OpToRel
<1> QED BY <1>2, <1>3

(* Runs are pairs of a task and the number of an attempt. *)
LEMMA RunFacts ==
  /\ \A r \in Runs : r[1] \in Tasks /\ r[2] \in 1..MaxRuns
  /\ TypeOK => \A t \in Tasks : Last(t) \in Runs /\ Last(t)[1] = t
  BY DEF Runs, Last, TypeOK

-----------------------------------------------------------------------------
(* Types.                                                                  *)

(* An execution and the process it is in belong to each other. *)
Placed == \A r \in Runs : at[r] # "none" <=> server[r] # NoServer

(* What is persisted has been fetched. *)
Fetched == \A r \in Runs : at[r] = "persisting" => fetched[r] # "none"

LEMMA InitType == Init => TypeOK
  BY FleetAssumption DEF Init, TypeOK, Stages, Ends

LEMMA NextRunType ==
  ASSUME TypeOK, NEW t \in Tasks, NextRun(t)
  PROVE  /\ state' \in [Tasks -> {"pending", "running"} \cup Ends]
         /\ attempt' \in [Tasks -> 1..MaxRuns]
BY FleetAssumption DEF TypeOK, NextRun, Ends

LEMMA EndStateType ==
  ASSUME TypeOK, NEW t \in Tasks, NEW x \in Ends, End(t, x)
  PROVE  /\ state' \in [Tasks -> {"pending", "running"} \cup Ends]
         /\ attempt' \in [Tasks -> 1..MaxRuns]
BY DEF TypeOK, End

LEMMA FailOrRetryType ==
  ASSUME TypeOK, NEW t \in Tasks, FailOrRetry(t)
  PROVE  /\ state' \in [Tasks -> {"pending", "running"} \cup Ends]
         /\ attempt' \in [Tasks -> 1..MaxRuns]
BY NextRunType, EndStateType DEF FailOrRetry, Ends

LEMMA GotoType ==
  ASSUME TypeOK, NEW r \in Runs, at[r] # "none",
         NEW x \in Stages \ {"none", "persisting"}, Goto(r, x)
  PROVE  TypeOK'
  BY DEF TypeOK, Goto, Stages

LEMMA ForgetType ==
  ASSUME TypeOK, NEW R, Forget(R)
  PROVE  /\ server' \in [Runs -> Servers \cup {NoServer}]
         /\ at' \in [Runs -> Stages]
         /\ fetched' \in [Runs -> Ends \cup {"none"}]
         /\ Placed' /\ Fetched'
  BY DEF TypeOK, Forget, Stages, Placed, Fetched

LEMMA ClaimType ==
  ASSUME TypeOK, NEW s \in Servers, Claim(s)
  PROVE  TypeOK'
<1>1. PICK S \in SUBSET Claimable(s) :
        LET claimed == {Last(t) : t \in S}
        IN /\ state' = [t \in Tasks |-> IF t \in S THEN "running" ELSE state[t]]
           /\ server' = [r \in Runs |-> IF r \in claimed THEN s ELSE server[r]]
           /\ at' = [r \in Runs |-> IF r \notin claimed THEN at[r]
                                    ELSE IF s \in Batches THEN "claimed" ELSE "handler"]
           /\ UNCHANGED <<awaits, timed, attempt, fetched, known>>
  BY Zenon DEF Claim
<1> USE FleetAssumption DEF TypeOK, Stages, Ends
<1> DEFINE claimed == {Last(t) : t \in S}
<1>2. state' \in [Tasks -> {"pending", "running"} \cup Ends]
  BY <1>1
<1>3. /\ server' = [r \in Runs |-> IF r \in claimed THEN s ELSE server[r]]
      /\ at' = [r \in Runs |-> IF r \notin claimed THEN at[r]
                               ELSE IF s \in Batches THEN "claimed" ELSE "handler"]
  BY <1>1, Zenon
<1>4. /\ server' \in [Runs -> Servers \cup {NoServer}]
      /\ at' \in [Runs -> Stages]
      /\ \A r \in Runs : at'[r] # "none" <=> server'[r] # NoServer
      /\ \A r \in Runs : at'[r] = "persisting" => fetched[r] # "none"
  <2> HIDE DEF claimed
  <2> QED BY <1>3
<1> QED BY <1>1, <1>2, <1>4

LEMMA HandlerType ==
  ASSUME TypeOK, NEW r \in Runs,
         NextOfBatch(r) \/ HandlerStep(r) \/ WaitErrs(r)
  PROVE  TypeOK'
<1>1. \E x \in Stages \ {"none", "persisting"} : Goto(r, x) /\ at[r] # "none"
  BY DEF NextOfBatch, HandlerStep, WaitErrs, AnswerOrError, Stages
<1> QED BY <1>1, GotoType

LEMMA SnapshotType ==
  ASSUME TypeOK, NEW r \in Runs, Fetch(r) \/ Persist(r)
  PROVE  TypeOK'
<1>1. CASE Fetch(r)
  <2>1. state[awaits[r[1]]] \in Ends
    BY <1>1 DEF Fetch, IsOver
  <2>2. fetched' \in [Runs -> Ends \cup {"none"}]
    BY <1>1, <2>1 DEF TypeOK, Fetch
  <2>3. \A q \in Runs : at'[q] = "persisting" => fetched'[q] # "none"
    BY <1>1, <2>1 DEF TypeOK, Fetch, Ends
  <2> QED BY <1>1, <2>2, <2>3 DEF TypeOK, Fetch, Stages
<1>2. CASE Persist(r)
  <2>1. fetched[r] \in Ends
    BY <1>2 DEF TypeOK, Persist
  <2>2. known' \in [Tasks -> Ends \cup {"none"}]
    BY <1>2, <2>1 DEF TypeOK, Persist
  <2>3. PICK x \in AnswerOrError : at' = [at EXCEPT ![r] = x]
    BY <1>2 DEF Persist
  <2>4. fetched' \in [Runs -> Ends \cup {"none"}]
    BY <1>2 DEF TypeOK, Persist
  <2>5. /\ at' \in [Runs -> Stages]
        /\ \A q \in Runs : at'[q] = "persisting" => fetched'[q] # "none"
        /\ \A q \in Runs : at'[q] # "none" <=> server'[q] # NoServer
    BY <1>2, <2>3 DEF TypeOK, Persist, Stages, AnswerOrError
  <2> QED BY <1>2, <2>2, <2>4, <2>5 DEF TypeOK, Persist
<1> QED BY <1>1, <1>2

LEMMA EndType ==
  ASSUME TypeOK, NEW r \in Runs, WaitRefused(r) \/ Report(r) \/ ReportFails(r)
  PROVE  TypeOK'
<1>1. PICK R : Forget(R)
  BY DEF WaitRefused, Report, ReportFails
<1>2. UNCHANGED <<awaits, timed, known>>
  BY DEF WaitRefused, Report, ReportFails
<1>3. /\ state' \in [Tasks -> {"pending", "running"} \cup Ends]
      /\ attempt' \in [Tasks -> 1..MaxRuns]
  <2>1. \/ UNCHANGED <<state, attempt>>
        \/ FailOrRetry(r[1])
        \/ End(r[1], "completed")
    BY DEF WaitRefused, Report, ReportFails
  <2> QED BY <2>1, RunFacts, FailOrRetryType, EndStateType DEF TypeOK, Ends
<1>4. /\ server' \in [Runs -> Servers \cup {NoServer}]
      /\ at' \in [Runs -> Stages]
      /\ fetched' \in [Runs -> Ends \cup {"none"}]
      /\ Placed' /\ Fetched'
  BY <1>1, ForgetType
<1> QED BY <1>2, <1>3, <1>4 DEF TypeOK, Placed, Fetched

LEMMA OutsideType ==
  ASSUME TypeOK, NEW t \in Tasks, Expire(t) \/ CancelTask(t) \/ RetryTask(t)
  PROVE  TypeOK'
<1>1. FailOrRetry(t) \/ End(t, "cancelled") \/ NextRun(t)
  BY DEF Expire, CancelTask, RetryTask
<1>2. /\ state' \in [Tasks -> {"pending", "running"} \cup Ends]
      /\ attempt' \in [Tasks -> 1..MaxRuns]
  BY <1>1, FailOrRetryType, EndStateType, NextRunType DEF Ends
<1>3. UNCHANGED <<awaits, timed, fetched, known, server, at>>
  BY DEF Expire, CancelTask, RetryTask
<1> QED BY <1>2, <1>3 DEF TypeOK

LEMMA CrashType ==
  ASSUME TypeOK, NEW s \in Servers, Crash(s)
  PROVE  TypeOK'
  BY ForgetType DEF TypeOK, Crash, Placed, Fetched

LEMMA NextType == TypeOK /\ [Next]_vars => TypeOK'
<1> SUFFICES ASSUME TypeOK, [Next]_vars PROVE TypeOK'
  OBVIOUS
<1>1. ASSUME NEW s \in Servers, Claim(s) \/ Crash(s) PROVE TypeOK'
  BY <1>1, ClaimType, CrashType
<1>2. ASSUME NEW r \in Runs, ExecutionStep(r) \/ WaitErrs(r) \/ ReportFails(r) PROVE TypeOK'
  BY <1>2, HandlerType, SnapshotType, EndType DEF ExecutionStep, WaitTimesOut
<1>3. ASSUME NEW t \in Tasks, Expire(t) \/ CancelTask(t) \/ RetryTask(t) PROVE TypeOK'
  BY <1>3, OutsideType
<1>4. CASE UNCHANGED vars
  BY <1>4 DEF vars, TypeOK
<1> QED BY <1>1, <1>2, <1>3, <1>4, FleetAssumption DEF Next

(* Every variable keeps its type: in particular an execution is in a       *)
(* process exactly as long as it is anywhere, and what it persists is a    *)
(* snapshot of a task that was over.                                       *)
THEOREM FleetTypeCorrect == Spec => []TypeOK
  BY InitType, NextType, PTL DEF Spec

-----------------------------------------------------------------------------
(* What can become of a task in a step.                                    *)

Becomes(u, x) == state'[u] = x /\ attempt'[u] = attempt[u]
Again(u) == state'[u] = "pending" /\ attempt'[u] = attempt[u] + 1

TaskStep(u) ==
  \/ Becomes(u, state[u])
  \/ state[u] = "pending" /\ Becomes(u, "running")
  \/ state[u] = "running" /\ Becomes(u, "completed")
  \/ state[u] = "running" /\ attempt[u] >= MaxAttempts[u] /\ Becomes(u, "failed")
  \/ ~IsOver(u) /\ Becomes(u, "cancelled")
  \/ state[u] \in {"running", "failed"} /\ Again(u)

LEMMA NextTask ==
  ASSUME TypeOK, [Next]_vars, NEW u \in Tasks
  PROVE  TaskStep(u)
<1> USE DEF TaskStep, Becomes, Again
<1>1. ASSUME NEW t \in Tasks, state[t] \in {"running", "failed"}, NextRun(t)
      PROVE  TaskStep(u)
  BY <1>1, FleetAssumption DEF NextRun, TypeOK
<1>2. ASSUME NEW t \in Tasks, state[t] = "running", FailOrRetry(t)
      PROVE  TaskStep(u)
  <2>1. CASE NextRun(t)
    BY <1>1, <1>2, <2>1
  <2>2. CASE attempt[t] >= MaxAttempts[t] /\ End(t, "failed")
    BY <1>2, <2>2 DEF End, TypeOK
  <2> QED BY <1>2, <2>1, <2>2 DEF FailOrRetry
<1>3. ASSUME NEW s \in Servers, Claim(s)
      PROVE  TaskStep(u)
  <2>1. PICK S \in SUBSET Claimable(s) :
          state' = [t \in Tasks |-> IF t \in S THEN "running" ELSE state[t]]
    BY <1>3, Zenon DEF Claim
  <2>2. attempt' = attempt
    BY <1>3 DEF Claim
  <2> QED BY <2>1, <2>2 DEF Claimable, TypeOK
<1>4. ASSUME NEW r \in Runs, Report(r)
      PROVE  TaskStep(u)
  <2>1. r[1] \in Tasks
    BY RunFacts
  <2>2. CASE Current(r) /\ at[r] = "failing"
    BY <1>2, <1>4, <2>1, <2>2 DEF Report, Current
  <2>3. CASE Current(r) /\ at[r] # "failing"
    BY <1>4, <2>1, <2>3 DEF Report, Current, End, TypeOK
  <2>4. CASE ~Current(r)
    BY <1>4, <2>4 DEF Report
  <2> QED BY <2>2, <2>3, <2>4
<1>5. ASSUME NEW t \in Tasks, Expire(t) \/ CancelTask(t) \/ RetryTask(t)
      PROVE  TaskStep(u)
  <2>1. CASE Expire(t)
    BY <1>2, <2>1 DEF Expire
  <2>2. CASE CancelTask(t)
    BY <2>2 DEF CancelTask, End, TypeOK
  <2>3. CASE RetryTask(t)
    BY <1>1, <2>3 DEF RetryTask
  <2> QED BY <1>5, <2>1, <2>2, <2>3
<1>6. ASSUME NEW r \in Runs, ExecutionStep(r) \/ WaitErrs(r) \/ ReportFails(r)
      PROVE  TaskStep(u)
  BY <1>4, <1>6 DEF ExecutionStep, NextOfBatch, HandlerStep, Fetch, Persist, WaitTimesOut,
     WaitErrs, WaitRefused, ReportFails, Goto
<1>7. ASSUME NEW s \in Servers, Crash(s)
      PROVE  TaskStep(u)
  BY <1>7 DEF Crash
<1> QED BY <1>3, <1>5, <1>6, <1>7, FleetAssumption DEF Next, vars

-----------------------------------------------------------------------------
(* What becomes of a wait.                                                 *)

InWait(r) == at[r] \in {"waiting", "persisting"}

(* An execution comes to its wait from its handler, and stays there: then  *)
(* it has not got hold of a run meanwhile, and has persisted nothing.      *)
LEMMA NextInWait ==
  ASSUME TypeOK, [Next]_vars, NEW r \in Runs, at'[r] \in {"waiting", "persisting"}
  PROVE  \/ InWait(r) /\ (state'[r[1]] = "running" /\ r[2] = attempt'[r[1]] => Current(r))
         \/ HandlerStep(r) /\ Goto(r, "waiting") /\ Waits(r[1]) /\ ~Refused(r[1])
<1> DEFINE Stays == InWait(r) /\ (state'[r[1]] = "running" /\ r[2] = attempt'[r[1]] => Current(r))
<1> DEFINE Comes == HandlerStep(r) /\ Goto(r, "waiting") /\ Waits(r[1]) /\ ~Refused(r[1])
<1>r. r[1] \in Tasks /\ r = <<r[1], r[2]>>
  BY DEF Runs
<1>a. ASSUME InWait(r), state'[r[1]] = "running" => state[r[1]] = "running" /\ attempt'[r[1]] = attempt[r[1]]
      PROVE  Stays
  BY <1>a, <1>r DEF Current, Last
<1>1. ASSUME NEW s \in Servers, Claim(s) PROVE Stays
  <2>1. PICK S \in SUBSET Claimable(s) :
          /\ state' = [t \in Tasks |-> IF t \in S THEN "running" ELSE state[t]]
          /\ at' = [q \in Runs |-> IF q \notin {Last(t) : t \in S} THEN at[q]
                                   ELSE IF s \in Batches THEN "claimed" ELSE "handler"]
    BY <1>1, Zenon DEF Claim
  <2>2. attempt' = attempt
    BY <1>1 DEF Claim
  <2> DEFINE claimed == {Last(t) : t \in S}
  <2>3. at' = [q \in Runs |-> IF q \notin claimed THEN at[q]
                             ELSE IF s \in Batches THEN "claimed" ELSE "handler"]
    BY <2>1, Zenon
  <2>4. r \notin claimed /\ at'[r] = at[r]
    <3> HIDE DEF claimed
    <3> QED BY <2>3
  <2>5. ASSUME r[1] \in S, r[2] = attempt[r[1]] PROVE FALSE
    BY <2>4, <2>5, <1>r DEF Last
  <2>6. r[2] = attempt[r[1]] /\ state'[r[1]] = "running" => state[r[1]] = "running"
    BY <2>1, <2>5, <1>r
  <2> QED BY <2>2, <2>4, <2>6, <1>r DEF InWait, Current, Last
<1>2. ASSUME UNCHANGED <<at, state, attempt>> PROVE Stays
  BY <1>a, <1>2 DEF InWait
<1>3. ASSUME NEW R, Forget(R) PROVE at'[r] = at[r]
  BY <1>3 DEF Forget
<1>4. TaskStep(r[1])
  BY <1>r, NextTask
<1>5. ASSUME at'[r] = at[r], state[r[1]] # "pending" \/ state' = state PROVE Stays
  BY <1>4, <1>5, <1>a DEF TaskStep, Becomes, Again, InWait
<1>6. ASSUME at'[r] = at[r], \/ \E t \in Tasks : Expire(t) \/ CancelTask(t) \/ RetryTask(t)
                            \/ \E q \in Runs : Report(q)
      PROVE  Stays
  <2>1. state[r[1]] = "pending" => state'[r[1]] # "running"
    <3>1. ASSUME NEW t \in Tasks, NextRun(t) PROVE state'[r[1]] = "running" => state[r[1]] = "running"
      BY <3>1, <1>r DEF NextRun, TypeOK
    <3>2. ASSUME NEW t \in Tasks, NEW x \in Ends, End(t, x)
          PROVE  state'[r[1]] = "running" => state[r[1]] = "running"
      BY <3>2, <1>r DEF End, TypeOK, Ends
    <3>3. \A q \in Runs : q[1] \in Tasks
      BY RunFacts
    <3> QED BY <1>6, <3>1, <3>2, <3>3 DEF Expire, CancelTask, RetryTask, Report, FailOrRetry, Ends
  <2> QED BY <1>4, <1>6, <1>a, <2>1 DEF TaskStep, Becomes, Again, InWait
<1>7. ASSUME NEW t \in Tasks, Expire(t) \/ CancelTask(t) \/ RetryTask(t) PROVE Stays
  <2>1. at' = at
    BY <1>7 DEF Expire, CancelTask, RetryTask
  <2> QED BY <1>6, <1>7, <2>1
<1>8. ASSUME NEW q \in Runs, Report(q) PROVE Stays
  <2>1. at'[r] = at[r]
    BY <1>3, <1>8 DEF Report
  <2> QED BY <1>6, <1>8, <2>1
<1>9. ASSUME NEW q \in Runs, WaitRefused(q) \/ ReportFails(q) PROVE Stays
  <2>1. at'[r] = at[r] /\ state' = state
    BY <1>3, <1>9 DEF WaitRefused, ReportFails
  <2> QED BY <1>5, <2>1
<1>10. ASSUME NEW s \in Servers, Crash(s) PROVE Stays
  <2>1. at'[r] = at[r] /\ state' = state
    BY <1>3, <1>10 DEF Crash
  <2> QED BY <1>5, <2>1
<1>11. ASSUME NEW q \in Runs, Fetch(q) \/ Persist(q) PROVE Stays
  <2>1. state' = state /\ attempt' = attempt
    BY <1>11 DEF Fetch, Persist
  <2>2. InWait(r)
    BY <1>11 DEF Fetch, Persist, AnswerOrError, InWait, TypeOK
  <2> QED BY <1>a, <2>1, <2>2
<1>12. ASSUME NEW q \in Runs, NEW x, Goto(q, x) PROVE Stays \/ (q = r /\ x \in {"waiting", "persisting"})
  <2>1. state' = state /\ attempt' = attempt
    BY <1>12 DEF Goto
  <2>2. InWait(r) \/ (q = r /\ x \in {"waiting", "persisting"})
    BY <1>12 DEF Goto, InWait, TypeOK
  <2> QED BY <1>a, <2>1, <2>2
<1>13. ASSUME NEW q \in Runs, NextOfBatch(q) \/ WaitErrs(q) PROVE Stays
  BY <1>12, <1>13 DEF NextOfBatch, WaitErrs, AnswerOrError
<1>14. ASSUME NEW q \in Runs, HandlerStep(q) PROVE Stays \/ Comes
  BY <1>12, <1>14 DEF HandlerStep
<1>15. ASSUME NEW q \in Runs, ExecutionStep(q) \/ WaitErrs(q) \/ ReportFails(q)
       PROVE  Stays \/ Comes
  BY <1>8, <1>9, <1>11, <1>13, <1>14, <1>15 DEF ExecutionStep, WaitTimesOut
<1> HIDE DEF Stays, Comes
<1>16. Stays \/ Comes
  BY <1>1, <1>2, <1>7, <1>10, <1>15, FleetAssumption DEF Next, vars
<1> QED BY <1>16 DEF Stays, Comes

(* A snapshot is fetched from a task that is over, and stays as it is. *)
LEMMA NextFetched ==
  ASSUME TypeOK, [Next]_vars, NEW r \in Runs, at'[r] = "persisting"
  PROVE  \/ at[r] = "persisting" /\ fetched'[r] = fetched[r]
         \/ /\ at[r] = "waiting" /\ IsOver(awaits[r[1]])
            /\ fetched'[r] = state[awaits[r[1]]] /\ state' = state
<1> DEFINE Stays == at[r] = "persisting" /\ fetched'[r] = fetched[r]
<1>1. ASSUME NEW R, Forget(R) PROVE Stays
  BY <1>1 DEF Forget
<1>2. ASSUME NEW q \in Runs, NEW x, x # "persisting", Goto(q, x) PROVE Stays
  BY <1>2 DEF Goto, TypeOK
<1>3. ASSUME NEW s \in Servers, Claim(s) PROVE Stays
  <2>1. PICK R : at' = [q \in Runs |-> IF q \notin R THEN at[q]
                            ELSE IF s \in Batches THEN "claimed" ELSE "handler"]
    BY <1>3, Zenon DEF Claim
  <2>2. fetched' = fetched
    BY <1>3 DEF Claim
  <2> QED BY <2>1, <2>2
<1>4. ASSUME NEW q \in Runs, Persist(q) PROVE Stays
  BY <1>4 DEF Persist, AnswerOrError, TypeOK
<1>5. ASSUME NEW q \in Runs, ExecutionStep(q) \/ WaitErrs(q) \/ ReportFails(q), ~Fetch(q)
      PROVE  Stays
  <2>1. CASE NextOfBatch(q) \/ HandlerStep(q) \/ WaitErrs(q)
    BY <1>2, <2>1 DEF NextOfBatch, HandlerStep, WaitErrs, AnswerOrError
  <2>2. CASE WaitRefused(q) \/ Report(q) \/ ReportFails(q)
    BY <1>1, <2>2 DEF WaitRefused, Report, ReportFails
  <2> QED BY <1>4, <1>5, <2>1, <2>2 DEF ExecutionStep, WaitTimesOut
<1>6. ASSUME NEW q \in Runs, Fetch(q), q # r PROVE Stays
  BY <1>6 DEF Fetch, TypeOK
<1>7. CASE Fetch(r)
  BY <1>7 DEF Fetch, TypeOK
<1>8. ASSUME NEW t \in Tasks, Expire(t) \/ CancelTask(t) \/ RetryTask(t) PROVE Stays
  BY <1>8 DEF Expire, CancelTask, RetryTask
<1>9. ASSUME NEW s \in Servers, Crash(s) PROVE Stays
  BY <1>1, <1>9 DEF Crash
<1>10. CASE UNCHANGED vars
  BY <1>10 DEF vars
<1> QED BY <1>3, <1>5, <1>6, <1>7, <1>8, <1>9, <1>10, FleetAssumption DEF Next

(* A checkpoint is written by an execution that holds the run. *)
LEMMA NextKnown ==
  ASSUME TypeOK, [Next]_vars
  PROVE  /\ awaits' = awaits
         /\ \/ known' = known
            \/ \E r \in Runs : Persist(r)
<1>1. ASSUME NEW r \in Runs, ExecutionStep(r) \/ WaitErrs(r) \/ ReportFails(r)
      PROVE  awaits' = awaits /\ (known' = known \/ Persist(r))
  BY <1>1 DEF ExecutionStep, NextOfBatch, HandlerStep, Fetch, Persist, WaitTimesOut,
     WaitErrs, WaitRefused, Report, ReportFails, Goto
<1>2. ASSUME NEW s \in Servers, Claim(s) \/ Crash(s)
      PROVE  awaits' = awaits /\ known' = known
  BY <1>2 DEF Claim, Crash
<1>3. ASSUME NEW t \in Tasks, Expire(t) \/ CancelTask(t) \/ RetryTask(t)
      PROVE  awaits' = awaits /\ known' = known
  BY <1>3 DEF Expire, CancelTask, RetryTask
<1>4. CASE UNCHANGED vars
  BY <1>4 DEF vars
<1> QED BY <1>1, <1>2, <1>3, <1>4, FleetAssumption DEF Next

-----------------------------------------------------------------------------
(* The invariant.                                                          *)

(* A wait that has begun is for a task of another queue, and as long as    *)
(* the execution holds the run, nothing has been recorded of that task.    *)
WaitInv ==
  \A r \in Runs : InWait(r) =>
    /\ awaits[r[1]] \in Tasks /\ QueueOf[awaits[r[1]]] # QueueOf[r[1]]
    /\ Current(r) => known[r[1]] = "none"

(* A run is executed by a server of the queue of its task. *)
PlaceInv ==
  \A r \in Runs : server[r] # NoServer => QueueOf[r[1]] = ServerQueue[server[r]]

(* A task fails when its attempts are used up. *)
FailedInv == \A t \in Tasks : state[t] = "failed" => attempt[t] >= MaxAttempts[t]

TrueInv ==
  /\ \A t \in Tasks : known[t] # "none" =>
       awaits[t] \in Tasks /\ StillTrue(known[t], awaits[t])
  /\ \A r \in Runs : at[r] = "persisting" => StillTrue(fetched[r], awaits[r[1]])

FleetInv == WaitInv /\ PlaceInv /\ FailedInv /\ TrueInv

LEMMA NextFailed == TypeOK /\ FailedInv /\ [Next]_vars => FailedInv'
<1> SUFFICES ASSUME TypeOK, FailedInv, [Next]_vars, NEW t \in Tasks, state'[t] = "failed"
             PROVE  attempt'[t] >= MaxAttempts[t]
  BY DEF FailedInv
<1>1. TaskStep(t)
  BY NextTask
<1> QED BY <1>1, FleetAssumption DEF TaskStep, Becomes, Again, FailedInv, TypeOK

(* What was true of a task stays true. *)
LEMMA TruthStays ==
  ASSUME TypeOK, FailedInv, [Next]_vars, NEW t \in Tasks, NEW x \in Ends, StillTrue(x, t)
  PROVE  state'[t] = x \/ (x = "failed" /\ attempt'[t] > MaxAttempts[t])
<1>1. TaskStep(t)
  BY NextTask
<1>2. attempt[t] \in Nat /\ MaxAttempts[t] \in Nat
  BY FleetAssumption DEF TypeOK
<1>3. CASE state[t] = x
  <2>1. x = "failed" => attempt[t] >= MaxAttempts[t]
    BY <1>3 DEF FailedInv
  <2> QED BY <1>1, <1>2, <1>3, <2>1 DEF TaskStep, Becomes, Again, IsOver, Ends
<1>4. CASE x = "failed" /\ attempt[t] > MaxAttempts[t]
  BY <1>1, <1>2, <1>4 DEF TaskStep, Becomes, Again
<1> QED BY <1>3, <1>4 DEF StillTrue

LEMMA NextTrue == TypeOK /\ WaitInv /\ FailedInv /\ TrueInv /\ [Next]_vars => TrueInv'
<1> SUFFICES ASSUME TypeOK, WaitInv, FailedInv, TrueInv, [Next]_vars PROVE TrueInv'
  OBVIOUS
<1>1. awaits' = awaits /\ (known' = known \/ \E r \in Runs : Persist(r))
  BY NextKnown
<1>2. ASSUME NEW t \in Tasks, known'[t] # "none"
      PROVE  awaits'[t] \in Tasks /\ StillTrue(known[t], awaits[t])'
  <2>1. /\ known'[t] \in Ends /\ awaits[t] \in Tasks
        /\ StillTrue(known'[t], awaits[t])
    <3>1. CASE known'[t] = known[t]
      BY <1>2, <3>1 DEF TrueInv, TypeOK
    <3>2. CASE known'[t] # known[t]
      <4>1. PICK r \in Runs : Persist(r)
        BY <1>1, <3>2
      <4>2. r[1] = t /\ known'[t] = fetched[r] /\ at[r] = "persisting"
        BY <3>2, <4>1 DEF Persist, TypeOK
      <4>3. StillTrue(fetched[r], awaits[t]) /\ awaits[t] \in Tasks
        BY <4>2 DEF TrueInv, WaitInv, InWait
      <4>4. known'[t] \in Ends
        BY <1>2, <4>2 DEF TypeOK
      <4> QED BY <4>2, <4>3, <4>4
    <3> QED BY <3>1, <3>2
  <2>2. \/ state'[awaits[t]] = known'[t]
        \/ known'[t] = "failed" /\ attempt'[awaits[t]] > MaxAttempts[awaits[t]]
    BY <2>1, TruthStays
  <2> QED BY <1>1, <2>1, <2>2 DEF StillTrue
<1>3. ASSUME NEW r \in Runs, at'[r] = "persisting"
      PROVE  StillTrue(fetched[r], awaits[r[1]])'
  <2>1. CASE at[r] = "persisting" /\ fetched'[r] = fetched[r]
    <3>1. /\ fetched[r] \in Ends /\ awaits[r[1]] \in Tasks
          /\ StillTrue(fetched[r], awaits[r[1]])
      BY <2>1 DEF TrueInv, WaitInv, InWait, TypeOK
    <3>2. \/ state'[awaits[r[1]]] = fetched[r]
          \/ fetched[r] = "failed" /\ attempt'[awaits[r[1]]] > MaxAttempts[awaits[r[1]]]
      BY <3>1, TruthStays
    <3> QED BY <1>1, <2>1, <3>2 DEF StillTrue
  <2>2. CASE fetched'[r] = state[awaits[r[1]]] /\ state' = state
    BY <1>1, <2>2 DEF StillTrue
  <2> QED BY <1>3, <2>1, <2>2, NextFetched
<1> QED BY <1>2, <1>3 DEF TrueInv

LEMMA NextWait == TypeOK /\ WaitInv /\ [Next]_vars => WaitInv'
<1> SUFFICES ASSUME TypeOK, WaitInv, [Next]_vars, NEW r \in Runs,
                    at'[r] \in {"waiting", "persisting"}
             PROVE  /\ awaits'[r[1]] \in Tasks /\ QueueOf[awaits'[r[1]]] # QueueOf[r[1]]
                    /\ Current(r)' => known'[r[1]] = "none"
  BY DEF WaitInv, InWait
<1>1. awaits' = awaits /\ (known' = known \/ \E q \in Runs : Persist(q))
  BY NextKnown
<1>r. r[1] \in Tasks /\ r = <<r[1], r[2]>>
  BY DEF Runs
<1>2. CASE InWait(r) /\ (state'[r[1]] = "running" /\ r[2] = attempt'[r[1]] => Current(r))
  <2>1. ASSUME Current(r)' PROVE known'[r[1]] = "none"
    <3>1. state'[r[1]] = "running" /\ r[2] = attempt'[r[1]]
      BY <2>1, <1>r DEF Current, Last
    <3>2. Current(r) /\ known[r[1]] = "none"
      BY <1>2, <3>1 DEF WaitInv
    <3>3. ASSUME NEW q \in Runs, Persist(q), q[1] = r[1] PROVE FALSE
      <4>1. q = r
        BY <3>2, <3>3 DEF Persist, Current, Last
      <4> QED BY <3>3, <4>1 DEF Persist, AnswerOrError, TypeOK
    <3>4. ASSUME NEW q \in Runs, Persist(q), q[1] # r[1] PROVE known'[r[1]] = known[r[1]]
      BY <3>4, <1>r DEF Persist, TypeOK
    <3> QED BY <1>1, <3>2, <3>3, <3>4
  <2> QED BY <1>1, <1>2, <2>1 DEF WaitInv
<1>3. CASE HandlerStep(r) /\ Goto(r, "waiting") /\ Waits(r[1]) /\ ~Refused(r[1])
  <2>1. awaits[r[1]] \in Tasks
    BY <1>3, <1>r, FleetAssumption DEF TypeOK, Waits
  <2>2. known'[r[1]] = "none"
    BY <1>3 DEF Goto, Waits
  <2> QED BY <1>1, <1>3, <2>1, <2>2 DEF Refused
<1> QED BY <1>2, <1>3, NextInWait

-----------------------------------------------------------------------------
(* Where the runs are.                                                     *)

LEMMA NextPlace == TypeOK /\ PlaceInv /\ [Next]_vars => PlaceInv'
<1> SUFFICES ASSUME TypeOK, PlaceInv, [Next]_vars, NEW r \in Runs, server'[r] # NoServer
             PROVE  QueueOf[r[1]] = ServerQueue[server'[r]]
  BY DEF PlaceInv
<1>1. ASSUME NEW s \in Servers, Claim(s)
      PROVE  server'[r] = server[r] \/ (server'[r] = s /\ QueueOf[r[1]] = ServerQueue[s])
  <2>1. PICK S \in SUBSET Claimable(s) :
          server' = [q \in Runs |-> IF q \in {Last(t) : t \in S} THEN s ELSE server[q]]
    BY <1>1, Zenon DEF Claim
  <2>2. ASSUME NEW t \in S, r = Last(t) PROVE QueueOf[r[1]] = ServerQueue[s]
    BY <2>2, RunFacts DEF Claimable
  <2> DEFINE claimed == {Last(t) : t \in S}
  <2>3. r \in claimed => QueueOf[r[1]] = ServerQueue[s]
    BY <2>2
  <2>4. server' = [q \in Runs |-> IF q \in claimed THEN s ELSE server[q]]
    BY <2>1, Zenon
  <2> HIDE DEF claimed
  <2> QED BY <2>3, <2>4
<1>2. ASSUME NEW R, Forget(R) PROVE server'[r] = server[r]
  BY <1>2 DEF Forget
<1>3. ASSUME NEW q \in Runs, ExecutionStep(q) \/ WaitErrs(q) \/ ReportFails(q)
      PROVE  server'[r] = server[r]
  BY <1>2, <1>3 DEF ExecutionStep, NextOfBatch, HandlerStep, Fetch, Persist, WaitTimesOut,
     WaitErrs, WaitRefused, Report, ReportFails, Goto
<1>4. ASSUME NEW t \in Tasks, Expire(t) \/ CancelTask(t) \/ RetryTask(t)
      PROVE  server'[r] = server[r]
  BY <1>4 DEF Expire, CancelTask, RetryTask
<1>5. ASSUME NEW s \in Servers, Crash(s) PROVE server'[r] = server[r]
  BY <1>2, <1>5 DEF Crash
<1> QED BY <1>1, <1>3, <1>4, <1>5, FleetAssumption DEF Next, vars, PlaceInv

LEMMA FleetInvariant == Spec => [](TypeOK /\ FleetInv)
<1>1. Init => TypeOK /\ FleetInv
  BY InitType DEF Init, FleetInv, WaitInv, InWait, PlaceInv, FailedInv, TrueInv
<1>2. TypeOK /\ FleetInv /\ [Next]_vars => (TypeOK /\ FleetInv)'
  BY NextType, NextWait, NextPlace, NextFailed, NextTrue DEF FleetInv
<1> QED BY <1>1, <1>2, PTL DEF Spec

(* What a wait was told of another task is true of it for ever: a success  *)
(* and a cancellation are final, and so is a failure unless the task is    *)
(* tried again beyond its attempts; no late report changes them.           *)
THEOREM SnapshotsStayTrue == Spec => []SnapshotsAreTrue
<1>1. FleetInv => SnapshotsAreTrue
  BY DEF FleetInv, TrueInv, SnapshotsAreTrue
<1> QED BY <1>1, FleetInvariant, PTL

(* What a task has recorded of another is never overwritten, although the  *)
(* look at the other task and the checkpoint are two calls, and several    *)
(* executions of the task may be between them.                             *)
THEOREM SnapshotsAreWrittenOnce == Spec => SnapshotsWrittenOnce
<1> DEFINE Once == \A t \in Tasks : known[t] # "none" => known'[t] = known[t]
<1>1. TypeOK /\ FleetInv /\ [Next]_vars => [Once]_vars
  <2> SUFFICES ASSUME TypeOK, FleetInv, [Next]_vars, NEW t \in Tasks, known[t] # "none"
               PROVE  known'[t] = known[t]
    OBVIOUS
  <2>1. ASSUME NEW r \in Runs, Persist(r) PROVE known'[t] = known[t]
    <3>1. known[r[1]] = "none"
      BY <2>1 DEF Persist, FleetInv, WaitInv, InWait
    <3> QED BY <2>1, <3>1 DEF Persist, TypeOK
  <2> QED BY <2>1, NextKnown
<1> QED BY <1>1, FleetInvariant, PTL DEF Spec, SnapshotsWrittenOnce

-----------------------------------------------------------------------------
(* When all is stuck, some queues wait for each other in a circle.         *)

(* What keeps a server busy then waits for a task of a lower queue. *)
LEMMA BusyServerWaits ==
  ASSUME TypeOK, FleetInv, Stuck, NEW s \in Servers, Executing(s) # {}
  PROVE  \E u \in Tasks : ~IsOver(u) /\ <<ServerQueue[s], QueueOf[u]>> \in WaitsFor
<1>1. PICK r \in Runs : server[r] = s /\ at[r] # "claimed"
  BY DEF Executing
<1>2. at[r] = "waiting" /\ ~IsOver(awaits[r[1]])
  BY <1>1, FleetAssumption DEF Stuck, TypeOK
<1>3. /\ awaits[r[1]] \in Tasks /\ QueueOf[awaits[r[1]]] # QueueOf[r[1]]
      /\ QueueOf[r[1]] = ServerQueue[s]
  BY <1>1, <1>2, FleetAssumption DEF FleetInv, WaitInv, InWait, PlaceInv
<1>4. r[1] \in Tasks /\ awaits[r[1]] # NoTask
  BY <1>3, RunFacts, FleetAssumption
<1>5. <<QueueOf[r[1]], QueueOf[awaits[r[1]]]>> \in WaitsFor
  BY <1>3, <1>4 DEF WaitsFor
<1> QED BY <1>2, <1>3, <1>5

(* A task that is not over keeps a server of its queue busy. *)
LEMMA UnfinishedKeepsBusy ==
  ASSUME TypeOK, FleetInv, Stuck, NEW t \in Tasks, ~IsOver(t)
  PROVE  \E s \in Servers : ServerQueue[s] = QueueOf[t] /\ Executing(s) # {}
<1>1. state[t] \in {"pending", "running"}
  BY DEF TypeOK, IsOver
<1>2. CASE state[t] = "pending"
  <2>1. PICK s \in Servers : ServerQueue[s] = QueueOf[t]
    BY FleetAssumption
  <2>2. ~(Free(s) > 0)
    BY <1>2, <2>1 DEF Stuck, Claimable
  <2>3. ASSUME Executing(s) = {} PROVE FALSE
    <3>1. Begins(s) = {} /\ Cardinality(Executing(s)) = 0
      BY <2>3, FS_EmptySet DEF Stuck
    <3>2. Free(s) = Places[s]
      <4>1. Places[s] - 0 = Places[s]
        BY FleetAssumption
      <4> QED BY <2>3, <3>1, <4>1 DEF Free
    <3> QED BY <2>2, <3>2, FleetAssumption
  <2> QED BY <2>1, <2>3
<1>3. CASE state[t] = "running"
  <2>1. at[Last(t)] \in {"claimed", "waiting"}
    BY <1>3, RunFacts DEF Stuck, Abandoned
  <2>2. PICK s \in Servers : server[Last(t)] = s
    BY <2>1, RunFacts DEF TypeOK
  <2>3. ServerQueue[s] = QueueOf[t]
    BY <2>2, RunFacts, FleetAssumption DEF FleetInv, PlaceInv
  <2>4. Executing(s) \cup Begins(s) # {}
    BY <2>1, <2>2, RunFacts DEF Executing, Begins
  <2> QED BY <2>2, <2>3, <2>4 DEF Stuck
<1> QED BY <1>1, <1>2, <1>3

LEMMA StuckCircle == TypeOK /\ FleetInv => StuckInACircle
<1> SUFFICES ASSUME TypeOK, FleetInv, Stuck,
                    NEW rank \in [Queues -> 1..Cardinality(Queues)],
                    \A e \in WaitsFor : rank[e[2]] < rank[e[1]]
             PROVE  FALSE
  BY DEF StuckInACircle, QueuesOrdered
<1> DEFINE Ranks == {rank[QueueOf[t]] : t \in {u \in Tasks : ~IsOver(u)}}
<1>1. Ranks \subseteq Nat
  <2>1. \A q \in Queues : rank[q] \in Nat
    BY FS_CardinalityType, FleetAssumption
  <2> QED BY <2>1, FleetAssumption
<1>2. Ranks # {}
  BY DEF Stuck
<1>3. PICK t \in Tasks : ~IsOver(t) /\ \A n \in Ranks : rank[QueueOf[t]] <= n
  <2> HIDE DEF Ranks
  <2>1. PICK m \in Ranks : \A n \in Ranks : m <= n
    BY <1>1, <1>2, LeastNatural
  <2>2. PICK u \in Tasks : ~IsOver(u) /\ m = rank[QueueOf[u]]
    BY DEF Ranks
  <2> QED BY <2>1, <2>2
<1>4. PICK s \in Servers : ServerQueue[s] = QueueOf[t] /\ Executing(s) # {}
  BY <1>3, UnfinishedKeepsBusy
<1>5. PICK u \in Tasks : ~IsOver(u) /\ <<QueueOf[t], QueueOf[u]>> \in WaitsFor
  BY <1>4, BusyServerWaits
<1>6. rank[QueueOf[u]] < rank[QueueOf[t]]
  BY <1>5
<1>7. rank[QueueOf[u]] \in Ranks /\ rank[QueueOf[t]] \in Ranks
  BY <1>3, <1>5
<1> HIDE DEF Ranks
<1>8. \A m, n \in Nat : ~(m <= n /\ n < m)
  OBVIOUS
<1> QED BY <1>1, <1>3, <1>6, <1>7, <1>8

(* Tasks of an application whose queues do not wait for each other in a    *)
(* circle never keep each other from ending, with any concurrency and any  *)
(* batches, since waits in one queue are refused.                          *)
THEOREM StuckOnlyInCircles == Spec => []StuckInACircle
  BY FleetInvariant, StuckCircle, PTL
=============================================================================
