--------------------------- MODULE WorkerLoopProofs ---------------------------
(***************************************************************************)
(* Theorems about WorkerLoop, for every number of tasks, whatever options  *)
(* the application gives and whether or not its callback panics.           *)
(***************************************************************************)
EXTENDS WorkerLoop, FiniteSetTheorems, TLAPS

ExecutionInJoinSet == {"spawned", "running", "failing", "ok", "err", "panicked"}

LEMMA JoinSetIs ==
  /\ JoinSet = {t \in Tasks : outer[t] \in ExecutionInJoinSet}
  /\ JoinSet' = {t \in Tasks : outer'[t] \in ExecutionInJoinSet}
BY DEF JoinSet, Finished, ExecutionInJoinSet

LEMMA JoinSetFinite == IsFiniteSet(JoinSet) /\ Cardinality(JoinSet) \in Nat
<1>1. JoinSet \subseteq Tasks
  BY JoinSetIs
<1> QED BY <1>1, WorkerAssumption, FS_Subset, FS_CardinalityType

(* Zero and missing options are replaced by ones a worker can run with. *)
LEMMA NormalizedType ==
  ASSUME NEW o \in Options
  PROVE  Normalized(o) \in [concurrency : Nat \ {0}, batch_size : Nat \ {0}]
<1>1. o.concurrency \in Nat /\ o.batch_size \in Nat \cup {NoBatchSize}
  BY WorkerAssumption
<1>2. \A n \in Nat : Larger(n, 1) \in Nat \ {0}
  BY DEF Larger
<1>3. Larger(o.concurrency, 1) \in Nat \ {0}
  BY <1>1, <1>2
<1>4. (IF o.batch_size = NoBatchSize THEN Larger(o.concurrency, 1) ELSE o.batch_size) \in Nat
  BY <1>1, <1>3
<1> QED BY <1>2, <1>3, <1>4 DEF Normalized

(* Nothing is asked for but by the claim under way. *)
ClaimInv == loop # "claiming" => toClaim = 0

TypeInv == TypeOK /\ ClaimInv

-----------------------------------------------------------------------------
(* Joining an execution. *)

LEMMA JoinType ==
  ASSUME TypeOK, NEW t \in Tasks, NEW next \in LoopStates \ {"claiming"}, Join(t, next)
  PROVE  /\ outer' \in [Tasks -> OuterStates]
         /\ inner' = inner
         /\ unreported' \in SUBSET Tasks
         /\ loop' \in LoopStates \ {"claiming"}
         /\ JoinSet' \subseteq JoinSet
<1>1. CASE ReportAndGo(t, next)
  BY <1>1, JoinSetIs DEF ReportAndGo, TypeOK, OuterStates, ExecutionInJoinSet
<1>2. CASE ReportAndAbort(t)
  <2>1. /\ outer' = [u \in Tasks |-> IF u = t THEN "joined"
                                     ELSE IF u \in JoinSet THEN "aborted" ELSE outer[u]]
        /\ unreported' = unreported \ {t} /\ loop' = "aborted" /\ inner' = inner
    BY <1>2 DEF ReportAndAbort
  <2> QED BY <2>1, JoinSetIs DEF TypeOK, OuterStates, LoopStates, ExecutionInJoinSet
<1> QED BY <1>1, <1>2 DEF Join

LEMMA LoopJoins ==
  ASSUME TypeInv, NEW t \in Tasks, DrainFinished(t) \/ WaitJoin(t) \/ DrainJoin(t)
  PROVE  /\ \E next \in {"top", "draining"} : Join(t, next)
         /\ UNCHANGED <<options, toClaim, shutdown, closer>>
         /\ loop \in {"top", "capacity", "polling", "draining"}
BY DEF DrainFinished, WaitJoin, DrainJoin

(* An execution stays in the JoinSet until the loop takes it out. *)
LEMMA ExecutionJoinSet ==
  ASSUME TypeOK, NEW t \in Tasks, ExecutionStep(t)
  PROVE  JoinSet' = JoinSet
<1>1. \/ outer' = outer
      \/ /\ outer[t] \in ExecutionInJoinSet
         /\ \E x \in ExecutionInJoinSet : outer' = [outer EXCEPT ![t] = x]
  BY DEF ExecutionStep, StartHandler, HandlerEnds, PanicRecorded, OuterEnds, TypeOK,
         ExecutionInJoinSet
<1> QED BY <1>1, JoinSetIs DEF TypeOK

(* Type correctness.                                                       *)
LEMMA InitTypeInv == Init => TypeInv
<1> SUFFICES ASSUME Init PROVE TypeInv
  OBVIOUS
<1>1. options \in [concurrency : Nat \ {0}, batch_size : Nat \ {0}]
  BY NormalizedType DEF Init
<1>2. toClaim \in 0..options.concurrency
  BY <1>1 DEF Init
<1> QED BY <1>1, <1>2 DEF Init, TypeInv, TypeOK, ClaimInv, LoopStates, OuterStates, InnerStates

LEMMA DecideClaims ==
  ASSUME TypeInv, Decide, loop' = "claiming"
  PROVE  /\ toClaim' \in 1..options.concurrency
         /\ Cardinality(JoinSet) + toClaim' <= options.concurrency
<1> DEFINE available == options.concurrency - Cardinality(JoinSet)
<1>1. toClaim' = Smaller(available, options.batch_size) /\ available > 0
  <2>1. available \in Int
    BY JoinSetFinite DEF TypeInv, TypeOK
  <2> QED BY <2>1 DEF Decide
<1>2. options.concurrency \in Nat /\ options.batch_size \in Nat \ {0}
  BY DEF TypeInv, TypeOK
<1> QED BY <1>1, <1>2, JoinSetFinite DEF Smaller

LEMMA NextTypeInv == TypeInv /\ [Next]_vars => TypeInv'
<1> SUFFICES ASSUME TypeInv, [Next]_vars PROVE TypeInv'
  OBVIOUS
<1>1. ASSUME NEW t \in Tasks, DrainFinished(t) \/ WaitJoin(t) \/ DrainJoin(t)
      PROVE  TypeInv'
  <2>1. PICK next \in {"top", "draining"} : Join(t, next)
    BY <1>1, LoopJoins
  <2>2. /\ outer' \in [Tasks -> OuterStates] /\ inner' = inner
        /\ unreported' \in SUBSET Tasks /\ loop' \in LoopStates \ {"claiming"}
    BY <2>1, JoinType DEF TypeInv, LoopStates
  <2>3. toClaim = 0 /\ UNCHANGED <<options, toClaim, shutdown, closer>>
    BY <1>1, LoopJoins DEF TypeInv, ClaimInv
  <2> QED BY <2>2, <2>3 DEF TypeInv, TypeOK, ClaimInv
<1>2. CASE Decide
  <2>1. CASE loop' = "claiming"
    BY <1>2, <2>1, DecideClaims DEF Decide, TypeInv, TypeOK, ClaimInv, LoopStates
  <2>2. CASE loop' # "claiming"
    <3>1. loop' \in {"draining", "capacity"} /\ toClaim' = toClaim
      BY <1>2, <2>2 DEF Decide
    <3> QED BY <1>2, <3>1 DEF Decide, TypeInv, TypeOK, ClaimInv, LoopStates
  <2> QED BY <2>1, <2>2
<1>3. CASE ClaimTasks \/ ClaimNothing \/ ClaimAborts
  BY <1>3 DEF ClaimTasks, ClaimNothing, ClaimAborts, TypeInv, TypeOK, ClaimInv, LoopStates,
              OuterStates
<1>4. CASE WaitShutdown \/ PollInterval \/ DrainEnds
  BY <1>4 DEF WaitShutdown, PollInterval, DrainEnds, TypeInv, TypeOK, ClaimInv, LoopStates
<1>5. ASSUME NEW t \in Tasks, ExecutionStep(t)
      PROVE  TypeInv'
  BY <1>5 DEF ExecutionStep, StartHandler, HandlerEnds, PanicRecorded, OuterEnds, TypeInv, TypeOK,
              ClaimInv, OuterStates, InnerStates
<1>6. CASE Close \/ CloseReturns \/ Drop
  BY <1>6 DEF Close, CloseReturns, Drop, TypeInv, TypeOK, ClaimInv
<1>7. CASE UNCHANGED vars
  BY <1>7 DEF vars, TypeInv, TypeOK, ClaimInv
<1> QED BY <1>1, <1>2, <1>3, <1>4, <1>5, <1>6, <1>7 DEF Next, LoopStep

LEMMA SpecTypeInv == Spec => []TypeInv
BY InitTypeInv, NextTypeInv, PTL DEF Spec

(* The state of a worker is well-formed: the number of tasks to claim is   *)
(* never negative or larger than the concurrency, whatever options are     *)
(* given and however many executions have ended meanwhile.                 *)
THEOREM TypeCorrect == Spec => []TypeOK
BY SpecTypeInv, PTL DEF TypeInv

-----------------------------------------------------------------------------
(* The concurrency limit.                                                  *)

LEMMA JoinSetShrinks ==
  ASSUME TypeInv, JoinSet' \subseteq JoinSet
  PROVE  Cardinality(JoinSet') <= Cardinality(JoinSet) /\ Cardinality(JoinSet') \in Nat
BY JoinSetFinite, FS_Subset, FS_CardinalityType

(* Only a claim adds to the JoinSet, and no more than it asked for. *)
LEMMA ClaimAdds ==
  ASSUME TypeInv, ClaimTasks
  PROVE  Cardinality(JoinSet') <= Cardinality(JoinSet) + toClaim
<1>1. PICK S \in SUBSET {t \in Tasks : outer[t] = "none"} :
        /\ Cardinality(S) <= toClaim
        /\ outer' = [t \in Tasks |-> IF t \in S THEN "spawned" ELSE outer[t]]
  BY DEF ClaimTasks
<1>2. JoinSet' = JoinSet \cup S /\ JoinSet \cap S = {}
  BY <1>1, JoinSetIs DEF ExecutionInJoinSet
<1>3. IsFiniteSet(S)
  BY WorkerAssumption, FS_Subset
<1>4. Cardinality(S) \in Nat /\ toClaim \in Nat /\ Cardinality(JoinSet) \in Nat
  BY <1>3, JoinSetFinite, FS_CardinalityType DEF TypeInv, TypeOK
<1>5. Cardinality(JoinSet \cup S) =
        Cardinality(JoinSet) + Cardinality(S) - Cardinality(JoinSet \cap S)
  BY <1>3, JoinSetFinite, FS_Union
<1> QED BY <1>1, <1>2, <1>4, <1>5, FS_EmptySet

LEMMA NextConcurrencyLimit == TypeInv /\ ConcurrencyLimit /\ [Next]_vars => ConcurrencyLimit'
<1> SUFFICES ASSUME TypeInv, ConcurrencyLimit, [Next]_vars PROVE ConcurrencyLimit'
  OBVIOUS
<1>0. /\ options.concurrency \in Nat /\ toClaim \in Nat
      /\ Cardinality(JoinSet) \in Nat /\ Cardinality(JoinSet) <= options.concurrency
  BY JoinSetFinite DEF TypeInv, TypeOK, ConcurrencyLimit
<1>1. ASSUME JoinSet' \subseteq JoinSet, options' = options, loop' # "claiming"
      PROVE  ConcurrencyLimit'
  BY <1>0, <1>1, JoinSetShrinks DEF ConcurrencyLimit
<1>2. ASSUME JoinSet' = JoinSet, UNCHANGED <<options, loop, toClaim>>
      PROVE  ConcurrencyLimit'
  BY <1>2 DEF ConcurrencyLimit
<1>3. ASSUME outer' = outer
      PROVE  JoinSet' = JoinSet
  BY <1>3 DEF JoinSet, Finished
<1>4. ASSUME NEW t \in Tasks, DrainFinished(t) \/ WaitJoin(t) \/ DrainJoin(t)
      PROVE  ConcurrencyLimit'
  <2>1. PICK next \in {"top", "draining"} : Join(t, next)
    BY <1>4, LoopJoins
  <2>2. JoinSet' \subseteq JoinSet /\ loop' # "claiming"
    BY <2>1, JoinType DEF TypeInv, LoopStates
  <2> QED BY <1>1, <1>4, <2>2, LoopJoins
<1>5. CASE Decide
  <2>1. JoinSet' = JoinSet /\ options' = options
    BY <1>3, <1>5 DEF Decide
  <2>2. CASE loop' = "claiming"
    BY <1>0, <1>5, <2>1, <2>2, DecideClaims DEF ConcurrencyLimit
  <2> QED BY <1>1, <2>1, <2>2
<1>6. CASE ClaimTasks
  <2>1. Cardinality(JoinSet) + toClaim <= options.concurrency /\ options' = options /\ loop' = "top"
    BY <1>6 DEF ClaimTasks, ConcurrencyLimit
  <2>2. Cardinality(JoinSet') <= Cardinality(JoinSet) + toClaim
    BY <1>6, ClaimAdds
  <2>3. JoinSet' \subseteq Tasks
    BY DEF JoinSet, Finished
  <2>4. Cardinality(JoinSet') \in Nat
    BY <2>3, WorkerAssumption, FS_Subset, FS_CardinalityType
  <2> QED BY <1>0, <2>1, <2>2, <2>4 DEF ConcurrencyLimit
<1>7. CASE ClaimNothing \/ WaitShutdown \/ PollInterval \/ DrainEnds
  <2>1. JoinSet' = JoinSet /\ options' = options /\ loop' # "claiming"
    BY <1>3, <1>7 DEF ClaimNothing, WaitShutdown, PollInterval, DrainEnds
  <2> QED BY <1>1, <2>1
<1>8. CASE ClaimAborts
  <2>1. JoinSet' \subseteq JoinSet /\ options' = options /\ loop' # "claiming"
    BY <1>8, JoinSetIs DEF ClaimAborts, ExecutionInJoinSet
  <2> QED BY <1>1, <2>1
<1>9. ASSUME NEW t \in Tasks, ExecutionStep(t)
      PROVE  ConcurrencyLimit'
  <2>1. UNCHANGED <<options, loop, toClaim>>
    BY <1>9 DEF ExecutionStep, StartHandler, HandlerEnds, PanicRecorded
  <2> QED BY <1>2, <1>9, <2>1, ExecutionJoinSet DEF TypeInv
<1>10. CASE Close \/ CloseReturns \/ Drop \/ UNCHANGED vars
  <2>1. UNCHANGED <<options, loop, toClaim, outer>>
    BY <1>10 DEF Close, CloseReturns, Drop, vars
  <2> QED BY <1>2, <1>3, <2>1
<1> QED BY <1>4, <1>5, <1>6, <1>7, <1>8, <1>9, <1>10 DEF Next, LoopStep

(* A worker never has more executions than its concurrency, whatever       *)
(* options it is given, though its capacity is computed before the claim   *)
(* and executions end while the claim is under way.                        *)
THEOREM ConcurrencyIsLimited == Spec => []ConcurrencyLimit
<1>1. Init => ConcurrencyLimit
  <2>1. Init => JoinSet = {} /\ loop # "claiming"
    BY DEF Init, JoinSet, Finished
  <2>2. Init => options.concurrency \in Nat
    BY InitTypeInv DEF TypeInv, TypeOK
  <2> QED BY <2>1, <2>2, FS_EmptySet DEF ConcurrencyLimit
<1> QED BY <1>1, NextConcurrencyLimit, SpecTypeInv, PTL DEF Spec

-----------------------------------------------------------------------------
(* The drain.                                                              *)

(* How far an execution has got and how far its handler has go together;   *)
(* executions are dropped, and errors kept back, by a loop that aborts     *)
(* only; and a loop that is done holds no execution.                       *)
DrainInv ==
  /\ \A t \in Tasks :
       /\ outer[t] \in {"none", "spawned"} => inner[t] = "none"
       /\ outer[t] = "running" => inner[t] = "running"
       /\ outer[t] = "failing" => inner[t] = "panicked"
       /\ outer[t] \in {"ok", "err", "panicked", "joined"} => inner[t] = "ended"
       /\ outer[t] = "aborted" => loop = "aborted"
       /\ t \in unreported => outer[t] \in {"err", "panicked"} \/ loop = "aborted"
  /\ loop = "done" => JoinSet = {}

LEMMA NextDrainInv == TypeInv /\ DrainInv /\ [Next]_vars => DrainInv'
<1> SUFFICES ASSUME TypeInv, DrainInv, [Next]_vars PROVE DrainInv'
  OBVIOUS
<1> USE DEF TypeInv, TypeOK
<1>1. ASSUME NEW t \in Tasks, DrainFinished(t) \/ WaitJoin(t) \/ DrainJoin(t)
      PROVE  DrainInv'
  <2>1. PICK next \in {"top", "draining"} : Join(t, next)
    BY <1>1, LoopJoins
  <2>2. CASE ReportAndGo(t, next)
    <3>1. loop # "aborted" /\ loop' \in {"top", "draining"}
      BY <1>1, <2>2, LoopJoins DEF ReportAndGo
    <3> QED BY <2>2, <3>1 DEF ReportAndGo, DrainInv
  <2>3. CASE ReportAndAbort(t)
    <3>1. /\ outer' = [u \in Tasks |-> IF u = t THEN "joined"
                                       ELSE IF u \in JoinSet THEN "aborted" ELSE outer[u]]
          /\ unreported' = unreported \ {t} /\ loop' = "aborted" /\ inner' = inner
          /\ outer[t] \in {"err", "panicked"}
      BY <2>3 DEF ReportAndAbort
    <3>2. \A u \in Tasks : u \notin JoinSet => outer[u] \in {"none", "joined", "aborted"}
      BY JoinSetIs DEF ExecutionInJoinSet, OuterStates
    <3> QED BY <3>1, <3>2 DEF DrainInv
  <2> QED BY <2>1, <2>2, <2>3 DEF Join
<1>2. CASE Decide \/ ClaimNothing \/ WaitShutdown \/ PollInterval \/ DrainEnds
  <2>1. UNCHANGED <<outer, inner, unreported>> /\ loop # "aborted" /\ JoinSet' = JoinSet
    BY <1>2 DEF Decide, ClaimNothing, WaitShutdown, PollInterval, DrainEnds, JoinSet, Finished
  <2>2. loop' = "done" => JoinSet = {}
    BY <1>2 DEF Decide, ClaimNothing, WaitShutdown, PollInterval, DrainEnds
  <2> QED BY <2>1, <2>2 DEF DrainInv
<1>3. CASE ClaimTasks
  BY <1>3 DEF ClaimTasks, DrainInv
<1>4. CASE ClaimAborts
  BY <1>4, JoinSetIs DEF ClaimAborts, DrainInv, ExecutionInJoinSet
<1>5. ASSUME NEW t \in Tasks, ExecutionStep(t)
      PROVE  DrainInv'
  <2>1. JoinSet' = JoinSet /\ loop' = loop
    BY <1>5, ExecutionJoinSet DEF ExecutionStep, StartHandler, HandlerEnds, PanicRecorded
  <2>2. CASE StartHandler(t)
    BY <2>1, <2>2 DEF StartHandler, DrainInv
  <2>3. CASE HandlerEnds(t)
    BY <2>1, <2>3 DEF HandlerEnds, OuterEnds, DrainInv, OuterStates
  <2>4. CASE PanicRecorded(t)
    BY <2>1, <2>4 DEF PanicRecorded, OuterEnds, DrainInv
  <2> QED BY <1>5, <2>2, <2>3, <2>4 DEF ExecutionStep
<1>6. CASE Close \/ CloseReturns \/ Drop \/ UNCHANGED vars
  <2>1. UNCHANGED <<loop, outer, inner, unreported>> /\ JoinSet' = JoinSet
    BY <1>6 DEF Close, CloseReturns, Drop, vars, JoinSet, Finished
  <2> QED BY <2>1 DEF DrainInv
<1> QED BY <1>1, <1>2, <1>3, <1>4, <1>5, <1>6 DEF Next, LoopStep

(* A loop that is told to end leaves nothing behind: every task it claimed *)
(* is joined, no handler runs on, and every error, a panic that could not  *)
(* be recorded included, has been given to on_error.                       *)
THEOREM LoopsDrain == Spec => []LoopDrains
<1>1. Init => DrainInv
  BY DEF Init, DrainInv, JoinSet, Finished
<1>2. TypeInv /\ DrainInv => LoopDrains
  <2> SUFFICES ASSUME TypeInv, DrainInv, loop = "done" PROVE Drained
    BY DEF LoopDrains
  <2>1. \A t \in Tasks : outer[t] \in {"none", "joined"}
    BY JoinSetIs DEF DrainInv, TypeInv, TypeOK, OuterStates, ExecutionInJoinSet
  <2> QED BY <2>1 DEF DrainInv, Drained, TypeInv, TypeOK
<1> QED BY <1>1, <1>2, NextDrainInv, SpecTypeInv, PTL DEF Spec
=============================================================================
