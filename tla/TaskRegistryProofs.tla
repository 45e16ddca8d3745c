-------------------------- MODULE TaskRegistryProofs --------------------------
(***************************************************************************)
(* Theorems about TaskRegistry, for all queues, options and policies.      *)
(***************************************************************************)
EXTENDS TaskRegistry, TLAPS

-----------------------------------------------------------------------------
(* What a Duration becomes in the database: a number of seconds that an    *)
(* i32 holds, and not before the Duration is over unless it is the largest *)
(* there is.                                                               *)
LEMMA CeilLasts ==
  ASSUME NEW d \in Nat
  PROVE  /\ DurationSecondsCeil(d) \in 0..MaxSeconds
         /\ DurationSecondsCeil(d) = MaxSeconds \/ d <= DurationSecondsCeil(d) * Second
<1> DEFINE q == d \div Second
           r == d % Second
           rounded == q + (IF r > 0 THEN 1 ELSE 0)
<1>1. q \in Nat /\ r \in 0..(Second - 1) /\ Second \in Nat \ {0} /\ MaxSeconds \in Nat
  BY DurationAssumption, Z3
<1>2. d = Second * q + r
  BY DurationAssumption, Z3
<1> HIDE DEF q, r
<1>3. rounded \in Nat
  BY <1>1
<1>4. d <= rounded * Second
  <2>1. CASE r > 0
    <3>1. d <= Second * q + Second
      BY <1>1, <1>2
    <3>2. Second * q + Second = (q + 1) * Second
      BY <1>1
    <3> QED BY <2>1, <3>1, <3>2
  <2>2. CASE r = 0
    <3>1. d = q * Second /\ rounded = q
      BY <1>1, <1>2, <2>2
    <3> QED BY <1>1, <3>1
  <2> QED BY <1>1, <2>1, <2>2
<1>5. DurationSecondsCeil(d) = IF rounded <= MaxSeconds THEN rounded ELSE MaxSeconds
  BY DEF DurationSecondsCeil, q, r
<1> HIDE DEF rounded
<1> QED BY <1>1, <1>3, <1>4, <1>5

(* The limits of a policy keep their type, and last as long as asked for.  *)
LEMMA PolicyLasts ==
  ASSUME NEW p \in Policies \cup {NoLimits}
  PROVE  /\ CancellationToJson(p) \in SqlPolicies
         /\ \A l \in DOMAIN NoLimits : LastsAsLong(CancellationToJson(p)[l], p[l])
<1>1. DOMAIN NoLimits = {"max_duration", "max_delay"}
  BY DEF NoLimits
<1>2. p \in [max_duration : Nat \cup {Absent}, max_delay : Nat \cup {Absent}]
  BY RegistryAssumption DEF NoLimits
<1>3. \A l \in DOMAIN NoLimits : p[l] \in Nat \cup {Absent}
  BY <1>1, <1>2
<1> DEFINE Limit(l) == IF p[l] = Absent THEN Absent ELSE DurationSecondsCeil(p[l])
<1>4. \A l \in DOMAIN NoLimits :
        Limit(l) \in 0..MaxSeconds \cup {Absent} /\ LastsAsLong(Limit(l), p[l])
  BY <1>3, CeilLasts DEF LastsAsLong
<1>5. CancellationToJson(p) = [l \in DOMAIN NoLimits |-> Limit(l)]
  BY DEF CancellationToJson
<1> HIDE DEF Limit
<1>6. CancellationToJson(p) = [max_duration |-> Limit("max_duration"), max_delay |-> Limit("max_delay")]
  BY <1>1, <1>5
<1>7. CancellationToJson(p) \in SqlPolicies
  BY <1>1, <1>4, <1>6 DEF SqlPolicies
<1> QED BY <1>4, <1>5, <1>7

-----------------------------------------------------------------------------
(* Types.                                                                  *)

(* The options of a call are there from the call to its end. *)
PhaseInv ==
  /\ phase # "idle" => options \in Options
  /\ known => registration # Absent

TypeInv == TypeOK /\ PhaseInv

LEMMA ResolvedType ==
  ASSUME TypeInv, phase = "resolve", Resolvable
  PROVE  /\ ResolvedQueue \in ValidQueues
         /\ ResolvedAttempts \in Attempts \cup {ClientAttempts} /\ ResolvedAttempts >= 1
         /\ OrElse(ResolvedPolicy, NoLimits) \in Policies \cup {NoLimits}
<1>1. options \in Options
  BY DEF TypeInv, PhaseInv
<1>2. ResolvedAttempts \in Attempts \cup {ClientAttempts}
  BY <1>1 DEF TypeInv, TypeOK, Options, Registrations, ResolvedAttempts, OrElse, MaxAttempts
<1>3. ResolvedPolicy \in Policies \cup {Absent}
  BY <1>1 DEF TypeInv, TypeOK, Options, Registrations, ResolvedPolicy, OrElse, Cancellation
<1> QED BY <1>2, <1>3 DEF Resolvable, OrElse

LEMMA SqlOptionsType ==
  ASSUME TypeInv, phase = "resolve", Resolvable
  PROVE  SqlOptions(ResolvedQueue) \in [queue    : ValidQueues,
                                        attempts : Attempts \cup {ClientAttempts},
                                        policy   : SqlPolicies]
BY ResolvedType, PolicyLasts DEF SqlOptions

LEMMA NextTypeInv == TypeInv /\ [Next]_vars => TypeInv'
<1> SUFFICES ASSUME TypeInv, [Next]_vars PROVE TypeInv'
  OBVIOUS
<1> USE DEF TypeInv, TypeOK, PhaseInv
<1>1. ASSUME NEW o \in Options, Register(o)
      PROVE  TypeInv'
  <2>1. OrElse(o.queue, Home) \in ValidQueues /\ (o.attempts # Absent => o.attempts >= 1)
    BY <1>1 DEF Register
  <2>2. [o EXCEPT !.queue = OrElse(o.queue, Home)] \in Registrations
    BY <2>1 DEF Options, Registrations
  <2>3. Registrations \subseteq Options
    BY RegistryAssumption DEF Registrations, Options
  <2> QED BY <1>1, <2>2, <2>3, OptionsAssumption DEF Register
<1>2. ASSUME NEW t \in Options \cup {Absent}, NEW o \in Options, Spawn(t, o)
      PROVE  TypeInv'
  BY <1>2 DEF Spawn
<1>3. ASSUME NEW o \in Options, BeforeSpawn(o)
      PROVE  TypeInv'
  BY <1>3 DEF BeforeSpawn
<1>4. CASE Resolve
  <2>1. resolved' \in [queue    : ValidQueues,
                       attempts : Attempts \cup {ClientAttempts},
                       policy   : SqlPolicies]
    BY <1>4, SqlOptionsType DEF Resolve
  <2>2. ValidQueues \subseteq Queues
    BY RegistryAssumption
  <2>3. resolved' \in [queue    : Queues,
                       attempts : Attempts \cup {ClientAttempts},
                       policy   : SqlPolicies]
    BY <2>1, <2>2
  <2> HIDE DEF SqlPolicies
  <2> QED BY <1>4, <2>3 DEF Resolve
<1>5. CASE Store \/ UNCHANGED vars
  BY <1>5 DEF Store, vars
<1>6. CASE SpawnFails \/ Spawned
  <2>1. Forget
    BY <1>6 DEF SpawnFails, Spawned
  <2> QED BY <2>1 DEF Forget
<1> QED BY <1>1, <1>2, <1>3, <1>4, <1>5, <1>6 DEF Next

LEMMA SpecTypeInv == Spec => []TypeInv
<1>1. Init => TypeInv
  BY DEF Init, TypeInv, TypeOK, PhaseInv
<1> QED BY <1>1, NextTypeInv, PTL DEF Spec

(* Whatever a hook and a caller ask for, what is sent to the database has  *)
(* a queue, a number of attempts and limits that fit its columns.          *)
THEOREM TypeCorrect == Spec => []TypeOK
BY SpecTypeInv, PTL DEF TypeInv

-----------------------------------------------------------------------------
(* What is sent to the database.                                           *)

Sent == phase \in {"store", "spawned"}

(* The limits come from a policy other than that of the registration if    *)
(* there is none: the task may be registered while the spawn is stored.    *)
Sources == {options.policy, Cancellation(task)} \cup
             (IF registration = Absent THEN {} ELSE {Cancellation(registration)})

SentInv ==
  Sent =>
    /\ resolved.queue \in ValidQueues
    /\ resolved.attempts >= 1
    /\ \E p \in Sources :
         \A l \in DOMAIN NoLimits : LastsAsLong(resolved.policy[l], OrElse(p, NoLimits)[l])
    /\ known =>
         /\ resolved.queue = registration.queue
         /\ options.attempts = Absent /\ registration.attempts # Absent =>
              resolved.attempts = registration.attempts
         /\ options.policy = Absent /\ registration.policy # Absent =>
              resolved.policy = CancellationToJson(registration.policy)

LEMMA ResolveSends ==
  ASSUME TypeInv, Resolve
  PROVE  SentInv'
<1>1. /\ phase = "resolve" /\ Resolvable /\ resolved' = SqlOptions(ResolvedQueue)
      /\ UNCHANGED <<registration, task, options, known>>
  BY DEF Resolve
<1>2. resolved'.queue \in ValidQueues /\ resolved'.attempts >= 1
  BY <1>1, ResolvedType DEF SqlOptions
<1>3. \E p \in Sources' :
        \A l \in DOMAIN NoLimits : LastsAsLong(resolved'.policy[l], OrElse(p, NoLimits)[l])
  <2>1. ResolvedPolicy \in Sources'
    BY <1>1 DEF Sources, ResolvedPolicy, OrElse, Cancellation
  <2>2. resolved'.policy = CancellationToJson(OrElse(ResolvedPolicy, NoLimits))
    BY <1>1 DEF SqlOptions
  <2>3. \A l \in DOMAIN NoLimits :
          LastsAsLong(resolved'.policy[l], OrElse(ResolvedPolicy, NoLimits)[l])
    BY <1>1, <2>2, ResolvedType, PolicyLasts
  <2> QED BY <2>1, <2>3
<1>4. ASSUME known
      PROVE  /\ resolved'.queue = registration.queue
             /\ options.attempts = Absent /\ registration.attempts # Absent =>
                  resolved'.attempts = registration.attempts
             /\ options.policy = Absent /\ registration.policy # Absent =>
                  resolved'.policy = CancellationToJson(registration.policy)
  <2>1. registration \in Registrations /\ registration # Absent
    BY <1>4 DEF TypeInv, TypeOK, PhaseInv
  <2>2. registration.queue # Absent
    BY <2>1, RegistryAssumption DEF Registrations
  <2> QED BY <1>1, <2>1, <2>2
          DEF SqlOptions, ResolvedQueue, ResolvedAttempts, ResolvedPolicy, OrElse, Queue,
              MaxAttempts, Cancellation
<1> QED BY <1>1, <1>2, <1>3, <1>4 DEF SentInv

LEMMA NextSentInv == TypeInv /\ SentInv /\ [Next]_vars => SentInv'
<1> SUFFICES ASSUME TypeInv, SentInv, [Next]_vars PROVE SentInv'
  OBVIOUS
<1>1. ASSUME NEW o \in Options, Register(o)
      PROVE  SentInv'
  <2>1. registration = Absent /\ ~known /\ UNCHANGED <<phase, task, options, known, resolved>>
    BY <1>1 DEF Register, TypeInv, PhaseInv
  <2>2. Sources \subseteq Sources'
    BY <2>1 DEF Sources
  <2> QED BY <2>1, <2>2 DEF SentInv, Sent
<1>2. CASE \/ \E t \in Options \cup {Absent}, o \in Options : Spawn(t, o)
           \/ \E o \in Options : BeforeSpawn(o)
           \/ SpawnFails \/ Spawned
  BY <1>2 DEF Spawn, BeforeSpawn, SpawnFails, Spawned, Forget, SentInv, Sent
<1>3. CASE Resolve
  BY <1>3, ResolveSends
<1>4. CASE Store \/ UNCHANGED vars
  <2>1. Sent' => Sent
    BY <1>4 DEF Store, vars, Sent
  <2>2. UNCHANGED <<registration, task, options, known, resolved>>
    BY <1>4 DEF Store, vars
  <2> QED BY <2>1, <2>2 DEF SentInv, Sources
<1> QED BY <1>1, <1>2, <1>3, <1>4 DEF Next

LEMMA SpecSentInv == Spec => [](TypeInv /\ SentInv)
<1>1. Init => SentInv
  BY DEF Init, SentInv, Sent
<1> QED BY <1>1, SpecTypeInv, NextSentInv, PTL DEF Spec

(* A task that is registered when it is spawned goes to the queue it is    *)
(* registered for, whatever the hook and the caller ask for.               *)
THEOREM TasksGoWhereRegistered == Spec => []SpawnedWhereRegistered
<1>1. SentInv => SpawnedWhereRegistered
  BY DEF SentInv, Sent, SpawnedWhereRegistered
<1> QED BY <1>1, SpecSentInv, PTL

(* What a spawn leaves open is what the registration says, not what the    *)
(* Task value of the caller says.                                          *)
THEOREM DefaultsAreTheRegistrations == Spec => []RegistrationDefaultsApply
<1>1. SentInv => RegistrationDefaultsApply
  BY DEF SentInv, Sent, RegistrationDefaultsApply
<1> QED BY <1>1, SpecSentInv, PTL

(* No task is stored that no worker could ever run.                        *)
THEOREM TasksCanRun == Spec => []SpawnedToRun
<1>1. SentInv => SpawnedToRun
  BY DEF SentInv, Sent, SpawnedToRun
<1> QED BY <1>1, SpecSentInv, PTL

(* The limits of a task are those of one policy, in seconds that last as   *)
(* long as its Durations, though the task may be registered with another   *)
(* policy while the spawn is under way.                                    *)
THEOREM LimitsLast == Spec => []LimitsAreAskedFor
<1>1. SentInv => LimitsAreAskedFor
  BY DEF SentInv, Sent, Sources, LimitsAreAskedFor
<1> QED BY <1>1, SpecSentInv, PTL
=============================================================================
