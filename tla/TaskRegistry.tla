---------------------------- MODULE TaskRegistry ----------------------------
(***************************************************************************)
(* Registration and spawning (client.rs): what a client, shared by all the *)
(* tasks of an application, makes of the options of a spawn, while task    *)
(* handlers are still being registered.  One task name; one spawn of it at *)
(* a time, since spawns touch nothing but the database.                    *)
(*                                                                         *)
(* Options are records of what they leave to the SDK, Absent, or set:      *)
(*   queue, attempts (max attempts), policy (cancellation)                 *)
(* The retry strategy, the headers and the idempotency key of a spawn go   *)
(* to the database as they are, and are left out.                          *)
(***************************************************************************)
EXTENDS Integers, Durations

CONSTANTS
  Queues,          \* queue names
  ValidQueues,     \* those of them that validate_queue_name accepts
  Home,            \* queue_name of the client, which its workers claim from
  Attempts,        \* the numbers of attempts that are asked for
  ClientAttempts,  \* default_max_attempts of the client
  Policies,        \* cancellation policies: a Duration or Absent for each limit
  Absent           \* None

ASSUME RegistryAssumption ==
  /\ Home \in ValidQueues /\ ValidQueues \subseteq Queues
  /\ Attempts \subseteq Int /\ ClientAttempts \in Int
  /\ Policies \subseteq [max_duration : Nat \cup {Absent}, max_delay : Nat \cup {Absent}]
  /\ Absent \notin Queues \cup Policies \cup Int

VARIABLES
  registration,  \* the entry of the task in the registry, or Absent
  phase,         \* where spawn_resolved is
  task,          \* the TaskOptions of the Task value, or Absent (spawn_named)
  options,       \* the SpawnOptions
  known,         \* history: the task was registered when spawn was called
  resolved       \* the queue and the options for absurd.spawn_task

vars == <<registration, phase, task, options, known, resolved>>

Options == [queue    : Queues \cup {Absent},
            attempts : Attempts \cup {Absent},
            policy   : Policies \cup {Absent}]

(* None is not Some(options). *)
ASSUME OptionsAssumption == Absent \notin Options

(* The limits of a policy as the database has them, in seconds. *)
SqlPolicies == [max_duration : 0..MaxSeconds \cup {Absent}, max_delay : 0..MaxSeconds \cup {Absent}]

NoLimits == [max_duration |-> Absent, max_delay |-> Absent]

Registrations == [queue    : ValidQueues,
                  attempts : {a \in Attempts : a >= 1} \cup {Absent},
                  policy   : Policies \cup {Absent}]

TypeOK ==
  /\ registration \in Registrations \cup {Absent}
  /\ phase \in {"idle", "hook", "resolve", "store", "spawned"}
  /\ task \in Options \cup {Absent}
  /\ options \in Options \cup {Absent}
  /\ known \in BOOLEAN
  /\ resolved \in [queue    : Queues,
                   attempts : Attempts \cup {ClientAttempts},
                   policy   : SqlPolicies] \cup {Absent}

Init ==
  /\ registration = Absent
  /\ phase = "idle"
  /\ task = Absent
  /\ options = Absent
  /\ known = FALSE
  /\ resolved = Absent

-----------------------------------------------------------------------------
(* a.or_else(|| b) *)
OrElse(a, b) == IF a # Absent THEN a ELSE b

(* record.and_then(|r| r.field) *)
Queue(record) == IF record = Absent THEN Absent ELSE record.queue
MaxAttempts(record) == IF record = Absent THEN Absent ELSE record.attempts
Cancellation(record) == IF record = Absent THEN Absent ELSE record.policy

(* Slip: the attempts of a registration are not checked. *)
RegisterUnchecked(o) ==
  /\ OrElse(o.queue, Home) \in ValidQueues
  /\ registration = Absent
  /\ registration' = [o EXCEPT !.queue = OrElse(o.queue, Home)]
  /\ UNCHANGED <<phase, task, options, known, resolved>>

(* register_with_options, under the write lock: invalid options and a name *)
(* that is taken are refused.                                              *)
Register(o) ==
  /\ o.attempts # Absent => o.attempts >= 1
  /\ OrElse(o.queue, Home) \in ValidQueues
  /\ registration = Absent
  /\ registration' = [o EXCEPT !.queue = OrElse(o.queue, Home)]
  /\ UNCHANGED <<phase, task, options, known, resolved>>

(* spawn or spawn_named is called. *)
Spawn(t, o) ==
  /\ phase = "idle"
  /\ phase' = "hook"
  /\ task' = t
  /\ options' = o
  /\ known' = (registration # Absent)
  /\ UNCHANGED <<registration, resolved>>

(* The before_spawn hook returns the options, or others; it may take long. *)
BeforeSpawn(o) ==
  /\ phase = "hook"
  /\ options' = o
  /\ phase' = "resolve"
  /\ UNCHANGED <<registration, task, known, resolved>>

(* A registered task is spawned in the queue it is registered for: another *)
(* queue in the options or in the Task value is an error.  Otherwise some  *)
(* queue must have been named.                                             *)
QueueAgreed ==
  IF registration # Absent
  THEN OrElse(options.queue, registration.queue) = registration.queue
       /\ OrElse(Queue(task), registration.queue) = registration.queue
  ELSE OrElse(options.queue, Queue(task)) # Absent

ResolvedQueue == OrElse(Queue(registration), OrElse(options.queue, Queue(task)))

(* Slip: the Task value of the caller wins over the registration. *)
TaskAttempts ==
  OrElse(options.attempts,
    OrElse(MaxAttempts(task), OrElse(MaxAttempts(registration), ClientAttempts)))

ResolvedAttempts ==
  OrElse(options.attempts,
    OrElse(MaxAttempts(registration), OrElse(MaxAttempts(task), ClientAttempts)))

ResolvedPolicy == OrElse(options.policy, OrElse(Cancellation(registration), Cancellation(task)))

(* Slip: a fraction of a second is cut off. *)
CancellationInWholeSeconds(p) ==
  [l \in DOMAIN NoLimits |-> IF p[l] = Absent THEN Absent ELSE DurationSecondsFloor(p[l])]

(* CancellationPolicy::to_json; without limits there is none in the JSON. *)
CancellationToJson(p) ==
  [l \in DOMAIN NoLimits |-> IF p[l] = Absent THEN Absent ELSE DurationSecondsCeil(p[l])]

(* SpawnOptions::to_sql_json, and the queue it goes with. *)
SqlOptions(queue) ==
  [queue    |-> queue,
   attempts |-> ResolvedAttempts,
   policy   |-> CancellationToJson(OrElse(ResolvedPolicy, NoLimits))]

(* Slip: the attempts are not checked after the defaults are applied. *)
ResolveUnchecked ==
  /\ phase = "resolve"
  /\ QueueAgreed /\ ResolvedQueue \in ValidQueues
  /\ resolved' = SqlOptions(ResolvedQueue)
  /\ phase' = "store"
  /\ UNCHANGED <<registration, task, options, known>>

(* Slip: the queue that is asked for wins over that of the registration. *)
ResolveAsAsked ==
  /\ phase = "resolve"
  /\ ResolvedAttempts >= 1
  /\ LET queue == OrElse(options.queue, OrElse(Queue(task), Queue(registration)))
     IN /\ queue \in ValidQueues
        /\ resolved' = SqlOptions(queue)
  /\ phase' = "store"
  /\ UNCHANGED <<registration, task, options, known>>

(* resolve_spawn refuses what could not run. *)
Resolvable == QueueAgreed /\ ResolvedQueue \in ValidQueues /\ ResolvedAttempts >= 1

(* resolve_spawn, from one look at the registry, and to_sql_json. *)
Resolve ==
  /\ phase = "resolve"
  /\ Resolvable
  /\ resolved' = SqlOptions(ResolvedQueue)
  /\ phase' = "store"
  /\ UNCHANGED <<registration, task, options, known>>

(* absurd.spawn_task *)
Store ==
  /\ phase = "store"
  /\ phase' = "spawned"
  /\ UNCHANGED <<registration, task, options, known, resolved>>

Forget ==
  /\ phase' = "idle"
  /\ task' = Absent /\ options' = Absent /\ known' = FALSE /\ resolved' = Absent
  /\ UNCHANGED registration

(* The hook, resolve_spawn or the database refuses: nothing is spawned. *)
SpawnFails ==
  /\ phase \in {"hook", "resolve", "store"}
  /\ phase = "resolve" => ~Resolvable
  /\ Forget

(* The caller has the SpawnResult. *)
Spawned == phase = "spawned" /\ Forget

Next ==
  \/ \E o \in Options : Register(o) \/ BeforeSpawn(o)
  \/ \E t \in Options \cup {Absent}, o \in Options : Spawn(t, o)
  \/ Resolve \/ Store \/ SpawnFails \/ Spawned

Spec == Init /\ [][Next]_vars

-----------------------------------------------------------------------------
(* Properties. *)

(* What the hook and the caller ask for cannot send a registered task to a *)
(* queue whose workers would fail it ("task is registered for queue ...",  *)
(* executor.rs): only a spawn that began before the registration can.      *)
SpawnedWhereRegistered ==
  phase = "spawned" /\ known => resolved.queue = registration.queue

(* A spawn that leaves the attempts and the policy open gets those of the  *)
(* registration, whatever the Task value of the caller says.               *)
RegistrationDefaultsApply ==
  phase = "spawned" /\ known =>
    /\ options.attempts = Absent /\ registration.attempts # Absent =>
         resolved.attempts = registration.attempts
    /\ options.policy = Absent /\ registration.policy # Absent =>
         resolved.policy = CancellationToJson(registration.policy)

(* No task is spawned that could never run, wherever its queue and the     *)
(* number of its attempts came from.                                       *)
SpawnedToRun ==
  phase = "spawned" => resolved.queue \in ValidQueues /\ resolved.attempts >= 1

(* A limit in seconds is not over before the Duration it was made from. *)
LastsAsLong(seconds, limit) ==
  IF limit = Absent THEN seconds = Absent
  ELSE seconds = MaxSeconds \/ limit <= seconds * Second

(* The limits of a spawned task are those of one policy that somebody      *)
(* asked for, neither mixed with another's nor shorter, unless an i32      *)
(* cannot hold them: a task is never cancelled while the policy of its     *)
(* application still lets it run.  Where one of the three asks for none,   *)
(* none will do; whose policy it is to be is RegistrationDefaultsApply's.  *)
LimitsAreAskedFor ==
  phase = "spawned" =>
    \E p \in {options.policy, Cancellation(registration), Cancellation(task)} :
      \A l \in DOMAIN NoLimits : LastsAsLong(resolved.policy[l], OrElse(p, NoLimits)[l])
=============================================================================
