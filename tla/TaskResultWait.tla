--------------------------- MODULE TaskResultWait ---------------------------
(***************************************************************************)
(* Waiting for the end of another task: Client::await_task_result and      *)
(* TaskContext::await_task_result, both on await_task_result_with_backoff  *)
(* (task_result.rs).  The caller polls with a growing delay until the task *)
(* has ended or its timeout is over; inside a task it also renews the      *)
(* claim of the run it is in.                                              *)
(*                                                                         *)
(* Time is counted in ticks from the start of the wait.  A database call   *)
(* takes up to Latency ticks and takes effect somewhere in between; a      *)
(* sleeping caller is woken up to Latency ticks late.                      *)
(***************************************************************************)
EXTENDS Integers

CONSTANTS
  InitialBackoff,  \* INITIAL_TASK_RESULT_BACKOFF, 50 ms
  MaxBackoff,      \* MAX_TASK_RESULT_BACKOFF, 1 s
  MinHeartbeat,    \* the least heartbeat interval, 500 ms
  ClaimTimeouts,   \* the claim timeouts of workers, in whole seconds
  LeaseAges,       \* how old a claim can be when the wait starts
  Latency,
  Timeouts,        \* the timeouts given
  NoTimeout,
  Ends,            \* the instants at which the awaited task may end
  Horizon          \* bound on the time at which a poll starts

ASSUME WaitAssumption ==
  /\ InitialBackoff \in Nat \ {0} /\ MaxBackoff \in Nat
  /\ InitialBackoff <= MaxBackoff
  /\ MinHeartbeat \in Nat /\ ClaimTimeouts \subseteq Nat \ {0}
  /\ LeaseAges \subseteq Nat
  /\ Latency \in Nat /\ Horizon \in Nat
  /\ Timeouts \subseteq Nat \cup {NoTimeout} /\ NoTimeout \notin Int
  /\ Ends \subseteq Nat

VARIABLES
  phase,          \* the call the wait is in
  clock,
  timeout,        \* options.timeout
  inTask,         \* TaskContext waits, not Client
  ends,           \* when the awaited task ends
  claimTimeout,   \* claim_timeout of the worker
  leaseAge,       \* how old the claim was when the interval before the next
                  \* renewal began
  delay,          \* the backoff
  nap,            \* sleep_for, between next_sleep_duration and the sleep
  nextHeartbeat,  \* next_heartbeat_at
  leaseEnd,       \* until when the database keeps the run for the caller
  outcome         \* what the wait returns

vars == <<phase, clock, timeout, inTask, ends, claimTimeout, leaseAge, delay, nap,
          nextHeartbeat, leaseEnd, outcome>>

Smaller(a, b) == IF a <= b THEN a ELSE b

(* Slip: the claim is renewed once per claim timeout. *)
HeartbeatPerLease == claimTimeout

HeartbeatInterval == IF claimTimeout \div 2 >= MinHeartbeat THEN claimTimeout \div 2
                                                            ELSE MinHeartbeat

TypeOK ==
  /\ phase \in {"fetch", "answer", "heartbeat", "sleep", "done"}
  /\ clock \in Nat
  /\ timeout \in Timeouts
  /\ inTask \in BOOLEAN
  /\ ends \in Ends
  /\ claimTimeout \in ClaimTimeouts
  /\ leaseAge \in LeaseAges \cup {0}
  /\ delay \in InitialBackoff..MaxBackoff
  /\ nap \in 0..MaxBackoff
  /\ nextHeartbeat \in Nat
  /\ leaseEnd \in Int
  /\ outcome \in {"none", "snapshot", "timeout", "error"}

Init ==
  /\ phase = "fetch"
  /\ clock = 0
  /\ timeout \in Timeouts
  /\ inTask \in BOOLEAN
  /\ ends \in Ends
  /\ claimTimeout \in ClaimTimeouts
  /\ leaseAge \in LeaseAges
  /\ delay = InitialBackoff
  /\ nap = 0
  /\ nextHeartbeat = HeartbeatInterval
  /\ leaseEnd = claimTimeout - leaseAge
  /\ outcome = "none"

Finish(x) == phase' = "done" /\ outcome' = x

(* The call fails: the wait ends with its error. *)
CallFails ==
  /\ phase \in {"fetch", "heartbeat"}
  /\ Finish("error")
  /\ UNCHANGED <<clock, timeout, inTask, ends, claimTimeout, leaseAge, delay, nap,
                 nextHeartbeat, leaseEnd>>

(* fetch_task_result_snapshot reads the task at the instant t; a task that *)
(* has ended is the result, whatever the clock says.                       *)
Fetch ==
  /\ phase = "fetch" /\ clock <= Horizon
  /\ \E d \in 0..Latency : \E t \in clock..(clock + d) :
       /\ clock' = clock + d
       /\ IF t >= ends THEN Finish("snapshot")
          ELSE phase' = "answer" /\ UNCHANGED outcome
  /\ UNCHANGED <<timeout, inTask, ends, claimTimeout, leaseAge, delay, nap,
                 nextHeartbeat, leaseEnd>>

(* Slip: the wait gives up when the next poll would come too late. *)
WouldTimeOut == timeout # NoTimeout /\ clock + delay >= timeout

TimedOut == timeout # NoTimeout /\ clock >= timeout

(* Slip: the delay is not cut at the timeout. *)
SleepForDelay == delay

(* next_sleep_duration *)
SleepFor == IF timeout = NoTimeout THEN delay ELSE Smaller(delay, timeout - clock)

(* The task goes on: give up or sleep.  before_sleep renews the claim when *)
(* the time for it has come.                                               *)
Answer ==
  /\ phase = "answer"
  /\ IF TimedOut THEN Finish("timeout") /\ UNCHANGED <<nap, nextHeartbeat>>
     ELSE /\ nap' = SleepFor
          /\ IF inTask /\ clock >= nextHeartbeat
             THEN phase' = "heartbeat" /\ nextHeartbeat' = clock + HeartbeatInterval
             ELSE phase' = "sleep" /\ UNCHANGED nextHeartbeat
          /\ UNCHANGED outcome
  /\ UNCHANGED <<clock, timeout, inTask, ends, claimTimeout, leaseAge, delay, leaseEnd>>

(* extend_claim: from now on the claim is as old as the interval.  On a    *)
(* claim that has lapsed it may be refused: CallFails.                     *)
Heartbeat ==
  /\ phase = "heartbeat"
  /\ \E d \in 0..Latency : \E t \in clock..(clock + d) :
       /\ clock' = clock + d
       /\ leaseEnd' = t + claimTimeout
  /\ leaseAge' = 0
  /\ phase' = "sleep"
  /\ UNCHANGED <<timeout, inTask, ends, claimTimeout, delay, nap, nextHeartbeat, outcome>>

(* Slip: the backoff has no maximum. *)
DoubledBackoff(d) == 2 * d

(* next_task_result_backoff *)
NextBackoff(d) == Smaller(2 * d, MaxBackoff)

Sleep ==
  /\ phase = "sleep"
  /\ \E late \in 0..Latency : clock' = clock + nap + late
  /\ delay' = NextBackoff(delay)
  /\ phase' = "fetch"
  /\ UNCHANGED <<timeout, inTask, ends, claimTimeout, leaseAge, nap, nextHeartbeat,
                 leaseEnd, outcome>>

Next == Fetch \/ Answer \/ Heartbeat \/ Sleep \/ CallFails

Spec == Init /\ [][Next]_vars

-----------------------------------------------------------------------------
(* Properties. *)

(* Half the claim timeout lasts for the age of the claim, one backoff and  *)
(* the calls around it.  The interval before a renewal begins with the     *)
(* wait and not with the claim, and does not depend on the backoff: the    *)
(* code does not see to this.                                              *)
LeaseLongEnough ==
  /\ claimTimeout >= 2 * MinHeartbeat
  /\ claimTimeout >= 2 * (leaseAge + MaxBackoff + 3 * Latency)

(* If the claim is long and young enough, a task that waits keeps it until *)
(* the wait has an end, although the renewals are tied to the polls, which *)
(* come up to MaxBackoff apart.  Its age counts before the first renewal   *)
(* only; a claim that is too short or too old may lapse in between.        *)
LeaseKept ==
  inTask /\ LeaseLongEnough /\ outcome \in {"none", "snapshot"} =>
    /\ clock < leaseEnd
    /\ phase = "heartbeat" => clock + Latency < leaseEnd

(* The wait does not outlive its timeout by more than a late wake-up, the  *)
(* renewal before it and the poll after it, and is not given up before it. *)
TimeoutHonoured ==
  timeout # NoTimeout =>
    /\ clock <= timeout + 3 * Latency
    /\ outcome = "timeout" => clock >= timeout

(* The answer wins the race against the timeout: the task is polled once   *)
(* more when the timeout is over, so one that ended in time is reported as *)
(* a timeout only if it ended while that last poll was being answered.     *)
LateAnswerWins == outcome = "timeout" => ends > timeout - Latency

(* The end of the task is noticed within one backoff. *)
AnswerNoticed == outcome = "none" => clock <= ends + MaxBackoff + 3 * Latency
=============================================================================
