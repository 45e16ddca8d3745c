------------------------ MODULE TaskResultWaitProofs ------------------------
(***************************************************************************)
(* The timing of waits, for every backoff, latency, timeout and claim      *)
(* timeout: what remains between two database calls is bounded by what the *)
(* calls and the sleeps can take.                                          *)
(***************************************************************************)
EXTENDS TaskResultWait, TLAPS

(* TypeOK without the ranges TLC needs. *)
Typed ==
  /\ phase \in {"fetch", "answer", "heartbeat", "sleep", "done"}
  /\ clock \in Nat
  /\ timeout \in Timeouts
  /\ inTask \in BOOLEAN
  /\ ends \in Ends
  /\ claimTimeout \in ClaimTimeouts
  /\ leaseAge \in Nat
  /\ delay \in InitialBackoff..MaxBackoff
  /\ nap \in 0..MaxBackoff
  /\ nextHeartbeat \in Nat
  /\ leaseEnd \in Int
  /\ outcome \in {"none", "snapshot", "timeout", "error"}
  /\ phase # "done" <=> outcome = "none"

LEMMA IntervalType == claimTimeout \in ClaimTimeouts => HeartbeatInterval \in Nat
BY WaitAssumption DEF HeartbeatInterval

LEMMA InitTyped == Init => Typed
BY WaitAssumption, IntervalType DEF Init, Typed

LEMMA NextTyped ==
  ASSUME Typed, [Next]_vars
  PROVE  Typed'
<1>1. CASE Fetch
  BY <1>1, WaitAssumption DEF Fetch, Finish, Typed
<1>2. CASE Answer
  <2>1. CASE TimedOut
    BY <1>2, <2>1 DEF Answer, Finish, Typed
  <2>2. CASE ~TimedOut
    <3>1. SleepFor \in 0..MaxBackoff
      BY <2>2, WaitAssumption DEF SleepFor, Smaller, TimedOut, Typed
    <3> QED BY <1>2, <2>2, <3>1, IntervalType DEF Answer, Typed
  <2> QED BY <2>1, <2>2
<1>3. CASE Heartbeat
  BY <1>3, WaitAssumption DEF Heartbeat, Typed
<1>4. CASE Sleep
  BY <1>4, WaitAssumption DEF Sleep, NextBackoff, Smaller, Typed
<1>5. CASE CallFails
  BY <1>5 DEF CallFails, Finish, Typed
<1>6. CASE UNCHANGED vars
  BY <1>6 DEF vars, Typed
<1> QED BY <1>1, <1>2, <1>3, <1>4, <1>5, <1>6 DEF Next

-----------------------------------------------------------------------------
(* The timeout and the answer. *)

(* How far the clock can be behind the timeout, call by call.              *)
DeadlineInv ==
  timeout # NoTimeout =>
    /\ phase = "fetch" => clock <= timeout + 2 * Latency
    /\ phase \in {"answer", "done"} => clock <= timeout + 3 * Latency
    /\ phase = "heartbeat" => clock + nap <= timeout
    /\ phase = "sleep" => clock + nap <= timeout + Latency
    /\ outcome = "timeout" => clock >= timeout

(* What the last poll has shown of the end of the task.                    *)
AnswerInv ==
  /\ outcome = "timeout" => timeout # NoTimeout /\ ends > timeout - Latency
  /\ phase \in {"answer", "heartbeat"} => ends > clock - Latency
  /\ phase = "sleep" => ends > clock - 2 * Latency
  /\ phase = "fetch" => clock <= ends + MaxBackoff + 3 * Latency

LEMMA InitDeadlines == Init => DeadlineInv /\ AnswerInv
BY WaitAssumption DEF Init, DeadlineInv, AnswerInv

LEMMA NextDeadlines ==
  ASSUME Typed, DeadlineInv, AnswerInv, [Next]_vars
  PROVE  DeadlineInv' /\ AnswerInv'
<1>t. /\ timeout # NoTimeout => timeout \in Nat
      /\ clock \in Nat /\ nap \in Nat /\ ends \in Nat /\ delay \in Nat /\ Latency \in Nat
      /\ MaxBackoff \in Nat /\ delay <= MaxBackoff /\ nap <= MaxBackoff
  BY WaitAssumption DEF Typed
<1>1. CASE Fetch
  <2>1. PICK d \in 0..Latency : \E t \in clock..(clock + d) :
          /\ clock' = clock + d
          /\ IF t >= ends THEN Finish("snapshot") ELSE phase' = "answer" /\ UNCHANGED outcome
    BY <1>1 DEF Fetch
  <2>2. \/ phase' = "done" /\ outcome' = "snapshot"
        \/ phase' = "answer" /\ outcome' = outcome /\ clock' < ends + Latency
    BY <1>t, <2>1 DEF Finish
  <2>3. phase = "fetch" /\ outcome = "none" /\ UNCHANGED <<timeout, ends, nap>>
    BY <1>1 DEF Fetch, Typed
  <2> QED BY <1>t, <2>1, <2>2, <2>3 DEF DeadlineInv, AnswerInv
<1>2. CASE Answer /\ TimedOut
  BY <1>2, <1>t DEF Answer, TimedOut, Finish, DeadlineInv, AnswerInv
<1>3. CASE Answer /\ ~TimedOut
  <2>1. timeout # NoTimeout => clock + SleepFor <= timeout
    BY <1>3, <1>t DEF TimedOut, SleepFor, Smaller
  <2>2. /\ phase = "answer" /\ phase' \in {"heartbeat", "sleep"} /\ nap' = SleepFor
        /\ UNCHANGED <<clock, timeout, ends, outcome>>
    BY <1>3 DEF Answer
  <2>3. outcome' = "none" /\ SleepFor \in Int
    BY <1>t, <2>2 DEF Typed, SleepFor, Smaller
  <2>4. DeadlineInv'
    BY <1>t, <2>1, <2>2, <2>3 DEF DeadlineInv
  <2>5. AnswerInv'
    BY <1>t, <2>2, <2>3 DEF AnswerInv
  <2> QED BY <2>4, <2>5
<1>4. CASE Heartbeat
  <2>1. PICK d \in 0..Latency : clock' = clock + d
    BY <1>4 DEF Heartbeat
  <2> QED BY <1>4, <1>t, <2>1 DEF Heartbeat, DeadlineInv, AnswerInv, Typed
<1>5. CASE Sleep
  <2>1. PICK late \in 0..Latency : clock' = clock + nap + late
    BY <1>5 DEF Sleep
  <2> QED BY <1>5, <1>t, <2>1 DEF Sleep, DeadlineInv, AnswerInv, Typed
<1>6. CASE CallFails
  BY <1>6, <1>t DEF CallFails, Finish, DeadlineInv, AnswerInv
<1>7. CASE UNCHANGED vars
  BY <1>7 DEF vars, DeadlineInv, AnswerInv
<1> QED BY <1>1, <1>2, <1>3, <1>4, <1>5, <1>6, <1>7 DEF Next

LEMMA DeadlinesHold == Spec => [](Typed /\ DeadlineInv /\ AnswerInv)
<1>1. Init => Typed /\ DeadlineInv /\ AnswerInv
  BY InitTyped, InitDeadlines
<1>2. Typed /\ DeadlineInv /\ AnswerInv /\ [Next]_vars => Typed' /\ DeadlineInv' /\ AnswerInv'
  BY NextTyped, NextDeadlines
<1> QED BY <1>1, <1>2, PTL DEF Spec

(* A wait is never given up before its timeout, and outlives it by three   *)
(* late calls at most, whatever the backoff has grown to.                  *)
THEOREM TimeoutsAreHonoured == Spec => []TimeoutHonoured
<1>1. Typed /\ DeadlineInv => TimeoutHonoured
  BY WaitAssumption DEF Typed, DeadlineInv, TimeoutHonoured
<1> QED BY <1>1, DeadlinesHold, PTL

(* A task that ended before the timeout, but for the time of one call, is  *)
(* never reported as a timeout.                                            *)
THEOREM LateAnswersWin == Spec => []LateAnswerWins
<1>1. AnswerInv => LateAnswerWins
  BY DEF AnswerInv, LateAnswerWins
<1> QED BY <1>1, DeadlinesHold, PTL

(* The end of the task is noticed within one backoff and three late calls. *)
THEOREM AnswersAreNoticed == Spec => []AnswerNoticed
<1>1. Typed /\ AnswerInv => AnswerNoticed
  BY WaitAssumption DEF Typed, AnswerInv, AnswerNoticed
<1> QED BY <1>1, DeadlinesHold, PTL

-----------------------------------------------------------------------------
(* The claim. *)

(* What is left of a claim that is long enough when the renewal is due. *)
LEMMA LeftOfLease ==
  ASSUME Typed, LeaseLongEnough
  PROVE  /\ HeartbeatInterval > Latency
         /\ claimTimeout - HeartbeatInterval - leaseAge >= MaxBackoff + 3 * Latency
<1>1. /\ claimTimeout \in Nat /\ leaseAge \in Nat /\ MinHeartbeat \in Nat
      /\ MaxBackoff \in Nat \ {0} /\ Latency \in Nat
  BY WaitAssumption DEF Typed
<1>2. HeartbeatInterval = claimTimeout \div 2
  BY <1>1 DEF HeartbeatInterval, LeaseLongEnough
<1> QED BY <1>1, <1>2 DEF LeaseLongEnough

(* Whatever the claim timeout, a claim lasts for a fixed time after the    *)
(* instant at which the renewal is due, and while renewals take effect     *)
(* before the next is due, the clock has not gone far beyond that instant. *)
LeaseInv ==
  inTask /\ HeartbeatInterval > Latency =>
    /\ phase # "heartbeat" /\ outcome # "error" =>
         leaseEnd >= nextHeartbeat + (claimTimeout - HeartbeatInterval - leaseAge)
    /\ phase = "heartbeat" =>
         /\ nextHeartbeat = clock + HeartbeatInterval
         /\ LeaseLongEnough => clock + Latency < leaseEnd
    /\ phase = "sleep" => clock < nextHeartbeat
    /\ phase = "fetch" => clock < nextHeartbeat + MaxBackoff + Latency
    /\ phase = "answer" => clock < nextHeartbeat + MaxBackoff + 2 * Latency
    /\ outcome = "snapshot" => clock < nextHeartbeat + MaxBackoff + 2 * Latency

LEMMA InitLease == Init => LeaseInv
BY WaitAssumption, IntervalType DEF Init, LeaseInv

LEMMA NextLease ==
  ASSUME Typed, LeaseInv, [Next]_vars
  PROVE  LeaseInv'
<1>t. /\ clock \in Nat /\ nap \in Nat /\ nextHeartbeat \in Nat /\ leaseEnd \in Int
      /\ Latency \in Nat /\ MaxBackoff \in Nat /\ claimTimeout \in Nat /\ leaseAge \in Nat
      /\ HeartbeatInterval \in Nat /\ nap <= MaxBackoff
  BY WaitAssumption, IntervalType DEF Typed
<1>i. claimTimeout' = claimTimeout /\ HeartbeatInterval' = HeartbeatInterval
  BY DEF Next, Fetch, Answer, Heartbeat, Sleep, CallFails, vars, HeartbeatInterval
<1>1. CASE Fetch
  <2>1. PICK d \in 0..Latency : clock' = clock + d
    BY <1>1 DEF Fetch
  <2>2. /\ phase = "fetch" /\ phase' \in {"answer", "done"}
        /\ UNCHANGED <<inTask, leaseAge, nextHeartbeat, leaseEnd>>
        /\ outcome = "none"
    BY <1>1 DEF Fetch, Finish, Typed
  <2> QED BY <1>t, <1>i, <2>1, <2>2 DEF LeaseInv
<1>2. CASE Answer
  <2>1. CASE phase' = "heartbeat"
    <3>1. /\ phase = "answer" /\ nextHeartbeat' = clock + HeartbeatInterval
          /\ UNCHANGED <<clock, inTask, leaseEnd, outcome>> /\ outcome = "none"
      BY <1>2, <2>1 DEF Answer, Finish, Typed
    <3>2. claimTimeout' = claimTimeout /\ leaseAge' = leaseAge
      BY <1>2 DEF Answer
    <3>3. LeaseLongEnough' = LeaseLongEnough
      BY <3>2 DEF LeaseLongEnough
    <3>4. LeaseLongEnough /\ inTask /\ HeartbeatInterval > Latency => clock + Latency < leaseEnd
      BY <1>t, <3>1, LeftOfLease DEF LeaseInv
    <3> QED BY <1>t, <1>i, <2>1, <3>1, <3>3, <3>4 DEF LeaseInv
  <2>2. CASE phase' # "heartbeat"
    <3>1. /\ phase = "answer" /\ phase' \in {"sleep", "done"}
          /\ phase' = "sleep" /\ inTask => clock < nextHeartbeat
          /\ phase' = "done" => outcome' = "timeout"
          /\ phase' = "sleep" => outcome' = "none"
          /\ UNCHANGED <<clock, inTask, leaseAge, leaseEnd, nextHeartbeat>> /\ outcome = "none"
      BY <1>2, <1>t, <2>2 DEF Answer, Finish, Typed
    <3> QED BY <1>t, <1>i, <2>2, <3>1 DEF LeaseInv
  <2> QED BY <2>1, <2>2
<1>3. CASE Heartbeat
  <2>1. PICK d \in 0..Latency : \E t \in clock..(clock + d) :
          clock' = clock + d /\ leaseEnd' = t + claimTimeout
    BY <1>3 DEF Heartbeat
  <2>2. clock' <= clock + Latency /\ leaseEnd' >= clock + claimTimeout
    BY <1>t, <2>1
  <2>3. /\ phase = "heartbeat" /\ phase' = "sleep" /\ outcome' = "none" /\ leaseAge' = 0
        /\ UNCHANGED <<inTask, nextHeartbeat>>
        /\ clock' \in Int /\ leaseEnd' \in Int
    BY <1>3, <1>t, <2>1 DEF Heartbeat, Typed
  <2> QED BY <1>t, <1>i, <2>2, <2>3 DEF LeaseInv
<1>4. CASE Sleep
  <2>1. PICK late \in 0..Latency : clock' = clock + nap + late
    BY <1>4 DEF Sleep
  <2>2. /\ phase = "sleep" /\ phase' = "fetch" /\ outcome = "none" /\ outcome' = "none"
        /\ UNCHANGED <<inTask, leaseAge, nextHeartbeat, leaseEnd>>
    BY <1>4 DEF Sleep, Typed
  <2> QED BY <1>t, <1>i, <2>1, <2>2 DEF LeaseInv
<1>5. CASE CallFails
  <2>1. /\ phase \in {"fetch", "heartbeat"} /\ phase' = "done" /\ outcome' = "error"
        /\ UNCHANGED <<clock, inTask, leaseAge, nextHeartbeat, leaseEnd>>
    BY <1>5 DEF CallFails, Finish
  <2> QED BY <1>i, <2>1 DEF LeaseInv
<1>6. CASE UNCHANGED vars
  BY <1>6 DEF vars, LeaseInv, LeaseLongEnough, HeartbeatInterval
<1> QED BY <1>1, <1>2, <1>3, <1>4, <1>5, <1>6 DEF Next

(* A task that waits keeps its claim, whatever the backoff has grown to, if *)
(* half the claim timeout lasts for the age of the claim, one backoff and   *)
(* the calls around it: the code does not choose the interval so that this  *)
(* holds, and once the claim has been renewed its age is nothing.           *)
THEOREM LeasesAreKept == Spec => []LeaseKept
<1>1. Init => Typed /\ LeaseInv
  BY InitTyped, InitLease
<1>2. Typed /\ LeaseInv /\ [Next]_vars => Typed' /\ LeaseInv'
  BY NextTyped, NextLease
<1>3. Typed /\ LeaseInv => LeaseKept
  <2> SUFFICES ASSUME Typed, LeaseInv, inTask, LeaseLongEnough, outcome \in {"none", "snapshot"}
               PROVE  clock < leaseEnd /\ (phase = "heartbeat" => clock + Latency < leaseEnd)
    BY DEF LeaseKept
  <2>1. /\ clock \in Nat /\ nextHeartbeat \in Nat /\ leaseEnd \in Int
        /\ Latency \in Nat /\ MaxBackoff \in Nat /\ claimTimeout \in Nat /\ leaseAge \in Nat
        /\ HeartbeatInterval \in Nat /\ HeartbeatInterval > Latency
        /\ claimTimeout - HeartbeatInterval - leaseAge >= MaxBackoff + 3 * Latency
    BY WaitAssumption, IntervalType, LeftOfLease DEF Typed
  <2>2. CASE phase = "heartbeat"
    BY <2>1, <2>2 DEF LeaseInv
  <2>3. CASE phase # "heartbeat"
    <3>1. clock < nextHeartbeat + MaxBackoff + 2 * Latency
      BY <2>1, <2>3 DEF Typed, LeaseInv
    <3> QED BY <2>1, <2>3, <3>1 DEF LeaseInv
  <2> QED BY <2>2, <2>3
<1> QED BY <1>1, <1>2, <1>3, PTL DEF Spec
=============================================================================
