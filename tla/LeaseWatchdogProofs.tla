-------------------------- MODULE LeaseWatchdogProofs --------------------------
(***************************************************************************)
(* Proofs about LeaseWatchdog, for all timeouts, durations of renewals,    *)
(* and latencies of the watchdog.                                          *)
(***************************************************************************)
EXTENDS LeaseWatchdog, TLAPS

(* A claim is granted for a natural number of ticks. *)
LEMMA ClaimTicksNat ==
  ASSUME NEW d \in Nat
  PROVE  ClaimTicks(d) \in Nat
<1>1. d \div Second \in Nat
  BY DurationAssumption, SMT
<1>2. DurationSecondsCeil(d) \in Nat
  BY <1>1, DurationAssumption DEF DurationSecondsCeil
<1>3. \A m, n \in Nat : m * n \in Nat
  BY SMT
<1> QED BY <1>2, <1>3, DurationAssumption DEF ClaimTicks

-----------------------------------------------------------------------------
(* Types.                                                                  *)

LEMMA InitType == Init => TypeOK
<1> SUFFICES ASSUME Init PROVE TypeOK
  OBVIOUS
<1>1. claimTimeout \in Nat
  BY WatchdogAssumption DEF Init
<1>2. ClaimTicks(claimTimeout) \in Nat
  BY <1>1, ClaimTicksNat
<1>3. unseen \in BOOLEAN /\ dropped \in BOOLEAN /\ fatal \in BOOLEAN
  BY Zenon DEF Init
<1> QED BY <1>1, <1>2, <1>3, WatchdogAssumption DEF Init, TypeOK, Phases, Watches

LEMMA ExecutionType == TypeOK /\ Execution => TypeOK'
<1> SUFFICES ASSUME TypeOK, Execution PROVE TypeOK'
  OBVIOUS
<1> USE DEF TypeOK, Phases, Watches, handlerVars, watchVars, Goto
<1>1. CASE Start
  BY <1>1, WatchdogAssumption DEF Start
<1>2. CASE Renew
  <2>1. asked' \in Nat
    BY <1>2, WatchdogAssumption DEF Renew, Renewals
  <2> QED BY <1>2, <2>1 DEF Renew
<1>3. CASE ExtendClaim
  <2>1. claim' \in Nat
    BY <1>3, ClaimTicksNat DEF ExtendClaim
  <2> QED BY <1>3, <2>1 DEF ExtendClaim
<1>4. CASE Notify
  BY <1>4 DEF Notify
<1>5. CASE RenewalFails
  BY <1>5 DEF RenewalFails
<1>6. CASE HandlerEnds
  BY <1>6 DEF HandlerEnds
<1>7. CASE HandlerPanics
  BY <1>7 DEF HandlerPanics
<1>8. CASE Abort
  BY <1>8 DEF Abort
<1> QED BY <1>1, <1>2, <1>3, <1>4, <1>5, <1>6, <1>7, <1>8 DEF Execution

LEMMA WatchdogType == TypeOK /\ Watchdog => TypeOK'
<1> SUFFICES ASSUME TypeOK, Watchdog PROVE TypeOK'
  OBVIOUS
<1> USE WatchdogAssumption DEF TypeOK, Phases, Watches, handlerVars, Arm, Polled
<1>1. CASE FirstPoll
  BY <1>1 DEF FirstPoll
<1>2. CASE RenewalSeen
  <2>1. unseen' \in BOOLEAN
    BY <1>2, Zenon DEF RenewalSeen
  <2> QED BY <1>2, <2>1 DEF RenewalSeen
<1>3. CASE SenderGone
  BY <1>3 DEF SenderGone
<1>4. CASE Warn
  BY <1>4 DEF Warn
<1>5. CASE Exit
  BY <1>5 DEF Exit
<1> QED BY <1>1, <1>2, <1>3, <1>4, <1>5 DEF Watchdog

LEMMA TickType == TypeOK /\ Tick => TypeOK'
  BY WatchdogAssumption DEF TypeOK, Tick, Floor

LEMMA NextType == TypeOK /\ [Next]_vars => TypeOK'
<1> SUFFICES ASSUME TypeOK, [Next]_vars PROVE TypeOK'
  OBVIOUS
<1>1. CASE Execution
  BY <1>1, ExecutionType
<1>2. CASE Watchdog
  BY <1>2, WatchdogType
<1>3. CASE Tick
  BY <1>3, TickType
<1>4. CASE UNCHANGED vars
  BY <1>4 DEF TypeOK, vars, handlerVars, watchVars
<1> QED BY <1>1, <1>2, <1>3, <1>4 DEF Next

(* The watchdog's variables have their types. *)
THEOREM WatchdogTypeCorrect == Spec => []TypeOK
<1> QED BY InitType, NextType, PTL DEF Spec

-----------------------------------------------------------------------------
(* The invariant.                                                          *)

(* The sender goes with the handler, and the watchdog with the execution. *)
PhaseInv ==
  /\ phase = "claimed" => watch = "off" /\ ~unseen /\ late = 0
  /\ phase # "claimed" => watch # "off"
  /\ dropped <=> phase \in {"ended", "over"}
  /\ watch = "gone" => dropped

(* What the timers have measured. *)
ElapsedInv ==
  /\ watch = "first" => quiet >= armed - timer
  /\ watch = "second" => quiet >= 2 * armed - timer
  /\ watch = "exited" => quiet >= 2 * armed

(* A renewal that is not seen is as old as the watchdog is late, and when  *)
(* there is none it has read the last one.                                 *)
SeenInv ==
  /\ unseen /\ watch \notin {"off", "gone"} => silence <= late
  /\ ~unseen /\ watch \in {"first", "second", "exited"} => armed = lease
  /\ ~unseen /\ watch \notin {"off", "gone"} => quiet = silence

(* How long a fatal watchdog has let the handler be silent. *)
PatienceInv ==
  /\ watch = "spawned" => silence <= late
  /\ watch \in {"first", "second"} /\ ~unseen /\ ~dropped /\ timer > 0 => late = 0
  /\ fatal /\ watch = "first" /\ ~unseen => silence <= MaxLate + (armed - timer) + late
  /\ fatal /\ watch = "second" /\ ~unseen =>
       silence <= 2 * MaxLate + (2 * armed - timer) + late

(* What is left of the claim of which it has heard. *)
ClaimInv ==
  /\ phase = "answering" => claim <= ClaimTicks(asked)
  /\ unseen => heard # "yes"
  /\ heard = "sent" => unseen
  /\ heard # "no" => claim <= ClaimTicks(lease)
  /\ heard = "yes" /\ watch = "first" =>
       claim = 0 \/ claim + (armed - timer) <= ClaimTicks(armed)
  /\ heard = "yes" /\ watch = "second" =>
       claim = 0 \/ claim + (2 * armed - timer) <= ClaimTicks(armed)
  /\ heard = "yes" /\ watch = "exited" =>
       claim = 0 \/ claim + 2 * armed <= ClaimTicks(armed)

WatchInv == PhaseInv /\ ElapsedInv /\ SeenInv /\ PatienceInv /\ ClaimInv

LEMMA InitWatch == Init => WatchInv
<1> SUFFICES ASSUME Init PROVE WatchInv
  OBVIOUS
<1>1. claimTimeout \in Nat /\ ClaimTicks(claimTimeout) \in Nat
  BY ClaimTicksNat, WatchdogAssumption DEF Init
<1> QED
  BY <1>1, WatchdogAssumption
     DEF Init, WatchInv, PhaseInv, ElapsedInv, SeenInv, PatienceInv, ClaimInv

LEMMA ExecutionWatch == TypeOK /\ WatchInv /\ Execution => WatchInv'
<1> SUFFICES ASSUME TypeOK, WatchInv, Execution PROVE WatchInv'
  OBVIOUS
<1> USE WatchdogAssumption DEF TypeOK, Phases, Watches, WatchInv, handlerVars, watchVars, Goto
<1>1. CASE Start
  <2>1. PhaseInv'
    BY <1>1 DEF Start, PhaseInv
  <2>2. ElapsedInv'
    BY <1>1 DEF Start, ElapsedInv
  <2>3. SeenInv'
    BY <1>1 DEF Start, SeenInv
  <2>4. PatienceInv'
    BY <1>1 DEF Start, PatienceInv
  <2>5. ClaimInv'
    BY <1>1 DEF Start, ClaimInv
  <2> QED BY <2>1, <2>2, <2>3, <2>4, <2>5
<1>2. CASE Renew
  BY <1>2 DEF Renew, PhaseInv, ElapsedInv, SeenInv, PatienceInv, ClaimInv
<1>3. CASE ExtendClaim
  <2>1. PhaseInv'
    BY <1>3 DEF ExtendClaim, PhaseInv
  <2>2. ElapsedInv'
    BY <1>3 DEF ExtendClaim, ElapsedInv
  <2>3. SeenInv'
    BY <1>3 DEF ExtendClaim, SeenInv
  <2>4. PatienceInv'
    BY <1>3 DEF ExtendClaim, PatienceInv
  <2>5. ClaimInv'
    BY <1>3, ClaimTicksNat DEF ExtendClaim, ClaimInv
  <2> QED BY <2>1, <2>2, <2>3, <2>4, <2>5
<1>4. CASE Notify
  <2>1. PhaseInv'
    BY <1>4 DEF Notify, PhaseInv
  <2>2. ElapsedInv'
    BY <1>4 DEF Notify, ElapsedInv
  <2>3. SeenInv'
    BY <1>4 DEF Notify, SeenInv
  <2>4. PatienceInv'
    BY <1>4 DEF Notify, PatienceInv
  <2>5. ClaimInv'
    BY <1>4 DEF Notify, ClaimInv
  <2> QED BY <2>1, <2>2, <2>3, <2>4, <2>5
<1>5. CASE RenewalFails
  BY <1>5 DEF RenewalFails, PhaseInv, ElapsedInv, SeenInv, PatienceInv, ClaimInv
<1>6. CASE HandlerEnds
  BY <1>6 DEF HandlerEnds, PhaseInv, ElapsedInv, SeenInv, PatienceInv, ClaimInv
<1>7. CASE HandlerPanics
  BY <1>7 DEF HandlerPanics, PhaseInv, ElapsedInv, SeenInv, PatienceInv, ClaimInv
<1>8. CASE Abort
  BY <1>8 DEF Abort, PhaseInv, ElapsedInv, SeenInv, PatienceInv, ClaimInv
<1> QED BY <1>1, <1>2, <1>3, <1>4, <1>5, <1>6, <1>7, <1>8 DEF Execution

LEMMA WatchdogWatch == TypeOK /\ WatchInv /\ Watchdog => WatchInv'
<1> SUFFICES ASSUME TypeOK, WatchInv, Watchdog PROVE WatchInv'
  OBVIOUS
<1> USE WatchdogAssumption DEF TypeOK, Phases, Watches, WatchInv, handlerVars, Sleeping, Arm, Polled
<1>1. CASE FirstPoll
  <2>1. PhaseInv'
    BY <1>1 DEF FirstPoll, PhaseInv
  <2>2. ElapsedInv'
    BY <1>1 DEF FirstPoll, ElapsedInv
  <2>3. SeenInv'
    BY <1>1 DEF FirstPoll, SeenInv
  <2>4. PatienceInv'
    BY <1>1 DEF FirstPoll, PatienceInv
  <2>5. ClaimInv'
    BY <1>1 DEF FirstPoll, ClaimInv
  <2> QED BY <2>1, <2>2, <2>3, <2>4, <2>5
<1>2. CASE RenewalSeen
  <2>1. PhaseInv'
    BY <1>2 DEF RenewalSeen, PhaseInv
  <2>2. ElapsedInv'
    BY <1>2 DEF RenewalSeen, ElapsedInv
  <2>3. SeenInv'
    BY <1>2 DEF RenewalSeen, SeenInv
  <2>4. PatienceInv'
    BY <1>2 DEF RenewalSeen, SeenInv, PatienceInv
  <2>5. ClaimInv'
    BY <1>2 DEF RenewalSeen, ClaimInv
  <2> QED BY <2>1, <2>2, <2>3, <2>4, <2>5
<1>3. CASE SenderGone
  BY <1>3 DEF SenderGone, PhaseInv, ElapsedInv, SeenInv, PatienceInv, ClaimInv
<1>4. CASE Warn
  <2>1. PhaseInv'
    BY <1>4 DEF Warn, PhaseInv
  <2>2. ElapsedInv'
    BY <1>4 DEF Warn, ElapsedInv
  <2>3. SeenInv'
    BY <1>4 DEF Warn, SeenInv
  <2>4. PatienceInv'
    BY <1>4 DEF Warn, PatienceInv
  <2>5. ClaimInv'
    BY <1>4 DEF Warn, ClaimInv
  <2> QED BY <2>1, <2>2, <2>3, <2>4, <2>5
<1>5. CASE Exit
  BY <1>5 DEF Exit, PhaseInv, ElapsedInv, SeenInv, PatienceInv, ClaimInv
<1> QED BY <1>1, <1>2, <1>3, <1>4, <1>5 DEF Watchdog

LEMMA TickWatch == TypeOK /\ WatchInv /\ watch # "exited" /\ Tick => WatchInv'
<1> SUFFICES ASSUME TypeOK, WatchInv, watch # "exited", Tick PROVE WatchInv'
  OBVIOUS
<1> USE WatchdogAssumption DEF TypeOK, Phases, Watches, WatchInv, Ready, Sleeping, Floor
<1>1. PhaseInv'
  BY DEF Tick, PhaseInv
<1>2. ElapsedInv'
  BY DEF Tick, ElapsedInv
<1>3. SeenInv'
  BY DEF Tick, SeenInv
<1>4. PatienceInv'
  BY DEF Tick, PatienceInv
<1>5. ClaimInv'
  BY ClaimTicksNat DEF Tick, ClaimInv
<1> QED BY <1>1, <1>2, <1>3, <1>4, <1>5

LEMMA NextWatch == TypeOK /\ WatchInv /\ [Next]_vars => WatchInv'
<1> SUFFICES ASSUME TypeOK, WatchInv, [Next]_vars PROVE WatchInv'
  OBVIOUS
<1>1. CASE Execution
  BY <1>1, ExecutionWatch
<1>2. CASE Watchdog
  BY <1>2, WatchdogWatch
<1>3. CASE watch # "exited" /\ Tick
  BY <1>3, TickWatch
<1>4. CASE UNCHANGED vars
  BY <1>4
     DEF vars, handlerVars, watchVars, WatchInv, PhaseInv, ElapsedInv, SeenInv, PatienceInv,
         ClaimInv
<1> QED BY <1>1, <1>2, <1>3, <1>4 DEF Next

LEMMA WatchInvariant == Spec => []WatchInv
<1> QED BY WatchdogTypeCorrect, InitWatch, NextWatch, PTL DEF Spec

-----------------------------------------------------------------------------
(* Theorems.                                                               *)

(* A watchdog that ends the process has heard nothing for two leases.      *)
THEOREM WatchdogsArePatient == Spec => []WatchdogPatient
<1>1. TypeOK /\ WatchInv => WatchdogPatient
  BY WatchdogAssumption DEF TypeOK, WatchInv, ElapsedInv, SeenInv, WatchdogPatient
<1> QED BY <1>1, WatchdogTypeCorrect, WatchInvariant, PTL

(* No handler of a fatal worker is silent for longer than two leases.      *)
THEOREM WatchdogsAreVigilant == Spec => []WatchdogVigilant
<1>1. TypeOK /\ WatchInv => WatchdogVigilant
  <2> SUFFICES ASSUME TypeOK, WatchInv,
                      fatal, phase \in {"handler", "renewing", "answering"}, watch # "exited"
               PROVE  silence <= 2 * lease + 3 * MaxLate
    BY DEF WatchdogVigilant
  <2>1. ~dropped /\ watch \in {"spawned", "first", "second"}
    BY DEF TypeOK, Watches, WatchInv, PhaseInv
  <2>2. CASE unseen \/ watch = "spawned"
    BY <2>1, <2>2, WatchdogAssumption DEF TypeOK, WatchInv, SeenInv, PatienceInv
  <2>3. CASE ~unseen /\ watch \in {"first", "second"}
    BY <2>1, <2>3, WatchdogAssumption DEF TypeOK, WatchInv, SeenInv, PatienceInv
  <2> QED BY <2>1, <2>2, <2>3
<1> QED BY <1>1, WatchdogTypeCorrect, WatchInvariant, PTL

(* The claim is over when the watchdog that heard of it ends the process.  *)
THEOREM ExitedClaimsAreOver == Spec => []ExitedClaimIsOver
<1>1. WatchInv => ExitedClaimIsOver
  BY DEF WatchInv, ClaimInv, ExitedClaimIsOver
<1> QED BY <1>1, WatchInvariant, PTL
=============================================================================
