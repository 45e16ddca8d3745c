----------------------------- MODULE LeaseWatchdog -----------------------------
(***************************************************************************)
(* The watchdog of an execution (lease_watchdog in executor.rs) next to    *)
(* the handler it watches and the claim the handler keeps in the database. *)
(*                                                                         *)
(* The handler renews its claim by persist_checkpoint, heartbeat,          *)
(* heartbeat_for and the polls of await_task_result: first in the database *)
(* and then, when the answer has come, in the watch channel.  The watchdog *)
(* sleeps for the duration it read from the channel, warns, sleeps for it  *)
(* once more and ends the process, unless a renewal comes in between.      *)
(*                                                                         *)
(* Time goes on in ticks.  The database and the process have one clock.    *)
(***************************************************************************)
EXTENDS Integers, Durations

CONSTANTS
  ClaimTimeouts,  \* the claim timeouts of workers; zero has been refused
  Heartbeats,     \* the durations given to heartbeat_for
  MaxLate,        \* how late the watchdog is polled
  Horizon         \* bound on the time without a renewal

ASSUME WatchdogAssumption ==
  /\ ClaimTimeouts \subseteq Nat \ {0}
  /\ Heartbeats \subseteq Nat
  /\ MaxLate \in Nat
  /\ Horizon \in Nat

VARIABLES
  fatal,         \* fatal_on_lease_timeout
  claimTimeout,  \* claim_timeout
  phase,         \* where the execution is
  asked,         \* the duration of the renewal under way
  claim,         \* the ticks the claim in the database has left
  lease,         \* the value in the watch channel
  unseen,        \* it was sent and the watchdog has not seen it
  dropped,       \* the sender is gone
  watch,         \* where the watchdog is
  armed,         \* the duration it has read
  timer,         \* what is left of its sleep
  late,          \* for how long it has had something to do
  silence,       \* history: the time since a renewal was sent
  quiet,         \* history: the time since one was sent that it has seen
  heard          \* history: whether it has heard of the claim as it is

handlerVars == <<fatal, claimTimeout, phase, asked, claim, lease, dropped, silence>>
watchVars == <<watch, armed, timer, late, quiet>>
vars == <<handlerVars, watchVars, unseen, heard>>

Phases == {"claimed", "handler", "renewing", "answering", "ended", "over"}
Watches == {"off", "spawned", "first", "second", "gone", "exited"}
Renewals == Heartbeats \cup {claimTimeout}

TypeOK ==
  /\ fatal \in BOOLEAN /\ unseen \in BOOLEAN /\ dropped \in BOOLEAN
  /\ claimTimeout \in ClaimTimeouts
  /\ phase \in Phases
  /\ watch \in Watches
  /\ asked \in Nat /\ claim \in Nat /\ lease \in Nat
  /\ armed \in Nat /\ timer \in 0..armed
  /\ late \in 0..MaxLate
  /\ silence \in Nat /\ quiet \in Nat
  /\ heard \in {"yes", "sent", "no"}

Init ==
  /\ fatal \in BOOLEAN
  /\ claimTimeout \in ClaimTimeouts
  /\ phase = "claimed"
  /\ asked = 0
  /\ claim = ClaimTicks(claimTimeout)
  /\ lease = claimTimeout
  /\ unseen = FALSE /\ dropped = FALSE
  /\ watch = "off" /\ armed = 0 /\ timer = 0 /\ late = 0
  /\ silence = 0 /\ quiet = 0
  /\ heard = "yes"

-----------------------------------------------------------------------------
(* The execution.                                                          *)

Goto(p) == phase' = p

(* execute_claimed spawns the watchdog and starts the handler.  A worker   *)
(* does so at once; work_batch when the tasks before are done.             *)
Start ==
  /\ phase = "claimed"
  /\ Goto("handler")
  /\ watch' = "spawned"
  /\ silence' = 0 /\ quiet' = 0
  /\ UNCHANGED <<fatal, claimTimeout, asked, claim, lease, dropped, unseen, armed, timer,
                 late, heard>>

(* Slip: the watchdog is told before the database has agreed. *)
RenewAndTell ==
  /\ phase = "handler"
  /\ asked' \in Renewals
  /\ Goto("renewing")
  /\ lease' = asked' /\ unseen' = TRUE /\ silence' = 0 /\ heard' = "sent"
  /\ UNCHANGED <<fatal, claimTimeout, claim, dropped, watchVars>>

(* A call that renews the claim, for the claim timeout or for the duration *)
(* given to heartbeat_for.                                                 *)
Renew ==
  /\ phase = "handler"
  /\ asked' \in Renewals
  /\ Goto("renewing")
  /\ UNCHANGED <<fatal, claimTimeout, claim, lease, dropped, silence, watchVars, unseen, heard>>

(* absurd.extend_claim, or set_task_checkpoint_state. *)
ExtendClaim ==
  /\ phase = "renewing"
  /\ Goto("answering")
  /\ claim' = ClaimTicks(asked)
  /\ heard' = "no"
  /\ UNCHANGED <<fatal, claimTimeout, asked, lease, dropped, silence, watchVars, unseen>>

(* notify_lease_extended *)
Notify ==
  /\ phase = "answering"
  /\ Goto("handler")
  /\ lease' = asked /\ unseen' = TRUE /\ silence' = 0 /\ heard' = "sent"
  /\ UNCHANGED <<fatal, claimTimeout, asked, claim, dropped, watchVars>>

(* The call fails, the database refuses it or its answer is lost. *)
RenewalFails ==
  /\ phase \in {"renewing", "answering"}
  /\ Goto("handler")
  /\ UNCHANGED <<fatal, claimTimeout, asked, claim, lease, dropped, silence, watchVars, unseen,
                 heard>>

(* The handler ends, and its context with the sender. *)
HandlerEnds ==
  /\ phase = "handler"
  /\ Goto("ended")
  /\ dropped' = TRUE
  /\ UNCHANGED <<fatal, claimTimeout, asked, claim, lease, silence, watchVars, unseen, heard>>

(* It panics: its context is dropped, and the watchdog is left alone. *)
HandlerPanics ==
  /\ phase \in {"handler", "renewing", "answering"}
  /\ Goto("over")
  /\ dropped' = TRUE
  /\ UNCHANGED <<fatal, claimTimeout, asked, claim, lease, silence, watchVars, unseen, heard>>

(* watchdog.abort(), then the report of the outcome. *)
Abort ==
  /\ phase = "ended"
  /\ Goto("over")
  /\ watch' = "gone"
  /\ UNCHANGED <<fatal, claimTimeout, asked, claim, lease, dropped, silence, armed, timer, late,
                 quiet, unseen, heard>>

-----------------------------------------------------------------------------
(* The watchdog.                                                           *)

Sleeping == watch \in {"first", "second"}

(* It would go on if it were polled. *)
Ready == watch = "spawned" \/ (Sleeping /\ (unseen \/ dropped \/ timer = 0))

(* A poll.  What it has left in the channel has waited for as long. *)
Polled(left) == late' = IF left \/ dropped THEN late ELSE 0

(* The top of its loop: it reads the channel and sleeps that long. *)
Arm ==
  /\ watch' = "first"
  /\ armed' = lease
  /\ timer' = lease

FirstPoll ==
  /\ watch = "spawned"
  /\ Arm /\ Polled(unseen)
  /\ UNCHANGED <<handlerVars, quiet, unseen, heard>>

(* Slip: a renewal during the second sleep does not start the first anew. *)
RenewalInPlace ==
  /\ Sleeping /\ unseen
  /\ unseen' = FALSE
  /\ armed' = lease
  /\ timer' = lease
  /\ Polled(FALSE)
  /\ quiet' = silence
  /\ heard' = IF heard = "sent" THEN "yes" ELSE heard
  /\ UNCHANGED <<handlerVars, watch>>

(* rx.changed() is Ok: a renewal, which starts the loop again. *)
RenewalSeen ==
  /\ Sleeping /\ unseen
  /\ unseen' = FALSE
  /\ Arm /\ Polled(FALSE)
  /\ quiet' = silence
  /\ heard' = IF heard = "sent" THEN "yes" ELSE heard
  /\ UNCHANGED handlerVars

(* rx.changed() is an error: the execution is over. *)
SenderGone ==
  /\ Sleeping /\ ~unseen /\ dropped
  /\ watch' = "gone"
  /\ UNCHANGED <<handlerVars, armed, timer, late, quiet, unseen, heard>>

(* Slip: a fatal watchdog starts its loop again after the warning. *)
WarnAgain ==
  /\ watch = "first" /\ timer = 0
  /\ Arm /\ Polled(unseen)
  /\ UNCHANGED <<handlerVars, quiet, unseen, heard>>

(* The first sleep is over, though a renewal may have come as well: select *)
(* takes either.  The second sleep is as long as the first.                *)
Warn ==
  /\ watch = "first" /\ timer = 0
  /\ IF fatal THEN watch' = "second" /\ timer' = armed /\ UNCHANGED armed ELSE Arm
  /\ Polled(unseen)
  /\ UNCHANGED <<handlerVars, quiet, unseen, heard>>

(* The second sleep is over, or both it and a renewal: exit(1). *)
Exit ==
  /\ watch = "second" /\ timer = 0
  /\ watch' = "exited"
  /\ UNCHANGED <<handlerVars, armed, timer, late, quiet, unseen, heard>>

-----------------------------------------------------------------------------
Floor(n) == IF n > 0 THEN n - 1 ELSE 0

(* Time goes on, but no further than the watchdog may be late. *)
Tick ==
  /\ Ready => late < MaxLate
  /\ late' = IF Ready THEN late + 1 ELSE 0
  /\ silence < Horizon
  /\ silence' = silence + 1 /\ quiet' = quiet + 1
  /\ claim' = Floor(claim)
  /\ timer' = Floor(timer)
  /\ UNCHANGED <<fatal, claimTimeout, phase, asked, lease, unseen, dropped, watch, armed, heard>>

Execution ==
  \/ Start \/ Renew \/ ExtendClaim \/ Notify \/ RenewalFails
  \/ HandlerEnds \/ HandlerPanics \/ Abort

Watchdog == FirstPoll \/ RenewalSeen \/ SenderGone \/ Warn \/ Exit

Next == watch # "exited" /\ (Execution \/ Watchdog \/ Tick)

Spec == Init /\ [][Next]_vars

-----------------------------------------------------------------------------
(* Properties. *)

(* The watchdog is patient: it ends the process only when no renewal has   *)
(* reached it for two leases ("exceeded claim timeout by more than 100%"), *)
(* or the only one that did came when it was already due to be polled.     *)
WatchdogPatient ==
  watch = "exited" =>
    /\ quiet >= 2 * armed
    /\ IF unseen THEN silence <= MaxLate ELSE quiet = silence /\ armed = lease

(* And vigilant: whatever the renewals and their answers do, a fatal       *)
(* worker does not live on with a handler that has not renewed its claim   *)
(* for two leases and the three polls in between.                          *)
WatchdogVigilant ==
  fatal /\ phase \in {"handler", "renewing", "answering"} /\ watch # "exited" =>
    silence <= 2 * lease + 3 * MaxLate

(* When it ends the process, the claim is over in the database too, so     *)
(* that another worker can take the task at once; only the rounding of a   *)
(* short lease to whole seconds outlasts it.  Renewals of which it has not *)
(* heard are excepted: their answers were late or lost.                    *)
ExitedClaimIsOver ==
  watch = "exited" /\ heard = "yes" =>
    claim = 0 \/ claim + 2 * armed <= ClaimTicks(armed)
=============================================================================
