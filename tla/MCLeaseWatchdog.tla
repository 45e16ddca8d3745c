---------------------------- MODULE MCLeaseWatchdog ----------------------------
(* Instances of LeaseWatchdog for TLC; a tick is a third of a second. *)
EXTENDS LeaseWatchdog

(* Less than half a second, and between one second and two. *)
MCClaimTimeouts == {1, 4}

(* Nothing, and more seconds than the largest i32. *)
MCHeartbeats == {0, 7}
=============================================================================
