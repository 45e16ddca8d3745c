-------------------------- MODULE MCTaskResultWait --------------------------
(* Instances of TaskResultWait for TLC; a tick is 50 ms. *)
EXTENDS TaskResultWait

(* Around the first polls, between two backoffs, and beyond the horizon. *)
MCTimeouts == {NoTimeout, 0, 1, 7, 40, 90}
MCEnds == {0, 5, 7, 39, 41, 95, 1000}

(* One second, the least there is, is too short; of three seconds enough   *)
(* is left if the claim is 200 ms old, and not if it is two seconds old.   *)
MCClaimTimeouts == {20, 60}
MCLeaseAges == {4, 40}
=============================================================================
