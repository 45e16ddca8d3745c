--------------------------- MODULE MCTaskRegistry ---------------------------
(* Instances of TaskRegistry for TLC. *)
EXTENDS TaskRegistry

CONSTANTS home, other, invalid

(* Nothing, and half a second to start in. *)
SomePolicies == {NoLimits, [max_duration |-> Absent, max_delay |-> 1]}
=============================================================================
