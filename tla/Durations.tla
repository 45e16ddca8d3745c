------------------------------- MODULE Durations -------------------------------
(***************************************************************************)
(* Durations as the SDK hands them to the database (types.rs).  The local  *)
(* side of the SDK, its timers and deadlines, measures a Duration exactly; *)
(* the stored procedures take whole seconds in an i32.  Here a Duration is *)
(* a number of ticks.                                                      *)
(***************************************************************************)
EXTENDS Naturals

CONSTANTS
  Second,     \* ticks in a second
  MaxSeconds  \* i32::MAX

ASSUME DurationAssumption ==
  /\ Second \in Nat \ {0}
  /\ MaxSeconds \in Nat \ {0}

(* Slip: fractions of a second are cut off. *)
DurationSecondsFloor(d) == IF d \div Second <= MaxSeconds THEN d \div Second ELSE MaxSeconds

(* Whole seconds, rounded up and saturated. *)
DurationSecondsCeil(d) ==
  LET rounded == d \div Second + (IF d % Second > 0 THEN 1 ELSE 0)
  IN IF rounded <= MaxSeconds THEN rounded ELSE MaxSeconds

(* The ticks of a claim the database has granted for a duration. *)
ClaimTicks(d) == DurationSecondsCeil(d) * Second
=============================================================================
