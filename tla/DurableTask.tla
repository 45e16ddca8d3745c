----------------------------- MODULE DurableTask -----------------------------
(***************************************************************************)
(* What the SDK promises of one task, without runs, leases, claims or      *)
(* executions: its checkpointed operations get their results one after     *)
(* the other, each once and in program order; the outcome is decided once, *)
(* unless it is a failure and the task is tried again; and a task          *)
(* completes only with all of its results.                                 *)
(***************************************************************************)
EXTENDS Naturals

CONSTANTS
  Positions,  \* the places of the checkpointed operations in the handler
  Results,    \* what an operation can result in
  NoResult

VARIABLES
  results,    \* per position
  outcome     \* "open" | "completed" | "failed" | "cancelled"

vars == <<results, outcome>>

Init ==
  /\ results = [i \in Positions |-> NoResult]
  /\ outcome = "open"

(* The first operation without a result gets one. *)
Record(i) ==
  /\ outcome = "open"
  /\ results[i] = NoResult
  /\ \A j \in Positions : j < i => results[j] # NoResult
  /\ \E x \in Results : results' = [results EXCEPT ![i] = x]
  /\ UNCHANGED outcome

Complete ==
  /\ outcome = "open"
  /\ \A i \in Positions : results[i] # NoResult
  /\ outcome' = "completed"
  /\ UNCHANGED results

(* The last attempt fails, or the task is cancelled. *)
GiveUp ==
  /\ outcome = "open"
  /\ outcome' \in {"failed", "cancelled"}
  /\ UNCHANGED results

(* retry_task: a failed task goes on from the results it has. *)
Reopen ==
  /\ outcome = "failed"
  /\ outcome' = "open"
  /\ UNCHANGED results

Next == (\E i \in Positions : Record(i)) \/ Complete \/ GiveUp \/ Reopen

Spec == Init /\ [][Next]_vars
=============================================================================
