---------------------------- MODULE MCWorkerLoop ----------------------------
(* Instances of WorkerLoop for TLC. *)
EXTENDS WorkerLoop

CONSTANTS t1, t2, t3

Given(concurrency, batch_size) ==
  [concurrency |-> concurrency, batch_size |-> batch_size]

(* Nothing but zeros, the defaults of each other, and a batch larger and   *)
(* smaller than the concurrency.                                           *)
SomeOptions ==
  {Given(0, NoBatchSize), Given(0, 0), Given(2, NoBatchSize), Given(2, 0), Given(2, 3),
   Given(3, 2)}
=============================================================================
