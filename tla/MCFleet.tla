-------------------------------- MODULE MCFleet --------------------------------
(* Instances of Fleet for TLC: two queues, one of them served by a batch. *)
EXTENDS Fleet, TLC

CONSTANTS t1, t2, t3, qA, qB, worker, batch

MCQueueOf == t1 :> qA @@ t2 :> qA @@ t3 :> qB
MCServerQueue == batch :> qA @@ worker :> qB
MCPlaces == batch :> 2 @@ worker :> 2

MCMaxAttempts == t1 :> 1 @@ t2 :> 1 @@ t3 :> 2

Waiting(a, b, c) == t1 :> a @@ t2 :> b @@ t3 :> c

(* Both tasks of the batch wait for the third; one waits in its own queue; *)
(* or the queues wait for each other although no two tasks do.             *)
MCPrograms == {Waiting(t3, t3, NoTask), Waiting(t2, t3, NoTask), Waiting(t3, NoTask, t2)}
=============================================================================
