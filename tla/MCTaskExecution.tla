--------------------------- MODULE MCTaskExecution ---------------------------
(* Handlers and instances on which TLC checks TaskExecution. *)
EXTENDS TaskExecution, TLC

CONSTANTS e1, e2, v1, v2, w1, w2, ev1, ev2

Op(kind, name, event, timeout) ==
  [kind |-> kind, name |-> name, event |-> event, timeout |-> timeout, of |-> 0]

Step(name) == Op("step", <<name>>, NoEvent, "none")
Begin(name) == Op("begin", <<name>>, NoEvent, "none")
Completes(i) == [Op("complete", <<>>, NoEvent, "none") EXCEPT !.of = i]
Sleep(name) == Op("sleep", <<name>>, NoEvent, "none")
Await(ev, timeout) == Op("event", <<"$awaitEvent", IF ev = ev1 THEN 1 ELSE 2>>, ev, timeout)
Result(name) == Op("result", <<name>>, NoEvent, "none")
Emits(ev) == Op("emit", <<>>, ev, "none")
Beats == Op("heartbeat", <<>>, NoEvent, "none")

(* A step whose handle is kept across a sleep, and one of the same name.   *)
SleepProgram == <<Begin("a"), Sleep("z"), Completes(1), Step("a")>>

(* Every other call: the result of another task, a sleep, an event with a  *)
(* timeout, the same event emitted, and a heartbeat.                       *)
DurableProgram == <<Result("r"), Sleep("z"), Await(ev1, "propagate"), Emits(ev1), Beats>>

(* A sleep, an event without a timeout, then a timeout the handler catches *)
(* and a second wait for the same event.                                   *)
SettleProgram ==
  <<Sleep("z"), Await(ev2, "none"), Await(ev1, "catch"), Await(ev1, "catch"), Step("a")>>

(* Two events one after the other, both with timeouts that are caught. *)
TwoTimeoutsProgram == <<Await(ev1, "catch"), Await(ev2, "catch")>>

(* Two steps of one name, and one whose name looks like the second of them. *)
SuffixProgram == <<Step("a"), Step("a"), Op("step", <<"a", 2>>, NoEvent, "none")>>

Symmetric == Permutations({e1, e2}) \cup Permutations({v1, v2})
=============================================================================
