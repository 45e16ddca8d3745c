------------------------------- MODULE Handler -------------------------------
(***************************************************************************)
(* A task handler as the SDK sees it: the sequence of TaskContext calls it *)
(* makes.  README.md asks handlers to keep their checkpoint names and      *)
(* control flow deterministic, so the sequence is a constant; the values   *)
(* its steps compute, its failures and its panics are not.                 *)
(*                                                                         *)
(* An operation is a record                                                *)
(*   kind    "step" | "begin" | "complete" | "sleep" | "event" | "result"  *)
(*           | "emit" | "heartbeat" ("begin" is begin_step, "complete"     *)
(*           complete_step, "result" await_task_result)                    *)
(*   name    the checkpoint name it asks for, a sequence of words ("event" *)
(*           has the step name of AwaitEventOptions or its default)        *)
(*   event   the event awaited or emitted                                  *)
(*   timeout "none" | "propagate" | "catch": whether await_event has a     *)
(*           timeout, and whether the handler goes on after EventTimeout   *)
(*   of      of "complete": the operation whose handle it completes        *)
(***************************************************************************)
EXTENDS Naturals, Sequences, FiniteSets

CONSTANTS
  Program,    \* the handler: a sequence of operations
  Events,     \* the names of events
  NoEvent     \* stands for the absence of an event name

Kinds == {"step", "begin", "complete", "sleep", "event", "result", "emit", "heartbeat"}

ASSUME ProgramAssumption ==
  /\ Len(Program) \in Nat
  /\ DOMAIN Program = 1..Len(Program)
  /\ \A i \in DOMAIN Program :
       /\ Program[i].kind \in Kinds
       /\ Program[i].event \in Events \cup {NoEvent}
       /\ Program[i].kind \in {"event", "emit"} => Program[i].event \in Events
       /\ Program[i].timeout \in {"none", "propagate", "catch"}
       /\ Program[i].kind = "complete" =>
            Program[i].of \in 1..(i - 1) /\ Program[Program[i].of].kind = "begin"
  /\ NoEvent \notin Events

(* Names are sequences. *)
ASSUME NameAssumption ==
  \A i \in DOMAIN Program :
    LET name == Program[i].name
    IN Len(name) \in Nat /\ name = [k \in 1..Len(name) |-> name[k]]

Ops == DOMAIN Program

(* The operation asks for a checkpoint name. *)
Asks(i) == Program[i].kind \in {"step", "begin", "sleep", "event", "result"}

(* It returns what its checkpoint holds. *)
Checkpointed(i) == Program[i].kind \in {"step", "complete", "sleep", "event", "result"}

(***************************************************************************)
(* How often the operations 1..i asked for the name of operation i: what   *)
(* TaskContext.step_name_counter holds when operation i looks it up.       *)
(***************************************************************************)
StepCount(i) == Cardinality({j \in 1..i : Asks(j) /\ Program[j].name = Program[i].name})

(* A slip the runs must notice: repeated names are not told apart. *)
UnsuffixedName(i) == Program[i].name

(***************************************************************************)
(* The first use of a name is the name itself, the nth is name#n.  The     *)
(* suffix is one more word at the end of the name, so the name "a#2" and   *)
(* the second use of "a" are the same sequence, as they are the same       *)
(* string in the code.                                                     *)
(***************************************************************************)
NextCheckpointName(i) ==
  IF StepCount(i) = 1 THEN Program[i].name
                      ELSE Append(Program[i].name, StepCount(i))

(* The operation that asked for the name: a handle keeps its own. *)
Opener(i) == IF Program[i].kind = "complete" THEN Program[i].of ELSE i

CheckpointName(i) == NextCheckpointName(Opener(i))

(* The checkpoint names the handler uses. *)
Slots == {NextCheckpointName(i) : i \in {j \in Ops : Asks(j)}}

(* No other operation uses the checkpoint of a handle; handles can be      *)
(* cloned, and then completed twice, and names may look like suffixed ones.*)
HandlesApart ==
  \A i, j \in Ops :
    Program[i].kind = "complete" /\ Checkpointed(j) /\ i # j =>
      CheckpointName(i) # CheckpointName(j)
=============================================================================
