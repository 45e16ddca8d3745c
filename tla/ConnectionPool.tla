---------------------------- MODULE ConnectionPool ----------------------------
(***************************************************************************)
(* The calls of Client (client.rs) that administer a queue, on the         *)
(* connection pool the callers share.  deadpool is external: pool.get()    *)
(* takes a permit of a fair semaphore and waits without a timeout unless   *)
(* the application has set one.  A call holds one connection while it      *)
(* queries.  create_queue_in_with_options holds its connection while       *)
(* set_queue_policy_in gets a second one, and cleanup makes two queries on *)
(* the connection it has.                                                  *)
(***************************************************************************)
EXTENDS Naturals, Sequences, FiniteSets

CONSTANTS
  Callers,   \* tasks of the application that call the client
  Creators,  \* the callers that create the queue with a policy
  PoolSize   \* max_size of the pool

ASSUME PoolAssumption ==
  /\ IsFiniteSet(Callers)
  /\ Creators \subseteq Callers
  /\ PoolSize \in Nat \ {0}

VARIABLES
  phase,    \* where each caller is
  call,     \* what it does, or did last
  result,   \* how its last call ended
  held,     \* how many connections it holds
  line,     \* the callers that wait for a connection, first come first served
  queue,    \* the queue in the database: without its policy it is "bare"
  dropped   \* history: the queue was dropped since the caller began its call

vars == <<phase, call, result, held, line, queue, dropped>>

(* "read" stands for get_queue_policy, list_queues and all other calls     *)
(* that make one query on one connection and leave the queue alone.        *)
Calls(c) == IF c \in Creators THEN {"createWithPolicy"}
            ELSE {"create", "setPolicy", "drop", "cleanup", "read"}

Phases == {"idle", "getting", "query", "gettingSecond", "second"}

TypeOK ==
  /\ phase \in [Callers -> Phases]
  /\ \A c \in Callers : call[c] \in Calls(c)
  /\ result \in [Callers -> {"none", "ok", "error"}]
  /\ held \in [Callers -> 0..2]
  /\ line \in Seq(Callers)
  /\ queue \in {"absent", "bare", "configured"}
  /\ dropped \in [Callers -> BOOLEAN]

Init ==
  /\ phase = [c \in Callers |-> "idle"]
  /\ call \in {f \in [Callers -> UNION {Calls(c) : c \in Callers}] :
                 \A c \in Callers : f[c] \in Calls(c)}
  /\ result = [c \in Callers |-> "none"]
  /\ held = [c \in Callers |-> 0]
  /\ line = <<>>
  /\ queue = "absent"
  /\ dropped = [c \in Callers |-> FALSE]

Goto(c, p) == phase' = [phase EXCEPT ![c] = p]

InUse == Cardinality({c \in Callers : held[c] >= 1}) + Cardinality({c \in Callers : held[c] = 2})

(* A caller starts a call: its first pool.get(). *)
Call(c) ==
  /\ phase[c] = "idle"
  /\ Goto(c, "getting")
  /\ \E x \in Calls(c) : call' = [call EXCEPT ![c] = x]
  /\ result' = [result EXCEPT ![c] = "none"]
  /\ dropped' = [dropped EXCEPT ![c] = FALSE]
  /\ line' = Append(line, c)
  /\ UNCHANGED <<held, queue>>

(* The pool serves the first in line. *)
Serve(c) ==
  /\ line # <<>> /\ Head(line) = c
  /\ InUse < PoolSize
  /\ line' = Tail(line)
  /\ held' = [held EXCEPT ![c] = @ + 1]
  /\ Goto(c, IF phase[c] = "getting" THEN "query" ELSE "second")
  /\ UNCHANGED <<call, result, queue, dropped>>

(* The call returns with x, and its connections drop. *)
Return(c, x) ==
  /\ Goto(c, "idle")
  /\ result' = [result EXCEPT ![c] = x]
  /\ held' = [held EXCEPT ![c] = 0]
  /\ UNCHANGED <<call, line>>

(* What the first query of a call does to the queue: absurd.create_queue   *)
(* leaves one that exists as it is, and one that is not there has no       *)
(* policy to set.                                                          *)
Effect(c) ==
  CASE call[c] \in {"create", "createWithPolicy"} ->
         queue' = (IF queue = "absent" THEN "bare" ELSE queue) /\ UNCHANGED dropped
    [] call[c] = "setPolicy" ->
         queue # "absent" /\ queue' = "configured" /\ UNCHANGED dropped
    [] call[c] = "drop" ->
         queue' = "absent" /\ dropped' = [b \in Callers |-> TRUE]
    [] OTHER -> UNCHANGED <<queue, dropped>>

(* A query fails, before it has taken effect or after: `?`. *)
QueryFails(c) ==
  /\ phase[c] = "query"
  /\ Effect(c) \/ UNCHANGED <<queue, dropped>>
  /\ Return(c, "error")

(* Slip: the queue is created and its policy forgotten. *)
QueryOnly(c) ==
  /\ phase[c] = "query"
  /\ Effect(c)
  /\ IF call[c] = "cleanup"
     THEN Goto(c, "second") /\ UNCHANGED <<call, result, held, line>>
     ELSE Return(c, "ok")

(* The first query succeeds, and the policy or cleanup_events is next. *)
Query(c) ==
  /\ phase[c] = "query"
  /\ Effect(c)
  /\ IF call[c] = "createWithPolicy"
     THEN Goto(c, "gettingSecond") /\ line' = Append(line, c) /\ UNCHANGED <<call, result, held>>
     ELSE IF call[c] = "cleanup"
     THEN Goto(c, "second") /\ UNCHANGED <<call, result, held, line>>
     ELSE Return(c, "ok")

(* Slip: a policy that was refused is set again on one more connection. *)
SetPolicyAgain(c) ==
  /\ phase[c] = "second" /\ call[c] = "createWithPolicy"
  /\ \/ queue # "absent" /\ queue' = "configured" /\ Return(c, "ok")
     \/ /\ Goto(c, "gettingSecond") /\ line' = Append(line, c)
        /\ UNCHANGED <<call, result, held, queue>>
  /\ UNCHANGED dropped

(* Slip: a policy that was refused starts the creation over. *)
SetPolicyOver(c) ==
  /\ phase[c] = "second" /\ call[c] = "createWithPolicy"
  /\ \/ queue # "absent" /\ queue' = "configured" /\ Return(c, "ok")
     \/ /\ Goto(c, "query") /\ held' = [held EXCEPT ![c] = 1]
        /\ UNCHANGED <<call, result, line, queue>>
  /\ UNCHANGED dropped

(* absurd.set_queue_policy; a queue that is gone has no policy to set. *)
SetPolicy(c) ==
  /\ phase[c] = "second" /\ call[c] = "createWithPolicy"
  /\ \/ queue # "absent" /\ queue' = "configured" /\ \E x \in {"ok", "error"} : Return(c, x)
     \/ UNCHANGED queue /\ Return(c, "error")
  /\ UNCHANGED dropped

(* absurd.cleanup_events *)
CleanupEvents(c) ==
  /\ phase[c] = "second" /\ call[c] = "cleanup"
  /\ \E x \in {"ok", "error"} : Return(c, x)
  /\ UNCHANGED <<queue, dropped>>

Proceed(c) == Serve(c) \/ Query(c) \/ QueryFails(c) \/ SetPolicy(c) \/ CleanupEvents(c)

Next == \E c \in Callers : Call(c) \/ Proceed(c)

(* Queries end, and the pool hands out its free connections. *)
Spec == Init /\ [][Next]_vars /\ \A c \in Callers : WF_vars(Proceed(c))

-----------------------------------------------------------------------------
(* A connection is held by a call and given back when it returns, and      *)
(* nobody who waits in line is passed over.                                *)
PoolAccounting ==
  /\ InUse <= PoolSize
  /\ \A c \in Callers :
       /\ held[c] = CASE phase[c] \in {"idle", "getting"} -> 0
                      [] phase[c] = "second" /\ call[c] = "createWithPolicy" -> 2
                      [] OTHER -> 1
       /\ Cardinality({i \in DOMAIN line : line[i] = c}) =
            IF phase[c] \in {"getting", "gettingSecond"} THEN 1 ELSE 0

(* A queue is created with its policy or the caller is told that it was    *)
(* not: other creators, callers that create it without a policy and calls  *)
(* that failed half-way do not matter.                                     *)
CreatedIsConfigured ==
  \A c \in Creators : result[c] = "ok" /\ ~dropped[c] => queue = "configured"

(* No call waits for a connection for ever: callers that hold one while    *)
(* they wait for another do not block everyone.                            *)
EveryCallReturns == \A c \in Callers : phase[c] # "idle" ~> phase[c] = "idle"
=============================================================================
