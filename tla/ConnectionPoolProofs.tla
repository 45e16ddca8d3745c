------------------------- MODULE ConnectionPoolProofs -------------------------
(***************************************************************************)
(* Theorems about ConnectionPool, for any number of callers and any size   *)
(* of the pool.                                                            *)
(***************************************************************************)
EXTENDS ConnectionPool, FiniteSetTheorems, SequenceTheorems, TLAPS

AnyCall == {"createWithPolicy", "create", "setPolicy", "drop", "cleanup", "read"}

Waiting == {"getting", "gettingSecond"}

(* What a call has to do decides which of its parts it can be in. *)
CallInv ==
  /\ call \in [Callers -> AnyCall]
  /\ \A c \in Callers :
       /\ phase[c] = "gettingSecond" => call[c] = "createWithPolicy"
       /\ phase[c] = "second" => call[c] \in {"createWithPolicy", "cleanup"}

TypeInv == TypeOK /\ CallInv

LEMMA CallsAre == \A c \in Callers : Calls(c) \subseteq AnyCall
BY DEF Calls, AnyCall

LEMMA InitTypeInv == Init => TypeInv
<1> SUFFICES ASSUME Init PROVE TypeInv
  OBVIOUS
<1>1. call \in [Callers -> AnyCall] /\ \A c \in Callers : call[c] \in Calls(c)
  BY CallsAre DEF Init
<1>2. line \in Seq(Callers)
  BY DEF Init
<1> QED BY <1>1, <1>2 DEF Init, TypeInv, TypeOK, CallInv, Phases

(* The part of the type invariant that a call works on but for the line.   *)
LEMMA EffectType ==
  ASSUME TypeInv, NEW c \in Callers, Effect(c) \/ UNCHANGED <<queue, dropped>>
  PROVE  queue' \in {"absent", "bare", "configured"} /\ dropped' \in [Callers -> BOOLEAN]
<1>1. CASE UNCHANGED <<queue, dropped>>
  BY <1>1 DEF TypeInv, TypeOK
<1>2. CASE Effect(c)
  <2>1. queue' \in {"absent", "bare", "configured"}
    BY <1>2 DEF Effect, TypeInv, TypeOK
  <2>2. dropped' = dropped \/ dropped' = [b \in Callers |-> TRUE]
    BY <1>2 DEF Effect
  <2> QED BY <2>1, <2>2 DEF TypeInv, TypeOK
<1> QED BY <1>1, <1>2

LEMMA ReturnType ==
  ASSUME TypeInv, NEW c \in Callers, NEW x \in {"ok", "error"}, Return(c, x),
         queue' \in {"absent", "bare", "configured"}, dropped' \in [Callers -> BOOLEAN]
  PROVE  TypeInv'
<1>1. phase' \in [Callers -> Phases] /\ held' \in [Callers -> 0..2]
  BY DEF Return, Goto, TypeInv, TypeOK, Phases
<1>2. result' \in [Callers -> {"none", "ok", "error"}]
  BY DEF Return, TypeInv, TypeOK
<1>3. CallInv'
  BY DEF Return, Goto, TypeInv, TypeOK, CallInv
<1> QED BY <1>1, <1>2, <1>3 DEF Return, TypeInv, TypeOK

LEMMA HeadInLine ==
  ASSUME TypeInv, line # <<>>
  PROVE  /\ Head(line) \in Callers /\ Tail(line) \in Seq(Callers)
         /\ Len(line) \in Nat \ {0} /\ Head(line) = line[1]
BY EmptySeq, HeadTailProperties DEF TypeInv, TypeOK

(* A caller holds what its phase says. *)
HeldInv ==
  \A c \in Callers :
    held[c] = CASE phase[c] \in {"idle", "getting"} -> 0
                [] phase[c] = "second" /\ call[c] = "createWithPolicy" -> 2
                [] OTHER -> 1

(* Those who wait are in line, once. *)
LineInv ==
  /\ \A i, j \in 1..Len(line) : line[i] = line[j] => i = j
  /\ \A c \in Callers : phase[c] \in Waiting <=> \E i \in 1..Len(line) : line[i] = c

LEMMA NextTypeInv == TypeInv /\ HeldInv /\ LineInv /\ [Next]_vars => TypeInv'
<1> SUFFICES ASSUME TypeInv, HeldInv, LineInv, [Next]_vars PROVE TypeInv'
  OBVIOUS
<1>1. ASSUME NEW c \in Callers, Call(c)
      PROVE  TypeInv'
  <2>1. PICK x \in Calls(c) : call' = [call EXCEPT ![c] = x]
    BY <1>1 DEF Call
  <2>2. x \in AnyCall
    BY <2>1, CallsAre
  <2>3. line' \in Seq(Callers)
    BY <1>1, AppendProperties DEF Call, TypeInv, TypeOK
  <2> QED BY <1>1, <2>1, <2>2, <2>3 DEF Call, Goto, TypeInv, TypeOK, CallInv, Phases
<1>2. ASSUME NEW c \in Callers, Serve(c)
      PROVE  TypeInv'
  <2>1. c = line[1] /\ line' \in Seq(Callers) /\ 1 \in 1..Len(line)
    BY <1>2, HeadInLine DEF Serve
  <2>2. phase[c] \in Waiting
    BY <2>1 DEF LineInv
  <2>3. held[c] \in {0, 1} /\ (phase[c] # "getting" => call[c] = "createWithPolicy")
    BY <2>2 DEF HeldInv, Waiting, TypeInv, CallInv
  <2>4. held' \in [Callers -> 0..2]
    BY <1>2, <2>3 DEF Serve, TypeInv, TypeOK
  <2> QED BY <1>2, <2>1, <2>3, <2>4 DEF Serve, Goto, TypeInv, TypeOK, CallInv, Phases
<1>3. ASSUME NEW c \in Callers, Query(c)
      PROVE  TypeInv'
  <2>1. queue' \in {"absent", "bare", "configured"} /\ dropped' \in [Callers -> BOOLEAN]
    BY <1>3, EffectType DEF Query
  <2>2. CASE call[c] = "createWithPolicy"
    <3>1. Append(line, c) \in Seq(Callers)
      BY AppendProperties DEF TypeInv, TypeOK
    <3> QED BY <1>3, <2>1, <2>2, <3>1 DEF Query, Goto, TypeInv, TypeOK, CallInv, Phases
  <2>3. CASE call[c] = "cleanup"
    BY <1>3, <2>1, <2>3 DEF Query, Goto, TypeInv, TypeOK, CallInv, Phases
  <2>4. CASE Return(c, "ok")
    BY <2>1, <2>4, ReturnType
  <2> QED BY <1>3, <2>2, <2>3, <2>4 DEF Query
<1>4. ASSUME NEW c \in Callers, QueryFails(c)
      PROVE  TypeInv'
  BY <1>4, EffectType, ReturnType DEF QueryFails
<1>5. ASSUME NEW c \in Callers, SetPolicy(c) \/ CleanupEvents(c)
      PROVE  TypeInv'
  <2>1. queue' \in {"absent", "bare", "configured"} /\ dropped' \in [Callers -> BOOLEAN]
    BY <1>5 DEF SetPolicy, CleanupEvents, TypeInv, TypeOK
  <2> QED BY <1>5, <2>1, ReturnType DEF SetPolicy, CleanupEvents
<1>6. CASE UNCHANGED vars
  BY <1>6 DEF vars, TypeInv, TypeOK, CallInv
<1> QED BY <1>1, <1>2, <1>3, <1>4, <1>5, <1>6 DEF Next, Proceed

-----------------------------------------------------------------------------
(* Connections and the line.                                               *)

LEMMA ReturnHeld ==
  ASSUME TypeInv, HeldInv, NEW c \in Callers, NEW x, Return(c, x)
  PROVE  HeldInv'
BY DEF Return, Goto, TypeInv, TypeOK, HeldInv

LEMMA NextHeldInv == TypeInv /\ HeldInv /\ LineInv /\ [Next]_vars => HeldInv'
<1> SUFFICES ASSUME TypeInv, HeldInv, LineInv, [Next]_vars PROVE HeldInv'
  OBVIOUS
<1>1. ASSUME NEW c \in Callers, Call(c)
      PROVE  HeldInv'
  BY <1>1 DEF Call, Goto, TypeInv, TypeOK, CallInv, HeldInv
<1>2. ASSUME NEW c \in Callers, Serve(c)
      PROVE  HeldInv'
  <2>1. c = line[1] /\ 1 \in 1..Len(line)
    BY <1>2, HeadInLine DEF Serve
  <2>2. phase[c] \in Waiting
    BY <2>1 DEF LineInv
  <2> QED BY <1>2, <2>2 DEF Serve, Goto, Waiting, TypeInv, TypeOK, CallInv, HeldInv
<1>3. ASSUME NEW c \in Callers, Query(c)
      PROVE  HeldInv'
  <2>1. CASE call[c] \in {"createWithPolicy", "cleanup"}
    BY <1>3, <2>1 DEF Query, Goto, TypeInv, TypeOK, HeldInv
  <2> QED BY <1>3, <2>1, ReturnHeld DEF Query
<1>4. ASSUME NEW c \in Callers, QueryFails(c) \/ SetPolicy(c) \/ CleanupEvents(c)
      PROVE  HeldInv'
  BY <1>4, ReturnHeld DEF QueryFails, SetPolicy, CleanupEvents
<1>5. CASE UNCHANGED vars
  BY <1>5 DEF vars, HeldInv
<1> QED BY <1>1, <1>2, <1>3, <1>4, <1>5 DEF Next, Proceed

(* Those who begin to wait join the line at its end. *)
LEMMA JoinsLine ==
  ASSUME TypeInv, LineInv, NEW c \in Callers, phase[c] \notin Waiting,
         NEW p \in Waiting, Goto(c, p), line' = Append(line, c)
  PROVE  LineInv'
<1>1. /\ Len(line) \in Nat /\ Len(line') = Len(line) + 1
      /\ \A i \in 1..Len(line) : line'[i] = line[i]
      /\ line'[Len(line) + 1] = c
  BY AppendProperties DEF TypeInv, TypeOK
<1>2. \A i \in 1..Len(line) : line[i] # c
  BY DEF LineInv
<1>3. \A i, j \in 1..Len(line') : line'[i] = line'[j] => i = j
  BY <1>1, <1>2 DEF LineInv
<1>4. ASSUME NEW d \in Callers
      PROVE  phase'[d] \in Waiting <=> \E i \in 1..Len(line') : line'[i] = d
  <2>1. CASE d = c
    <3>1. phase'[d] \in Waiting
      BY <2>1 DEF Goto, TypeInv, TypeOK
    <3>2. Len(line) + 1 \in 1..Len(line')
      BY <1>1
    <3> QED BY <1>1, <2>1, <3>1, <3>2
  <2>2. CASE d # c
    <3>1. phase'[d] = phase[d]
      BY <2>2 DEF Goto, TypeInv, TypeOK
    <3>2. (\E i \in 1..Len(line') : line'[i] = d) <=> \E i \in 1..Len(line) : line[i] = d
      BY <1>1, <2>2
    <3> QED BY <3>1, <3>2 DEF LineInv
  <2> QED BY <2>1, <2>2
<1> QED BY <1>3, <1>4 DEF LineInv

LEMMA KeepsLine ==
  ASSUME TypeInv, LineInv, NEW c \in Callers, phase[c] \notin Waiting,
         NEW p \in Phases \ Waiting, Goto(c, p), line' = line
  PROVE  LineInv'
BY DEF Goto, TypeInv, TypeOK, LineInv

LEMMA LeavesLine ==
  ASSUME TypeInv, LineInv, NEW c \in Callers, Serve(c)
  PROVE  LineInv'
<1>1. line # <<>> /\ line' = Tail(line) /\ \E p \in Phases \ Waiting : Goto(c, p)
  BY DEF Serve, Phases, Waiting
<1>2. /\ Len(line) \in Nat \ {0} /\ Len(line') = Len(line) - 1
      /\ line[1] = c
      /\ \A i \in 1..Len(line') : line'[i] = line[i + 1]
  BY <1>1, HeadInLine, HeadTailProperties DEF Serve, TypeInv, TypeOK
<1>3. \A i, j \in 1..Len(line') : line'[i] = line'[j] => i = j
  BY <1>2 DEF LineInv
<1>4. ASSUME NEW d \in Callers
      PROVE  phase'[d] \in Waiting <=> \E i \in 1..Len(line') : line'[i] = d
  <2>1. CASE d = c
    <3>1. phase'[d] \notin Waiting
      BY <1>1, <2>1 DEF Goto, TypeInv, TypeOK
    <3>2. ASSUME NEW i \in 1..Len(line'), line'[i] = d PROVE FALSE
      BY <1>2, <2>1, <3>2 DEF LineInv
    <3> QED BY <3>1, <3>2
  <2>2. CASE d # c
    <3>1. phase'[d] = phase[d]
      BY <1>1, <2>2 DEF Goto, TypeInv, TypeOK
    <3>2. ASSUME NEW i \in 1..Len(line), line[i] = d
          PROVE  \E j \in 1..Len(line') : line'[j] = d
      <4>1. i - 1 \in 1..Len(line') /\ line'[i - 1] = d
        BY <1>2, <2>2, <3>2
      <4> QED BY <4>1
    <3>3. ASSUME NEW j \in 1..Len(line'), line'[j] = d
          PROVE  \E i \in 1..Len(line) : line[i] = d
      <4>1. j + 1 \in 1..Len(line) /\ line[j + 1] = d
        BY <1>2, <3>3
      <4> QED BY <4>1
    <3> QED BY <3>1, <3>2, <3>3 DEF LineInv
  <2> QED BY <2>1, <2>2
<1> QED BY <1>3, <1>4 DEF LineInv

LEMMA NextLineInv == TypeInv /\ LineInv /\ [Next]_vars => LineInv'
<1> SUFFICES ASSUME TypeInv, LineInv, [Next]_vars PROVE LineInv'
  OBVIOUS
<1>1. ASSUME NEW c \in Callers, Call(c)
      PROVE  LineInv'
  BY <1>1, JoinsLine DEF Call, Waiting
<1>2. ASSUME NEW c \in Callers, Serve(c)
      PROVE  LineInv'
  BY <1>2, LeavesLine
<1>3. ASSUME NEW c \in Callers, NEW x, Return(c, x), phase[c] \in {"query", "second"}
      PROVE  LineInv'
  BY <1>3, KeepsLine DEF Return, Phases, Waiting
<1>4. ASSUME NEW c \in Callers, Query(c)
      PROVE  LineInv'
  <2>1. phase[c] = "query" /\ phase[c] \notin Waiting
    BY <1>4 DEF Query, Waiting
  <2>2. CASE Goto(c, "gettingSecond") /\ line' = Append(line, c)
    BY <2>1, <2>2, JoinsLine DEF Waiting
  <2>3. CASE Goto(c, "second") /\ line' = line
    BY <2>1, <2>3, KeepsLine DEF Waiting, Phases
  <2> QED BY <1>3, <1>4, <2>1, <2>2, <2>3 DEF Query
<1>5. ASSUME NEW c \in Callers, QueryFails(c) \/ SetPolicy(c) \/ CleanupEvents(c)
      PROVE  LineInv'
  BY <1>3, <1>5 DEF QueryFails, SetPolicy, CleanupEvents
<1>6. CASE UNCHANGED vars
  BY <1>6 DEF vars, LineInv
<1> QED BY <1>1, <1>2, <1>4, <1>5, <1>6 DEF Next, Proceed

LEMMA SpecLineInv == Spec => [](TypeInv /\ HeldInv /\ LineInv)
<1>1. Init => TypeInv /\ HeldInv /\ LineInv
  <2>1. Init => HeldInv
    BY DEF Init, HeldInv
  <2>2. Init => LineInv
    BY DEF Init, LineInv, Waiting
  <2> QED BY <2>1, <2>2, InitTypeInv
<1>2. TypeInv /\ HeldInv /\ LineInv /\ [Next]_vars => (TypeInv /\ HeldInv /\ LineInv)'
  BY NextTypeInv, NextHeldInv, NextLineInv
<1> QED BY <1>1, <1>2, PTL DEF Spec

(* No caller ever holds more than two connections, gets in a phase that    *)
(* its call does not have, or leaves the queue in a state that the         *)
(* database does not know.                                                 *)
THEOREM TypeCorrect == Spec => []TypeOK
BY SpecLineInv, PTL DEF TypeInv

-----------------------------------------------------------------------------
(* The size of the pool.                                                   *)

One == {c \in Callers : held[c] >= 1}
Two == {c \in Callers : held[c] = 2}

LEMMA InUseIs ==
  /\ IsFiniteSet(One) /\ IsFiniteSet(Two)
  /\ Cardinality(One) \in Nat /\ Cardinality(Two) \in Nat
  /\ InUse = Cardinality(One) + Cardinality(Two)
<1>1. IsFiniteSet(One) /\ IsFiniteSet(Two)
  BY PoolAssumption, FS_Subset DEF One, Two
<1> QED BY <1>1, FS_CardinalityType DEF InUse, One, Two

(* A caller that is served has one connection more than before. *)
LEMMA ServeUses ==
  ASSUME TypeInv, NEW c \in Callers, held[c] \in {0, 1}, held' = [held EXCEPT ![c] = @ + 1]
  PROVE  InUse' = InUse + 1
<1>1. held \in [Callers -> 0..2]
  BY DEF TypeInv, TypeOK
<1>2. InUse' = Cardinality(One') + Cardinality(Two')
  BY DEF InUse, One, Two
<1>3. CASE held[c] = 0
  <2>1. One' = One \cup {c} /\ c \notin One /\ Two' = Two
    BY <1>1, <1>3 DEF One, Two
  <2>2. Cardinality(One \cup {c}) = Cardinality(One) + 1
    BY <2>1, InUseIs, FS_AddElement
  <2> QED BY <1>2, <2>1, <2>2, InUseIs
<1>4. CASE held[c] = 1
  <2>1. Two' = Two \cup {c} /\ c \notin Two /\ One' = One
    BY <1>1, <1>4 DEF One, Two
  <2>2. Cardinality(Two \cup {c}) = Cardinality(Two) + 1
    BY <2>1, InUseIs, FS_AddElement
  <2> QED BY <1>2, <2>1, <2>2, InUseIs
<1> QED BY <1>3, <1>4

LEMMA ReturnFrees ==
  ASSUME TypeInv, NEW c \in Callers, NEW x, Return(c, x)
  PROVE  InUse' <= InUse
<1>1. One' \subseteq One /\ Two' \subseteq Two
  BY DEF Return, One, Two, TypeInv, TypeOK
<1>2. InUse' = Cardinality(One') + Cardinality(Two')
  BY DEF InUse, One, Two
<1>3. Cardinality(One') <= Cardinality(One) /\ Cardinality(Two') <= Cardinality(Two)
  BY <1>1, InUseIs, FS_Subset
<1>4. IsFiniteSet(One') /\ IsFiniteSet(Two')
  BY <1>1, InUseIs, FS_Subset
<1>5. Cardinality(One') \in Nat /\ Cardinality(Two') \in Nat
  BY <1>4, FS_CardinalityType
<1> QED BY <1>2, <1>3, <1>5, InUseIs

SizeInv == InUse <= PoolSize

LEMMA NextSizeInv == TypeInv /\ HeldInv /\ LineInv /\ SizeInv /\ [Next]_vars => SizeInv'
<1> USE DEF SizeInv
<1> SUFFICES ASSUME TypeInv, HeldInv, LineInv, InUse <= PoolSize, [Next]_vars
             PROVE  InUse' <= PoolSize
  OBVIOUS
<1>1. ASSUME NEW c \in Callers, Serve(c)
      PROVE  InUse' <= PoolSize
  <2>1. c = line[1] /\ 1 \in 1..Len(line)
    BY <1>1, HeadInLine DEF Serve
  <2>2. phase[c] \in Waiting
    BY <2>1 DEF LineInv
  <2>3. held[c] \in {0, 1}
    BY <2>2 DEF HeldInv, Waiting
  <2>4. InUse' = InUse + 1 /\ InUse < PoolSize
    BY <1>1, <2>3, ServeUses DEF Serve
  <2> QED BY <2>4, InUseIs, PoolAssumption
<1>2. ASSUME NEW c \in Callers, NEW x, Return(c, x)
      PROVE  InUse' <= PoolSize
  <2>1. InUse' <= InUse
    BY <1>2, ReturnFrees
  <2>2. InUse' \in Int /\ InUse \in Int
    <3>1. IsFiniteSet({c2 \in Callers : held'[c2] >= 1}) /\ IsFiniteSet({c2 \in Callers : held'[c2] = 2})
      BY PoolAssumption, FS_Subset
    <3> QED BY <3>1, FS_CardinalityType, InUseIs DEF InUse
  <2> QED BY <2>1, <2>2, PoolAssumption
<1>3. CASE held' = held
  BY <1>3 DEF InUse
<1>4. ASSUME NEW c \in Callers, Call(c)
      PROVE  held' = held
  BY <1>4 DEF Call
<1>5. ASSUME NEW c \in Callers, Query(c) \/ QueryFails(c) \/ SetPolicy(c) \/ CleanupEvents(c)
      PROVE  held' = held \/ \E x : Return(c, x)
  BY <1>5 DEF Query, QueryFails, SetPolicy, CleanupEvents
<1>6. CASE UNCHANGED vars
  BY <1>3, <1>6 DEF vars
<1> QED BY <1>1, <1>2, <1>3, <1>4, <1>5, <1>6 DEF Next, Proceed

(* The place of a caller in the line. *)
LEMMA OnceInLine ==
  ASSUME TypeInv, LineInv, NEW c \in Callers
  PROVE  Cardinality({i \in DOMAIN line : line[i] = c}) =
           IF phase[c] \in {"getting", "gettingSecond"} THEN 1 ELSE 0
<1>1. DOMAIN line = 1..Len(line)
  BY LenProperties DEF TypeInv, TypeOK
<1>2. CASE phase[c] \in Waiting
  <2>1. PICK i \in 1..Len(line) : line[i] = c
    BY <1>2 DEF LineInv
  <2>2. {j \in DOMAIN line : line[j] = c} = {i}
    BY <1>1, <2>1 DEF LineInv
  <2> QED BY <1>2, <2>2, FS_Singleton DEF Waiting
<1>3. CASE phase[c] \notin Waiting
  <2>1. {j \in DOMAIN line : line[j] = c} = {}
    BY <1>1, <1>3 DEF LineInv
  <2> QED BY <1>3, <2>1, FS_EmptySet DEF Waiting
<1> QED BY <1>2, <1>3

(* The connections in use are those of the calls under way, as many as     *)
(* each has got, never more than the pool has; and a caller waits in line  *)
(* exactly as long as it has not got the one it asked for.                 *)
THEOREM PoolAccounts == Spec => []PoolAccounting
<1>1. Init => SizeInv
  <2> SUFFICES ASSUME Init PROVE InUse <= PoolSize
    BY DEF SizeInv
  <2>1. One = {} /\ Two = {}
    BY DEF Init, One, Two
  <2> QED BY <2>1, InUseIs, FS_EmptySet, PoolAssumption
<1>2. TypeInv /\ HeldInv /\ LineInv /\ SizeInv => PoolAccounting
  BY OnceInLine DEF HeldInv, PoolAccounting, SizeInv
<1> QED BY <1>1, <1>2, NextSizeInv, SpecLineInv, PTL DEF Spec

-----------------------------------------------------------------------------
(* When the pool is large enough.                                          *)

(* Whoever waits, the pool has a connection for the first in line or a     *)
(* query is under way that will give one back.                             *)
NeverBlocked ==
  line # <<>> => InUse < PoolSize \/ \E c \in Callers : phase[c] \in {"query", "second"}

(* One connection more than there are callers who create queues with a     *)
(* policy is enough, however many others use the pool: callers that hold a *)
(* connection while they wait for another never hold them all.             *)
THEOREM LargePoolsAreNotBlocked ==
  Cardinality(Creators) < PoolSize => (Spec => []NeverBlocked)
<1> SUFFICES ASSUME Cardinality(Creators) < PoolSize PROVE Spec => []NeverBlocked
  OBVIOUS
<1>1. TypeInv /\ HeldInv => NeverBlocked
  <2> SUFFICES ASSUME TypeInv, HeldInv,
                      \A c \in Callers : phase[c] \notin {"query", "second"}
               PROVE  InUse < PoolSize
    BY DEF NeverBlocked
  <2>1. Two = {}
    BY DEF Two, HeldInv
  <2>2. ASSUME NEW c \in One PROVE c \in Creators
    <3>1. c \in Callers /\ phase[c] = "gettingSecond"
      BY DEF One, HeldInv, TypeInv, TypeOK, Phases
    <3>2. call[c] \in Calls(c) /\ call[c] = "createWithPolicy"
      BY <3>1 DEF TypeInv, TypeOK, CallInv
    <3> QED BY <3>2 DEF Calls
  <2>3. IsFiniteSet(Creators)
    BY PoolAssumption, FS_Subset
  <2>4. Cardinality(One) <= Cardinality(Creators) /\ Cardinality(Creators) \in Nat
    BY <2>2, <2>3, FS_Subset, FS_CardinalityType
  <2>5. InUse = Cardinality(One)
    BY <2>1, InUseIs, FS_EmptySet
  <2> QED BY <2>4, <2>5, InUseIs, PoolAssumption
<1> QED BY <1>1, SpecLineInv, PTL

-----------------------------------------------------------------------------
(* The policy of a queue.                                                  *)

LEMMA NextConfigured == TypeInv /\ CreatedIsConfigured /\ [Next]_vars => CreatedIsConfigured'
<1> SUFFICES ASSUME TypeInv, CreatedIsConfigured, [Next]_vars,
                    NEW c \in Creators, result'[c] = "ok", ~dropped'[c]
             PROVE  queue' = "configured"
  BY DEF CreatedIsConfigured
<1>0. c \in Callers /\ call[c] = "createWithPolicy"
  BY PoolAssumption DEF TypeInv, TypeOK, Calls
<1>1. ASSUME result[c] = "ok", ~dropped[c], queue' \in {queue, "configured"}
      PROVE  queue' = "configured"
  BY <1>1 DEF CreatedIsConfigured
<1>2. ASSUME NEW d \in Callers, Effect(d)
      PROVE  \/ queue = "absent" /\ dropped' = dropped
             \/ queue' \in {queue, "configured"} /\ dropped' = dropped
  <2>1. ~(dropped' = [b \in Callers |-> TRUE])
    BY <1>0
  <2> QED BY <1>2, <2>1 DEF Effect
<1>3. ASSUME NEW d \in Callers, Call(d)
      PROVE  queue' = "configured"
  <2>1. result[c] = "ok" /\ dropped'[c] = dropped[c]
    BY <1>0, <1>3 DEF Call, TypeInv, TypeOK
  <2> QED BY <1>1, <1>3, <2>1 DEF Call
<1>4. ASSUME NEW d \in Callers, Serve(d)
      PROVE  queue' = "configured"
  BY <1>1, <1>4 DEF Serve
<1>5. ASSUME NEW d \in Callers, Query(d) \/ QueryFails(d)
      PROVE  queue' = "configured"
  <2>1. result[c] = "ok"
    BY <1>0, <1>5 DEF Query, QueryFails, Return, TypeInv, TypeOK
  <2>2. CASE UNCHANGED <<queue, dropped>>
    BY <1>1, <2>1, <2>2
  <2>3. CASE Effect(d)
    <3>1. ~dropped[c]
      BY <1>2, <2>3
    <3>2. queue = "configured"
      BY <2>1, <3>1 DEF CreatedIsConfigured
    <3> QED BY <1>2, <2>3, <3>2
  <2> QED BY <1>5, <2>2, <2>3 DEF Query, QueryFails
<1>6. ASSUME NEW d \in Callers, SetPolicy(d) \/ CleanupEvents(d)
      PROVE  queue' = "configured"
  <2>1. CASE queue' = "configured"
    BY <2>1
  <2>2. CASE queue' # "configured"
    <3>1. queue' = queue /\ dropped' = dropped
      BY <1>6, <2>2 DEF SetPolicy, CleanupEvents
    <3>2. result[c] = "ok"
      BY <1>0, <1>6, <2>2 DEF SetPolicy, CleanupEvents, Return, TypeInv, TypeOK
    <3> QED BY <1>1, <3>1, <3>2
  <2> QED BY <2>1, <2>2
<1>7. CASE UNCHANGED vars
  BY <1>1, <1>7 DEF vars
<1> QED BY <1>3, <1>4, <1>5, <1>6, <1>7 DEF Next, Proceed

(* A queue whose creation with a policy was reported as done has a policy, *)
(* unless it was dropped since: others that create it, with a policy or    *)
(* without, and calls that fail half-way do not undo it.                   *)
THEOREM QueuesAreConfigured == Spec => []CreatedIsConfigured
<1>1. Init => CreatedIsConfigured
  BY PoolAssumption DEF Init, CreatedIsConfigured
<1> QED BY <1>1, NextConfigured, SpecLineInv, PTL DEF Spec
=============================================================================
