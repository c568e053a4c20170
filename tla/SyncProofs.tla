----------------------------- MODULE SyncProofs -----------------------------
(***************************************************************************)
(* Theorems about offline work, for every set of clients, mutations, rows, *)
(* pushes and resolvers, and whatever those resolvers may choose.          *)
(***************************************************************************)
EXTENDS Sync, FiniteSetTheorems, TLAPS

Recorded(m) == \E o \in op : o.mutation = m
IsToDo(p, m) == \E i \in DOMAIN push[p].todo : push[p].todo[i] = m

\* A mutation that a push has been sent is settled or still to go, and its
\* base no longer changes; those that were stale when sent still are.
PushOK(p) ==
  /\ push[p].pc \in {"conflict", "insert"} => push[p].todo # <<>>
  /\ push[p].pc = "conflict" => Head(push[p].todo) \in Versioned
  /\ push[p].pc = "insert" => Head(push[p].todo) \notin push[p].stale
  /\ \A m \in push[p].sent : queue[m].status # "NEW" /\ (Recorded(m) \/ HasConflict(m) \/ IsToDo(p, m))
  /\ \A m \in push[p].stale : IsStale(m) /\ queue[m].status # "NEW"

PushInv == \A p \in Pushes : PushOK(p)

\* A resolver carries out only what may be chosen for the conflict found.
ResolveOK(r) ==
  resolve[r].of # 0 =>
    MayChoose(Type[EntityOf[conflict[resolve[r].of].of]], resolve[r].choice)

ResolveInv == \A r \in Resolvers : ResolveOK(r)

SyncInv ==
  TypeOK /\ PushInv /\ ResolveInv /\ RecordedOnce /\ DoneIsKept /\ NeverMerged

USE SyncConstantsOK

-----------------------------------------------------------------------------
(* The order in which a push takes its mutations leaves none out. *)
LEMMA SeqOfSet ==
  ASSUME NEW S, IsFiniteSet(S)
  PROVE  /\ SetToSeq(S) \in Seq(S)
         /\ \A x \in S : \E i \in DOMAIN SetToSeq(S) : SetToSeq(S)[i] = x
         /\ \A i, j \in DOMAIN SetToSeq(S) : SetToSeq(S)[i] = SetToSeq(S)[j] => i = j
  <1> DEFINE n == Cardinality(S)
  <1>1. n \in Nat /\ \E f : f \in Bijection(1 .. n, S)
    BY FS_CardinalityType DEF ExistsBijection
  <1>2. PICK f : f \in Bijection(1 .. n, S)
    BY <1>1
  <1>3. f \in [1 .. n -> S] /\ IsInjective(f)
    BY <1>2 DEF Bijection, Injection, Surjection, IsInjective
  <1>4. SetToSeq(S) \in [1 .. n -> S] /\ IsInjective(SetToSeq(S))
    BY <1>3 DEF SetToSeq
  <1> DEFINE s == SetToSeq(S)
  <1> HIDE DEF s, n
  <1>5. s \in Injection(1 .. n, S)
    BY <1>4 DEF s, n, Injection, IsInjective
  <1>6. Cardinality(1 .. n) = n /\ IsFiniteSet(1 .. n)
    BY <1>1, FS_Interval DEF n
  <1>7. s \in Surjection(1 .. n, S)
    BY <1>5, <1>6, FS_Injection DEF n
  <1>8. s \in Seq(S) /\ DOMAIN s = 1 .. n
    BY <1>4, <1>1 DEF s, n
  <1>9. \A x \in S : \E i \in 1 .. n : s[i] = x
    BY <1>7 DEF Surjection
  <1>10. \A i, j \in DOMAIN s : s[i] = s[j] => i = j
    BY <1>4 DEF s, IsInjective
  <1>11. QED BY <1>8, <1>9, <1>10 DEF s

-----------------------------------------------------------------------------
(* What the parts of the invariant depend on. *)

\* Rows only get newer, the base of a mutation is settled when it is queued,
\* and what is recorded or in conflict stays so.
Forward ==
  /\ \A e \in Entities : version[e] <= version'[e]
  /\ \A m \in Mutations : queue[m].status # "NEW" =>
       queue'[m].status # "NEW" /\ queue'[m].base = queue[m].base
  /\ op \subseteq op'
  /\ \A i \in DOMAIN conflict : i \in DOMAIN conflict' /\ conflict'[i].of = conflict[i].of

LEMMA QueueForward ==
  ASSUME TypeOK, UNCHANGED <<version, op, conflict>>,
         \A m \in Mutations : queue[m].status # "NEW" =>
            queue'[m].status # "NEW" /\ queue'[m].base = queue[m].base
  PROVE  Forward
  <1>1. \A e \in Entities : version[e] <= version'[e]
    BY DEF TypeOK
  <1>2. QED BY <1>1 DEF Forward

\* A push that does not move stays in order.
LEMMA PushKept ==
  ASSUME TypeOK, TypeOK', Forward, NEW p \in Pushes, PushOK(p), push'[p] = push[p]
  PROVE  PushOK(p)'
  <1>1. ASSUME NEW m \in Mutations, IsStale(m), queue[m].status # "NEW"
        PROVE  IsStale(m)'
    <2>1. EntityOf[m] \in Entities
      OBVIOUS
    <2>2. version \in [Entities -> 1 .. clock] /\ version' \in [Entities -> 1 .. clock']
      BY DEF TypeOK
    <2>3. queue[m].base \in Nat
      BY DEF TypeOK
    <2>4. version[EntityOf[m]] > queue[m].base
      BY <1>1 DEF IsStale
    <2>5. version[EntityOf[m]] <= version'[EntityOf[m]] /\ queue'[m].base = queue[m].base
      BY <1>1, <2>1 DEF Forward
    <2>6. version[EntityOf[m]] \in Nat /\ version'[EntityOf[m]] \in Nat
      BY <2>1, <2>2
    <2>7. version'[EntityOf[m]] > queue'[m].base
      BY <2>3, <2>4, <2>5, <2>6
    <2>8. QED BY <1>1, <2>7 DEF IsStale
  <1>2. ASSUME NEW m, Recorded(m) PROVE Recorded(m)'
    BY <1>2 DEF Recorded, Forward
  <1>3. ASSUME NEW m, HasConflict(m) PROVE HasConflict(m)'
    BY <1>3 DEF HasConflict, Forward
  <1>4. ASSUME NEW m, IsToDo(p, m) PROVE IsToDo(p, m)'
    BY <1>4 DEF IsToDo
  <1>5. push[p].sent \subseteq Mutations /\ push[p].stale \subseteq Mutations
    BY DEF TypeOK
  <1>6. \A m \in push[p].sent : queue'[m].status # "NEW"
    BY <1>5 DEF PushOK, Forward
  <1>7. \A m \in push[p].stale : queue'[m].status # "NEW"
    BY <1>5 DEF PushOK, Forward
  <1>8. \A m \in push[p].sent : Recorded(m)' \/ HasConflict(m)' \/ IsToDo(p, m)'
    BY <1>2, <1>3, <1>4 DEF PushOK
  <1>9. \A m \in push[p].stale : IsStale(m)'
    BY <1>1, <1>5 DEF PushOK
  <1>10. QED BY <1>6, <1>7, <1>8, <1>9 DEF PushOK

LEMMA PushesKept ==
  ASSUME TypeOK, TypeOK', Forward, PushInv, push' = push
  PROVE  PushInv'
  BY PushKept DEF PushInv

\* What is done stays kept, as long as nothing new is done.
LEMMA DoneKept ==
  ASSUME TypeOK, Forward, DoneIsKept,
         \A m \in Mutations : queue'[m].status = "DONE" => queue[m].status = "DONE"
  PROVE  DoneIsKept'
  BY DEF DoneIsKept, Forward, HasConflict

-----------------------------------------------------------------------------
(* Every state has the right type. *)

Pushed == [pc: {"idle", "check", "conflict", "insert"}, todo: Seq(Mutations),
           sent: SUBSET Mutations, heard: BOOLEAN, stale: SUBSET Mutations]
Pulled == [pc: {"idle", "read", "apply"}, left: SUBSET Types,
           got: [Entities -> 0 .. clock], time: 0 .. clock]
Queued == [status: {"NEW", "QUEUED", "PROCESSING", "DONE"}, base: 0 .. clock, retries: 0 .. MaxRetries]
Disputed == [of: Versioned, status: {"OPEN", "RESOLVED"}, resolution: Verdicts \cup {"none"}]

ServerType ==
  /\ clock \in 1 .. MaxClock /\ version \in [Entities -> 1 .. clock]
  /\ op \subseteq [mutation: Mutations, push: Pushes]
ConflictType ==
  conflict \in Seq(Disputed) /\ resolve \in [Resolvers -> [of: 0 .. Len(conflict), choice: Verdicts]]
PushType == push \in [Pushes -> Pushed] /\ lost \subseteq Clients
QueueType == queue \in [Mutations -> Queued]
PullType ==
  /\ mirror \in [Clients -> [Entities -> 1 .. clock]] /\ since \in [Clients -> 0 .. clock]
  /\ pull \in [Clients -> Pulled] /\ pulls \in [Clients -> 0 .. MaxPulls]

LEMMA TypeParts == TypeOK <=> ServerType /\ ConflictType /\ PushType /\ QueueType /\ PullType
  BY DEF TypeOK, ServerType, ConflictType, PushType, QueueType, PullType, Pushed, Pulled, Queued, Disputed

LEMMA TypePartsNext ==
  TypeOK' <=> ServerType' /\ ConflictType' /\ PushType' /\ QueueType' /\ PullType'
  BY TypeParts, PTL

LEMMA InitTypeOK == Init => TypeOK
  <1> SUFFICES ASSUME Init PROVE TypeOK
    OBVIOUS
  <1>1. ServerType /\ ConflictType /\ QueueType
    BY DEF Init, NoVerdict, ServerType, ConflictType, QueueType, Queued, Verdicts
  <1>2. PushType /\ PullType
    BY DEF Init, PushType, PullType, Pushed, Pulled, NoPush, NoPull
  <1>3. QED BY <1>1, <1>2, TypeParts

LEMMA DesktopTypeOK ==
  ASSUME TypeOK,
         \/ \E e \in Entities : Touch(e)
         \/ \E m \in Mutations : EnqueueSyncOperation(m)
         \/ \E c \in Clients : Recover(c)
         \/ \E p \in Pushes, c \in Clients : Send(p, c)
  PROVE  TypeOK'
  <1> USE TypeParts, TypePartsNext DEF server, desktop, pulling
  <1>1. ASSUME NEW e \in Entities, Touch(e) PROVE TypeOK'
    <2>1. ServerType'
      BY <1>1 DEF Touch, ServerType
    <2>2. ConflictType' /\ PushType'
      BY <1>1 DEF Touch, ConflictType, PushType
    <2>3. QueueType'
      BY <1>1 DEF Touch, QueueType, Queued, ServerType
    <2>4. PullType'
      BY <1>1 DEF Touch, PullType, Pulled, ServerType
    <2>5. QED BY <2>1, <2>2, <2>3, <2>4
  <1>2. ASSUME NEW m \in Mutations, EnqueueSyncOperation(m) PROVE TypeOK'
    <2>1. ServerType' /\ ConflictType' /\ PushType' /\ PullType'
      BY <1>2 DEF EnqueueSyncOperation, ServerType, ConflictType, PushType, PullType, Pulled
    <2>2. mirror[ClientOf[m]][EntityOf[m]] \in 0 .. clock
      BY DEF PullType, ServerType
    <2>3. QueueType'
      BY <1>2, <2>2 DEF EnqueueSyncOperation, QueueType, Queued
    <2>4. QED BY <2>1, <2>3
  <1>3. ASSUME NEW c \in Clients, Recover(c) PROVE TypeOK'
    <2>1. ServerType' /\ ConflictType' /\ PushType' /\ PullType'
      BY <1>3 DEF Recover, ServerType, ConflictType, PushType, PullType, Pulled
    <2>2. ASSUME NEW m \in RowsOf(c, "PROCESSING") PROVE Recovered(queue[m]) \in Queued
      <3>1. m \in Mutations /\ queue[m] \in Queued /\ queue[m].retries < MaxRetries
        BY <1>3 DEF Recover, RowsOf, QueueType
      <3>2. queue[m].retries + 1 \in 0 .. MaxRetries
        BY <3>1 DEF Queued
      <3>3. QED BY <3>1, <3>2 DEF Recovered, Queued
    <2>3. queue' \in [Mutations -> Queued]
      BY <1>3, <2>2 DEF Recover, QueueType
    <2>4. QueueType'
      BY <1>3, <2>3 DEF Recover, QueueType, Queued
    <2>5. QED BY <2>1, <2>4
  <1>4. ASSUME NEW p \in Pushes, NEW c \in Clients, Send(p, c) PROVE TypeOK'
    <2> DEFINE ms == RowsOf(c, "QUEUED")
    <2>1. ms \subseteq Mutations /\ IsFiniteSet(ms)
      BY FS_Subset DEF RowsOf
    <2>2. SetToSeq(ms) \in Seq(Mutations)
      BY <2>1, SeqOfSet
    <2>3. ServerType' /\ ConflictType' /\ PullType'
      BY <1>4 DEF Send, ServerType, ConflictType, PullType, Pulled
    <2>4. QueueType'
      BY <1>4 DEF Send, Becomes, QueueType, Queued
    <2>5. PushType'
      BY <1>4, <2>1, <2>2 DEF Send, PushType, Pushed
    <2>6. QED BY <2>3, <2>4, <2>5
  <1>5. QED BY <1>1, <1>2, <1>3, <1>4

\* A push changes a field of its own, or is over.
LEMMA PushStep ==
  ASSUME PushType, lost' \subseteq Clients, NEW p \in Pushes, NEW r \in Pushed,
         push' = [push EXCEPT ![p] = r]
  PROVE  PushType'
  BY DEF PushType, Pushed

NextOf(r) ==
  [r EXCEPT !.pc = "check", !.todo = Tail(@), !.stale = @ \ {Head(r.todo)}]

LEMMA PushedFields ==
  ASSUME NEW r \in Pushed
  PROVE  /\ \A pc \in {"idle", "check", "conflict", "insert"} : [r EXCEPT !.pc = pc] \in Pushed
         /\ r.todo # <<>> => NextOf(r) \in Pushed
         /\ [r EXCEPT !.heard = FALSE] \in Pushed
         /\ NoPush \in Pushed
  <1>1. \A pc \in {"idle", "check", "conflict", "insert"} : [r EXCEPT !.pc = pc] \in Pushed
    BY DEF Pushed
  <1>2. ASSUME r.todo # <<>> PROVE NextOf(r) \in Pushed
    <2>1. Tail(r.todo) \in Seq(Mutations)
      BY <1>2 DEF Pushed
    <2>2. QED BY <2>1 DEF Pushed, NextOf
  <1>3. [r EXCEPT !.heard = FALSE] \in Pushed
    BY DEF Pushed
  <1>4. NoPush \in Pushed
    BY DEF Pushed, NoPush
  <1>5. QED BY <1>1, <1>2, <1>3, <1>4

LEMMA PushTypeOK ==
  ASSUME TypeOK, PushInv, NEW p \in Pushes, Serve(p) \/ Die(p) \/ GiveUp(p)
  PROVE  TypeOK'
  <1> USE TypeParts, TypePartsNext DEF server, desktop, pulling
  <1>1. PullType'
    BY DEF Serve, Check, OpenConflict, Insert, Answer, Die, GiveUp, PullType, Pulled
  <1>2. push[p] \in Pushed /\ lost \subseteq Clients
    BY DEF PushType
  <1>3. CASE Check(p)
    <2>1. ServerType' /\ ConflictType' /\ QueueType'
      BY <1>3 DEF Check, ServerType, ConflictType, QueueType, Queued
    <2>2. PICK pc \in {"idle", "check", "conflict", "insert"} :
            push' = [push EXCEPT ![p] = [push[p] EXCEPT !.pc = pc]]
      BY <1>3 DEF Check
    <2>3. PushType'
      BY <1>2, <1>3, <2>2, PushedFields, PushStep DEF Check
    <2>4. QED BY <1>1, <2>1, <2>3
  <1>4. CASE OpenConflict(p)
    <2>1. Head(push[p].todo) \in Versioned /\ push[p].todo # <<>>
      BY <1>4 DEF OpenConflict, PushInv, PushOK
    <2>2. [of |-> Head(push[p].todo), status |-> "OPEN", resolution |-> "none"] \in Disputed
      BY <2>1 DEF Disputed
    <2>3. ConflictType'
      BY <1>4, <2>2 DEF OpenConflict, ConflictType
    <2>4. push' = [push EXCEPT ![p] = NextOf(push[p])]
      BY <1>4 DEF OpenConflict, Proceed, NextOf
    <2>5. NextOf(push[p]) \in Pushed
      BY <1>2, <2>1, PushedFields
    <2>6. PushType'
      BY <1>2, <1>4, <2>4, <2>5, PushStep DEF OpenConflict
    <2>7. QED BY <1>1, <1>4, <2>3, <2>6 DEF OpenConflict, ServerType, QueueType, Queued
  <1>5. CASE Insert(p)
    <2>1. push[p].todo # <<>> /\ Head(push[p].todo) \in Mutations
      BY <1>2, <1>5 DEF Insert, PushInv, PushOK, Pushed
    <2>2. ServerType'
      BY <1>5, <2>1 DEF Insert, ServerType
    <2>3. ConflictType' /\ QueueType'
      BY <1>5 DEF Insert, ConflictType, QueueType, Queued
    <2>4. PushType'
      <3>1. CASE Proceed(p) /\ UNCHANGED lost
        <4>1. push' = [push EXCEPT ![p] = NextOf(push[p])]
          BY <3>1 DEF Proceed, NextOf
        <4>2. NextOf(push[p]) \in Pushed
          BY <1>2, <2>1, PushedFields
        <4>3. QED BY <1>2, <3>1, <4>1, <4>2, PushStep
      <3>2. CASE Abort(p)
        <4>1. lost' \subseteq Clients
          BY <1>2, <3>2 DEF Abort, Pushed
        <4>2. QED BY <1>2, <3>2, <4>1, PushedFields, PushStep DEF Abort
      <3>3. QED BY <1>5, <3>1, <3>2 DEF Insert
    <2>5. QED BY <1>1, <2>2, <2>3, <2>4
  <1>6. CASE Answer(p)
    <2>1. ServerType' /\ ConflictType'
      BY <1>6 DEF Answer, ServerType, ConflictType
    <2>2. QueueType'
      <3>1. \A m \in Mutations : queue[m] \in Queued /\ [queue[m] EXCEPT !.status = "DONE"] \in Queued
        BY DEF QueueType, Queued
      <3>2. queue' \in [Mutations -> Queued]
        BY <1>6, <3>1 DEF Answer, Becomes, QueueType
      <3>3. QED BY <1>6, <3>2 DEF Answer, QueueType, Queued
    <2>3. PushType'
      <3>1. push' = [push EXCEPT ![p] = NoPush] /\ lost' \subseteq Clients /\ NoPush \in Pushed
        BY <1>2, <1>6, PushedFields DEF Answer
      <3>2. QED BY <3>1, PushStep
    <2>4. QED BY <1>1, <2>1, <2>2, <2>3
  <1>7. CASE Die(p)
    <2>1. ServerType' /\ ConflictType' /\ QueueType'
      BY <1>7 DEF Die, ServerType, ConflictType, QueueType, Queued
    <2>2. lost' \subseteq Clients
      BY <1>2, <1>7 DEF Die, Abort, Pushed
    <2>3. PushType'
      BY <1>2, <1>7, <2>2, PushedFields, PushStep DEF Die, Abort
    <2>4. QED BY <1>1, <2>1, <2>3
  <1>8. CASE GiveUp(p)
    <2>1. ServerType' /\ ConflictType' /\ QueueType'
      BY <1>8 DEF GiveUp, ServerType, ConflictType, QueueType, Queued
    <2>2. lost' \subseteq Clients
      BY <1>2, <1>8 DEF GiveUp, Pushed
    <2>3. push' = [push EXCEPT ![p] = [push[p] EXCEPT !.heard = FALSE]]
      BY <1>8 DEF GiveUp
    <2>4. PushType'
      BY <1>2, <2>2, <2>3, PushedFields, PushStep
    <2>5. QED BY <1>1, <2>1, <2>4
  <1>9. QED BY <1>3, <1>4, <1>5, <1>6, <1>7, <1>8 DEF Serve

LEMMA PullTypeOK ==
  ASSUME TypeOK, NEW c \in Clients, Pull(c)
  PROVE  TypeOK'
  <1> USE TypeParts, TypePartsNext DEF server, desktop, pulling
  <1>1. ServerType' /\ ConflictType' /\ PushType'
    BY DEF Pull, BeginPull, ReadType, ServerTime, ApplyPulledEntities, LosePull, ServerType,
           ConflictType, PushType
  <1>2. QueueType'
    BY DEF Pull, BeginPull, ReadType, ServerTime, ApplyPulledEntities, LosePull, QueueType, Queued
  <1>3. pull[c] \in Pulled
    BY DEF PullType
  <1>4. CASE BeginPull(c)
    <2>1. Range(Type) \subseteq Types
      BY DEF Range
    <2>2. [pull[c] EXCEPT !.pc = "read", !.left = Range(Type)] \in Pulled
      BY <1>3, <2>1 DEF Pulled
    <2>3. pull' \in [Clients -> Pulled] /\ pulls' \in [Clients -> 0 .. MaxPulls]
      BY <1>4, <2>2 DEF BeginPull, PullType
    <2>4. PullType'
      BY <1>4, <2>3 DEF BeginPull, PullType, Pulled
    <2>5. QED BY <1>1, <1>2, <2>4
  <1>5. ASSUME NEW t \in Types, ReadType(c, t) PROVE TypeOK'
    <2>1. PICK es :
            pull' = [pull EXCEPT ![c].left = @ \ {t},
                       ![c].got = [e \in Entities |-> IF e \in es THEN version[e] ELSE @[e]]]
      BY <1>5 DEF ReadType
    <2>2. \A e \in Entities : version[e] \in 0 .. clock /\ pull[c].got[e] \in 0 .. clock
      BY <1>3 DEF ServerType, Pulled
    <2>3. [pull[c] EXCEPT !.left = @ \ {t},
                          !.got = [e \in Entities |-> IF e \in es THEN version[e] ELSE @[e]]] \in Pulled
      BY <1>3, <2>2 DEF Pulled
    <2>4. pull' \in [Clients -> Pulled]
      BY <2>1, <2>3 DEF PullType
    <2>5. PullType'
      BY <1>5, <2>4 DEF ReadType, PullType, Pulled
    <2>6. QED BY <1>1, <1>2, <2>5
  <1>6. CASE ServerTime(c)
    <2>0. clock \in 0 .. clock
      BY DEF ServerType
    <2>1. [pull[c] EXCEPT !.pc = "apply", !.time = clock] \in Pulled
      BY <1>3, <2>0 DEF Pulled
    <2>2. pull' \in [Clients -> Pulled]
      BY <1>6, <2>1 DEF ServerTime, PullType
    <2>3. PullType'
      BY <1>6, <2>2 DEF ServerTime, PullType, Pulled
    <2>4. QED BY <1>1, <1>2, <2>3
  <1>7. CASE ApplyPulledEntities(c)
    <2>1. PICK stored \in SUBSET {e \in Entities : pull[c].got[e] # 0} :
            mirror' = [mirror EXCEPT ![c] = [e \in Entities |->
              IF e \in stored THEN pull[c].got[e] ELSE @[e]]]
      BY <1>7 DEF ApplyPulledEntities
    <2>2. [e \in Entities |-> IF e \in stored THEN pull[c].got[e] ELSE mirror[c][e]]
             \in [Entities -> 1 .. clock]
      BY <1>3 DEF PullType, Pulled
    <2>3. mirror' \in [Clients -> [Entities -> 1 .. clock]]
      BY <2>1, <2>2 DEF PullType
    <2>4. since' \in [Clients -> 0 .. clock]
      <3>1. pull[c].time \in 0 .. clock /\ since \in [Clients -> 0 .. clock]
        BY <1>3 DEF PullType, Pulled
      <3>2. \E t \in {pull[c].time, since[c]} : since' = [since EXCEPT ![c] = t]
        BY <1>7 DEF ApplyPulledEntities
      <3>3. QED BY <3>1, <3>2
    <2>5. NoPull \in Pulled
      BY DEF NoPull, Pulled, ServerType
    <2>6. PullType'
      BY <1>7, <2>3, <2>4, <2>5 DEF ApplyPulledEntities, PullType, Pulled
    <2>7. QED BY <1>1, <1>2, <2>6
  <1>8. CASE LosePull(c)
    <2>1. NoPull \in Pulled
      BY DEF NoPull, Pulled, ServerType
    <2>2. PullType'
      BY <1>8, <2>1 DEF LosePull, PullType, Pulled
    <2>3. QED BY <1>1, <1>2, <2>2
  <1>9. QED BY <1>4, <1>5, <1>6, <1>7, <1>8 DEF Pull

LEMMA ResolveTypeOK ==
  ASSUME TypeOK, NEW r \in Resolvers, FindConflict(r) \/ Resolve(r)
  PROVE  TypeOK'
  <1> USE TypeParts, TypePartsNext DEF server, desktop, pulling
  <1>1. ServerType' /\ PushType' /\ QueueType' /\ PullType'
    BY DEF FindConflict, Resolve, ServerType, PushType, QueueType, Queued, PullType, Pulled
  <1>2. CASE FindConflict(r)
    BY <1>1, <1>2 DEF FindConflict, ConflictType
  <1>3. CASE Resolve(r)
    <2>1. resolve[r].of \in DOMAIN conflict
      BY <1>3 DEF Resolve, ConflictType
    <2>2. conflict' \in Seq(Disputed) /\ Len(conflict') = Len(conflict)
      <3>1. conflict[resolve[r].of] \in Disputed /\ resolve[r].choice \in Verdicts
        BY <2>1 DEF ConflictType
      <3>2. [conflict[resolve[r].of] EXCEPT !.status = "RESOLVED",
                                            !.resolution = resolve[r].choice] \in Disputed
        BY <3>1 DEF Disputed
      <3>3. QED BY <1>3, <2>1, <3>2 DEF Resolve, ConflictType
    <2>3. resolve' \in [Resolvers -> [of: 0 .. Len(conflict), choice: Verdicts]]
      <3>1. NoVerdict \in [of: 0 .. Len(conflict), choice: Verdicts]
        BY DEF ConflictType, NoVerdict, Verdicts
      <3>2. QED BY <1>3, <3>1 DEF Resolve, ConflictType
    <2>4. ConflictType'
      BY <2>2, <2>3 DEF ConflictType
    <2>5. QED BY <1>1, <2>4
  <1>4. QED BY <1>2, <1>3

-----------------------------------------------------------------------------
(* One step of each kind keeps the invariant. *)

\* Steps that leave the pushes alone, and of the queue at most bring a mutation
\* forward from its beginning, or back on the queue.
LEMMA KeptByOthers ==
  ASSUME SyncInv, TypeOK', Forward, push' = push, op' = op,
         \A m \in Mutations : queue'[m].status = "DONE" => queue[m].status = "DONE"
  PROVE  PushInv' /\ RecordedOnce' /\ DoneIsKept'
  BY PushesKept, DoneKept DEF SyncInv, RecordedOnce

LEMMA ConflictsKept ==
  ASSUME SyncInv, conflict' = conflict, resolve' = resolve
  PROVE  ResolveInv' /\ NeverMerged'
  BY DEF SyncInv, ResolveInv, ResolveOK, NeverMerged

LEMMA TouchStep ==
  ASSUME SyncInv, NEW e \in Entities, Touch(e)
  PROVE  SyncInv'
  <1> USE DEF Touch, desktop, pulling
  <1>1. TypeOK'
    BY DesktopTypeOK DEF SyncInv
  <1>2. Forward
    BY DEF Forward, SyncInv, TypeOK
  <1>3. PushInv' /\ RecordedOnce' /\ DoneIsKept'
    BY <1>1, <1>2, KeptByOthers
  <1>4. ResolveInv' /\ NeverMerged'
    BY ConflictsKept
  <1>5. QED BY <1>1, <1>3, <1>4 DEF SyncInv

LEMMA EnqueueStep ==
  ASSUME SyncInv, NEW x \in Mutations, EnqueueSyncOperation(x)
  PROVE  SyncInv'
  <1> USE DEF EnqueueSyncOperation, server, pulling
  <1>1. TypeOK'
    BY DesktopTypeOK DEF SyncInv
  <1>2. \A m \in Mutations : m # x => queue'[m] = queue[m]
    BY DEF SyncInv, TypeOK
  <1>3. queue[x].status = "NEW" /\ queue'[x].status = "QUEUED"
    BY DEF SyncInv, TypeOK
  <1>4. Forward
    BY <1>2, <1>3, QueueForward DEF SyncInv
  <1>5. PushInv' /\ RecordedOnce' /\ DoneIsKept'
    BY <1>1, <1>2, <1>3, <1>4, KeptByOthers
  <1>6. ResolveInv' /\ NeverMerged'
    BY ConflictsKept
  <1>7. QED BY <1>1, <1>5, <1>6 DEF SyncInv

LEMMA RecoverStep ==
  ASSUME SyncInv, NEW c \in Clients, Recover(c)
  PROVE  SyncInv'
  <1> USE DEF Recover, server, pulling
  <1>1. TypeOK'
    BY DesktopTypeOK DEF SyncInv
  <1>2. ASSUME NEW m \in Mutations
        PROVE  queue'[m] = queue[m] \/
                 (queue[m].status # "NEW" /\ queue'[m].status = "QUEUED" /\ queue'[m].base = queue[m].base)
    BY DEF SyncInv, TypeOK, Recovered, RowsOf
  <1>3. Forward
    BY <1>2, QueueForward DEF SyncInv
  <1>4. PushInv' /\ RecordedOnce' /\ DoneIsKept'
    BY <1>1, <1>2, <1>3, KeptByOthers
  <1>5. ResolveInv' /\ NeverMerged'
    BY ConflictsKept
  <1>6. QED BY <1>1, <1>4, <1>5 DEF SyncInv

LEMMA SendStep ==
  ASSUME SyncInv, NEW p \in Pushes, NEW c \in Clients, Send(p, c)
  PROVE  SyncInv'
  <1> DEFINE ms == RowsOf(c, "QUEUED")
  <1> USE DEF server, pulling
  <1>1. TypeOK'
    BY DesktopTypeOK DEF SyncInv
  <1>2. /\ push' = [push EXCEPT ![p] = [pc |-> "check", todo |-> SetToSeq(ms), sent |-> ms,
                                     heard |-> TRUE, stale |-> {m \in ms : IsStale(m)}]]
        /\ queue' = [m \in Mutations |-> IF m \in ms THEN [queue[m] EXCEPT !.status = "PROCESSING"]
                                        ELSE queue[m]]
        /\ UNCHANGED <<clock, version, op, conflict, mirror, since, pull, pulls, resolve>>
    BY DEF Send, Becomes
  <1>3. ms \subseteq Mutations /\ IsFiniteSet(ms)
    BY FS_Subset DEF RowsOf
  <1>4. \A m \in ms : queue[m].status = "QUEUED"
    BY DEF RowsOf
  <1> HIDE DEF ms
  <1>5. ASSUME NEW m \in Mutations
        PROVE  /\ m \notin ms => queue'[m] = queue[m]
               /\ m \in ms => queue'[m].status = "PROCESSING" /\ queue'[m].base = queue[m].base
    BY <1>2 DEF SyncInv, TypeOK
  <1>6. Forward
    BY <1>2, <1>4, <1>5 DEF Forward, SyncInv, TypeOK
  <1>7. PushOK(p)'
    <2>1. push'[p] = [pc |-> "check", todo |-> SetToSeq(ms), sent |-> ms,
                      heard |-> TRUE, stale |-> {m \in ms : IsStale(m)}]
      BY <1>2 DEF SyncInv, TypeOK
    <2>2. \A m \in ms : IsToDo(p, m)' /\ queue'[m].status # "NEW"
      BY <2>1, <1>3, <1>5, SeqOfSet DEF IsToDo
    <2>3. \A m \in ms : IsStale(m) => IsStale(m)'
      BY <1>2, <1>3, <1>5 DEF IsStale
    <2>4. QED BY <2>1, <2>2, <2>3 DEF PushOK
  <1>8. ASSUME NEW q \in Pushes, q # p PROVE PushOK(q)'
    BY <1>1, <1>2, <1>6, <1>8, PushKept DEF SyncInv, PushInv, TypeOK
  <1>9. RecordedOnce' /\ DoneIsKept'
    <2>1. \A m \in Mutations : queue'[m].status = "DONE" => queue[m].status = "DONE"
      BY <1>5
    <2>2. QED BY <1>2, <1>6, <2>1, DoneKept DEF SyncInv, RecordedOnce
  <1>10. ResolveInv' /\ NeverMerged'
    BY <1>2, ConflictsKept
  <1>11. QED BY <1>1, <1>7, <1>8, <1>9, <1>10 DEF SyncInv, PushInv

\* What a push writes besides is new, and what it has done with is settled.
LEMMA CheckStep ==
  ASSUME SyncInv, NEW p \in Pushes, Check(p)
  PROVE  SyncInv'
  <1> USE DEF Check, server, desktop, pulling
  <1>1. TypeOK'
    BY PushTypeOK DEF SyncInv, Serve
  <1>2. Forward
    BY QueueForward DEF SyncInv
  <1>3. /\ push'[p].todo = push[p].todo /\ push'[p].sent = push[p].sent
        /\ push'[p].stale = push[p].stale
        /\ push'[p].pc = IF Conflicts(Head(push[p].todo)) THEN "conflict" ELSE "insert"
        /\ \A q \in Pushes \ {p} : push'[q] = push[q]
    BY DEF SyncInv, TypeOK
  <1>4. PushOK(p)'
    <2>1. Head(push[p].todo) \in Versioned \/ ~Conflicts(Head(push[p].todo))
      BY DEF Conflicts, IsStale
    <2>2. ~Conflicts(Head(push[p].todo)) => Head(push[p].todo) \notin push[p].stale
      BY DEF SyncInv, PushInv, PushOK, Conflicts
    <2>3. \A m : (IsStale(m)' <=> IsStale(m)) /\ (Recorded(m)' <=> Recorded(m))
                 /\ (HasConflict(m)' <=> HasConflict(m)) /\ (IsToDo(p, m)' <=> IsToDo(p, m))
      BY <1>3 DEF IsStale, Recorded, HasConflict, IsToDo
    <2>4. PushOK(p) /\ queue' = queue
      BY DEF SyncInv, PushInv
    <2>5. QED BY <1>3, <2>1, <2>2, <2>3, <2>4 DEF PushOK
  <1>5. ASSUME NEW q \in Pushes, q # p PROVE PushOK(q)'
    BY <1>1, <1>2, <1>3, <1>5, PushKept DEF SyncInv, PushInv
  <1>6. RecordedOnce' /\ DoneIsKept'
    BY <1>2, DoneKept DEF SyncInv, RecordedOnce
  <1>7. ResolveInv' /\ NeverMerged'
    BY ConflictsKept
  <1>8. QED BY <1>1, <1>4, <1>5, <1>6, <1>7 DEF SyncInv, PushInv

\* The mutation a push goes on from is settled by then.
LEMMA ProceedOK ==
  ASSUME SyncInv, Forward, NEW p \in Pushes, Proceed(p), push[p].todo # <<>>,
         version' = version, queue' = queue,
         NEW h, h = Head(push[p].todo), Recorded(h)' \/ HasConflict(h)'
  PROVE  PushOK(p)'
  <1>1. push'[p] = NextOf(push[p])
    BY DEF Proceed, NextOf, SyncInv, TypeOK
  <1>2. push[p].todo \in Seq(Mutations)
    BY DEF SyncInv, TypeOK
  <1>3. /\ push'[p].todo = Tail(push[p].todo) /\ push'[p].pc = "check"
        /\ push'[p].sent = push[p].sent /\ push'[p].stale \subseteq push[p].stale
    BY <1>1 DEF NextOf, SyncInv, TypeOK
  <1>4. ASSUME NEW m \in push[p].sent
        PROVE  Recorded(m)' \/ HasConflict(m)' \/ IsToDo(p, m)'
    <2>1. Recorded(m) \/ HasConflict(m) \/ IsToDo(p, m)
      BY DEF SyncInv, PushInv, PushOK
    <2>2. Recorded(m) => Recorded(m)'
      BY DEF Recorded, Forward
    <2>3. HasConflict(m) => HasConflict(m)'
      BY DEF HasConflict, Forward
    <2>4. ASSUME IsToDo(p, m), m # h PROVE IsToDo(p, m)'
      <3>1. PICK i \in DOMAIN push[p].todo : push[p].todo[i] = m
        BY <2>4 DEF IsToDo
      <3>2. i \in 2 .. Len(push[p].todo)
        BY <1>2, <2>4, <3>1
      <3>3. i - 1 \in DOMAIN Tail(push[p].todo) /\ Tail(push[p].todo)[i - 1] = m
        BY <1>2, <3>1, <3>2
      <3>4. QED BY <1>3, <3>3 DEF IsToDo
    <2>5. QED BY <2>1, <2>2, <2>3, <2>4
  <1>5. \A m \in push[p].sent : queue'[m].status # "NEW"
    BY DEF SyncInv, PushInv, PushOK
  <1>6. \A m \in push[p].stale : IsStale(m)' /\ queue'[m].status # "NEW"
    BY DEF SyncInv, PushInv, PushOK, IsStale
  <1>7. QED BY <1>3, <1>4, <1>5, <1>6 DEF PushOK

LEMMA OpenConflictStep ==
  ASSUME SyncInv, NEW p \in Pushes, OpenConflict(p)
  PROVE  SyncInv'
  <1> USE DEF server, desktop, pulling
  <1>0. PICK m : m = Head(push[p].todo)
    OBVIOUS
  <1> DEFINE new == [of |-> m, status |-> "OPEN", resolution |-> "none"]
  <1>1. TypeOK'
    BY PushTypeOK DEF SyncInv, Serve
  <1>2. /\ conflict' = Append(conflict, new) /\ Proceed(p)
        /\ UNCHANGED <<clock, version, op, queue, lost, mirror, since, pull, pulls, resolve>>
    BY <1>0 DEF OpenConflict
  <1>3. conflict \in Seq([of: Versioned, status: {"OPEN", "RESOLVED"},
                          resolution: Verdicts \cup {"none"}])
    BY DEF SyncInv, TypeOK
  <1>4. /\ DOMAIN conflict' = 1 .. Len(conflict) + 1 /\ DOMAIN conflict = 1 .. Len(conflict)
        /\ \A i \in DOMAIN conflict : conflict'[i] = conflict[i]
        /\ conflict'[Len(conflict) + 1] = new
        /\ Len(conflict) \in Nat
    BY <1>2, <1>3
  <1> HIDE DEF new
  <1>5. \A e \in Entities : version[e] <= version'[e]
    BY <1>2 DEF SyncInv, TypeOK
  <1>6. Forward
    <2>1. \A i \in DOMAIN conflict : i \in DOMAIN conflict' /\ conflict'[i].of = conflict[i].of
      BY <1>4
    <2>2. QED BY <1>2, <1>5, <2>1 DEF Forward
  <1>7. HasConflict(m)'
    BY <1>4 DEF HasConflict, new
  <1>8. PushOK(p)'
    <2>1. push[p].todo # <<>>
      BY DEF OpenConflict, SyncInv, PushInv, PushOK
    <2>2. QED BY <1>0, <1>2, <1>6, <1>7, <2>1, ProceedOK
  <1>9. ASSUME NEW q \in Pushes, q # p PROVE PushOK(q)'
    <2>1. push'[q] = push[q]
      BY <1>2, <1>9 DEF Proceed, SyncInv, TypeOK
    <2>2. QED BY <1>1, <1>6, <2>1, PushKept DEF SyncInv, PushInv
  <1>10. RecordedOnce' /\ DoneIsKept'
    BY <1>2, <1>6, DoneKept DEF SyncInv, RecordedOnce
  <1>11. ResolveInv'
    <2>1. ASSUME NEW r \in Resolvers, resolve[r].of # 0 PROVE resolve[r].of \in DOMAIN conflict
      BY <1>4, <2>1 DEF SyncInv, TypeOK
    <2>2. QED BY <1>2, <1>4, <2>1 DEF SyncInv, ResolveInv, ResolveOK
  <1>12. NeverMerged'
    BY <1>4 DEF SyncInv, NeverMerged, new
  <1>13. QED BY <1>1, <1>8, <1>9, <1>10, <1>11, <1>12 DEF SyncInv, PushInv

LEMMA InsertStep ==
  ASSUME SyncInv, NEW p \in Pushes, Insert(p)
  PROVE  SyncInv'
  <1> USE DEF server, pulling
  <1>1. PICK m : m = Head(push[p].todo)
    OBVIOUS
  <1>2. TypeOK'
    BY PushTypeOK DEF SyncInv, Serve
  <1>3. UNCHANGED <<clock, version, conflict, queue, mirror, since, pull, pulls, resolve>>
    BY DEF Insert
  <1>4. op \subseteq op'
    BY DEF Insert
  <1>5. Forward
    <2>1. \A e \in Entities : version[e] <= version'[e]
      BY <1>3 DEF SyncInv, TypeOK
    <2>2. QED BY <1>3, <1>4, <2>1 DEF Forward
  <1>6. \A q \in Pushes \ {p} : push'[q] = push[q]
    BY DEF Insert, Proceed, Abort, SyncInv, TypeOK
  <1>7. PushOK(p)'
    <2>1. CASE Proceed(p)
      <3>1. CASE IsNew(m)
        <4>1. Recorded(m)'
          <5> DEFINE o == [mutation |-> m, push |-> p]
          <5>1. o \in op' /\ o.mutation = m
            BY <1>1, <3>1 DEF Insert
          <5>2. QED BY <5>1 DEF Recorded
        <4>2. push[p].todo # <<>>
          BY DEF Insert, SyncInv, PushInv, PushOK
        <4>3. QED BY <1>1, <1>3, <1>5, <2>1, <4>1, <4>2, ProceedOK
      <3>2. CASE ~IsNew(m)
        <4>1. Recorded(m) /\ Recorded(m)'
          BY <3>2, <1>4 DEF IsNew, Recorded
        <4>2. push[p].todo # <<>>
          BY DEF Insert, SyncInv, PushInv, PushOK
        <4>3. QED BY <1>1, <1>3, <1>5, <2>1, <4>1, <4>2, ProceedOK
      <3>3. QED BY <3>1, <3>2
    <2>2. CASE Abort(p)
      <3>1. push'[p] = NoPush
        BY <2>2 DEF Abort, SyncInv, TypeOK
      <3>2. QED BY <3>1 DEF PushOK, NoPush
    <2>3. QED BY <2>1, <2>2 DEF Insert
  <1>8. ASSUME NEW q \in Pushes, q # p PROVE PushOK(q)'
    BY <1>2, <1>5, <1>6, <1>8, PushKept DEF SyncInv, PushInv
  <1>9. RecordedOnce'
    <2>1. CASE op' = op
      BY <2>1 DEF SyncInv, RecordedOnce
    <2>2. CASE IsNew(m) /\ op' = op \cup {[mutation |-> m, push |-> p]}
      BY <2>2 DEF SyncInv, RecordedOnce, IsNew
    <2>3. QED BY <1>1, <2>1, <2>2 DEF Insert
  <1>10. DoneIsKept'
    BY <1>3, <1>5, DoneKept DEF SyncInv
  <1>11. ResolveInv' /\ NeverMerged'
    BY <1>3, ConflictsKept
  <1>12. QED BY <1>2, <1>7, <1>8, <1>9, <1>10, <1>11 DEF SyncInv, PushInv

\* All that was sent is settled when the push is through.
LEMMA AnswerStep ==
  ASSUME SyncInv, NEW p \in Pushes, Answer(p)
  PROVE  SyncInv'
  <1> USE DEF server, pulling
  <1>1. TypeOK'
    BY PushTypeOK DEF SyncInv, Serve
  <1>2. /\ push' = [push EXCEPT ![p] = NoPush] /\ push[p].todo = <<>>
        /\ UNCHANGED <<clock, version, op, conflict, lost, mirror, since, pull, pulls, resolve>>
    BY DEF Answer
  <1>3. ASSUME NEW m \in Mutations
        PROVE  \/ queue'[m] = queue[m]
               \/ m \in push[p].sent /\ queue'[m].status = "DONE" /\ queue'[m].base = queue[m].base
    <2>1. queue[m] \in Queued /\ queue \in [Mutations -> Queued]
      BY TypeParts DEF SyncInv, QueueType
    <2>2. CASE push[p].heard
      <3>1. queue'[m] = IF m \in push[p].sent THEN [queue[m] EXCEPT !.status = "DONE"] ELSE queue[m]
        BY <2>2 DEF Answer, Becomes, Results
      <3>2. QED BY <2>1, <3>1 DEF Queued
    <2>3. CASE ~push[p].heard
      BY <2>3 DEF Answer
    <2>4. QED BY <2>2, <2>3
  <1>4. Forward
    BY <1>2, <1>3, QueueForward DEF SyncInv
  <1>5. \A m \in push[p].sent : Recorded(m) \/ HasConflict(m)
    BY <1>2 DEF SyncInv, PushInv, PushOK, IsToDo
  <1>6. DoneIsKept'
    BY <1>2, <1>3, <1>5 DEF SyncInv, DoneIsKept, Recorded, HasConflict
  <1>7. PushOK(p)'
    <2>1. push'[p] = NoPush
      BY <1>2 DEF SyncInv, TypeOK
    <2>2. QED BY <2>1 DEF PushOK, NoPush
  <1>8. ASSUME NEW q \in Pushes, q # p PROVE PushOK(q)'
    <2>1. push'[q] = push[q]
      BY <1>2, <1>8 DEF SyncInv, TypeOK
    <2>2. QED BY <1>1, <1>4, <2>1, PushKept DEF SyncInv, PushInv
  <1>9. RecordedOnce'
    BY <1>2 DEF SyncInv, RecordedOnce
  <1>10. ResolveInv' /\ NeverMerged'
    BY <1>2, ConflictsKept
  <1>11. QED BY <1>1, <1>6, <1>7, <1>8, <1>9, <1>10 DEF SyncInv, PushInv

LEMMA FaultStep ==
  ASSUME SyncInv, NEW p \in Pushes, Die(p) \/ GiveUp(p)
  PROVE  SyncInv'
  <1> USE DEF server, pulling
  <1>1. TypeOK'
    BY PushTypeOK DEF SyncInv
  <1>2. /\ UNCHANGED <<clock, version, op, conflict, queue, mirror, since, pull, pulls, resolve>>
        /\ \A q \in Pushes \ {p} : push'[q] = push[q]
    BY DEF Die, Abort, GiveUp, SyncInv, TypeOK
  <1>3. Forward
    BY <1>2, QueueForward DEF SyncInv
  <1>4. PushOK(p)'
    <2>1. CASE Die(p)
      <3>1. push'[p] = NoPush
        BY <2>1 DEF Die, Abort, SyncInv, TypeOK
      <3>2. QED BY <3>1 DEF PushOK, NoPush
    <2>2. CASE GiveUp(p)
      <3>1. /\ push'[p].pc = push[p].pc /\ push'[p].todo = push[p].todo
            /\ push'[p].sent = push[p].sent /\ push'[p].stale = push[p].stale
        BY <2>2 DEF GiveUp, SyncInv, TypeOK
      <3>2. \A m : (IsStale(m)' <=> IsStale(m)) /\ (Recorded(m)' <=> Recorded(m))
                   /\ (HasConflict(m)' <=> HasConflict(m)) /\ (IsToDo(p, m)' <=> IsToDo(p, m))
        BY <1>2, <3>1 DEF IsStale, Recorded, HasConflict, IsToDo
      <3>3. PushOK(p)
        BY DEF SyncInv, PushInv
      <3>4. QED BY <1>2, <3>1, <3>2, <3>3 DEF PushOK
    <2>3. QED BY <2>1, <2>2
  <1>5. ASSUME NEW q \in Pushes, q # p PROVE PushOK(q)'
    BY <1>1, <1>2, <1>3, <1>5, PushKept DEF SyncInv, PushInv
  <1>6. RecordedOnce' /\ DoneIsKept'
    BY <1>2, <1>3, DoneKept DEF SyncInv, RecordedOnce
  <1>7. ResolveInv' /\ NeverMerged'
    BY <1>2, ConflictsKept
  <1>8. QED BY <1>1, <1>4, <1>5, <1>6, <1>7 DEF SyncInv, PushInv

\* A pull changes nothing but the mirror.
LEMMA PullStep ==
  ASSUME SyncInv, NEW c \in Clients, Pull(c)
  PROVE  SyncInv'
  <1> USE DEF server, desktop
  <1>1. TypeOK'
    BY PullTypeOK DEF SyncInv
  <1>2. UNCHANGED <<clock, version, op, conflict, push, queue, resolve>>
    BY DEF Pull, BeginPull, ReadType, ServerTime, ApplyPulledEntities, LosePull
  <1>3. Forward
    BY <1>2, QueueForward DEF SyncInv
  <1>4. PushInv' /\ RecordedOnce' /\ DoneIsKept'
    BY <1>1, <1>2, <1>3, KeptByOthers
  <1>5. ResolveInv' /\ NeverMerged'
    BY <1>2, ConflictsKept
  <1>6. QED BY <1>1, <1>4, <1>5 DEF SyncInv

LEMMA ResolveEffect ==
  ASSUME TypeOK, NEW r \in Resolvers, Resolve(r)
  PROVE  /\ resolve[r].of \in DOMAIN conflict /\ DOMAIN conflict' = DOMAIN conflict
         /\ \A i \in DOMAIN conflict :
              \/ conflict'[i] = conflict[i]
              \/ /\ i = resolve[r].of /\ conflict'[i].of = conflict[i].of
                 /\ conflict'[i].status = "RESOLVED" /\ conflict'[i].resolution = resolve[r].choice
         /\ \A q \in Resolvers :
              resolve'[q].of = 0 \/ resolve'[q] = resolve[q]
  <1> DEFINE k == resolve[r].of
             new == [conflict[k] EXCEPT !.status = "RESOLVED", !.resolution = resolve[r].choice]
  <1>1. conflict \in Seq(Disputed) /\ resolve \in [Resolvers -> [of: 0 .. Len(conflict), choice: Verdicts]]
    BY TypeParts DEF ConflictType
  <1>2. k \in DOMAIN conflict
    BY <1>1 DEF Resolve
  <1>3. conflict' = [conflict EXCEPT ![k] = new]
    BY DEF Resolve
  <1>4. conflict[k] \in Disputed
    BY <1>1, <1>2
  <1>5. new.of = conflict[k].of /\ new.status = "RESOLVED" /\ new.resolution = resolve[r].choice
    BY <1>4 DEF Disputed
  <1> HIDE DEF new
  <1>6. DOMAIN conflict' = DOMAIN conflict /\ conflict'[k] = new
        /\ \A i \in DOMAIN conflict : i # k => conflict'[i] = conflict[i]
    BY <1>1, <1>2, <1>3
  <1>7. \A q \in Resolvers : resolve'[q].of = 0 \/ resolve'[q] = resolve[q]
    BY <1>1 DEF Resolve, NoVerdict
  <1>8. QED BY <1>2, <1>5, <1>6, <1>7

\* Only what is chosen for a conflict is what it is resolved with.
LEMMA ResolverStep ==
  ASSUME SyncInv, NEW r \in Resolvers, FindConflict(r) \/ Resolve(r)
  PROVE  SyncInv'
  <1> USE DEF server, desktop, pulling
  <1>1. TypeOK'
    BY ResolveTypeOK DEF SyncInv
  <1>2. UNCHANGED <<clock, version, op, push, queue, mirror, pull>>
    BY DEF FindConflict, Resolve
  <1>3. /\ DOMAIN conflict' = DOMAIN conflict
        /\ \A i \in DOMAIN conflict : conflict'[i].of = conflict[i].of
    BY ResolveEffect DEF FindConflict, SyncInv
  <1>4. Forward
    <2>1. \A e \in Entities : version[e] <= version'[e]
      BY <1>2 DEF SyncInv, TypeOK
    <2>2. QED BY <1>2, <1>3, <2>1 DEF Forward
  <1>5. PushInv' /\ RecordedOnce' /\ DoneIsKept'
    BY <1>1, <1>2, <1>4, KeptByOthers
  <1>6. ResolveInv' /\ NeverMerged'
    <2>1. CASE FindConflict(r)
      <3>1. PICK i \in DOMAIN conflict, choice \in Resolutions[r] :
              /\ MayChoose(Type[EntityOf[conflict[i].of]], choice)
              /\ resolve' = [resolve EXCEPT ![r] = [of |-> i, choice |-> choice]]
              /\ conflict' = conflict
        BY <2>1 DEF FindConflict
      <3>2. ResolveInv'
        BY <3>1 DEF SyncInv, TypeOK, ResolveInv, ResolveOK
      <3>3. QED BY <3>1, <3>2 DEF SyncInv, NeverMerged
    <2>2. CASE Resolve(r)
      <3>1. resolve[r].of \in DOMAIN conflict /\ resolve[r].of # 0
        BY <2>2, ResolveEffect DEF Resolve, SyncInv
      <3>2. MayChoose(Type[EntityOf[conflict[resolve[r].of].of]], resolve[r].choice)
        BY <3>1 DEF SyncInv, ResolveInv, ResolveOK
      <3>3. resolve[r].choice \in Verdicts /\ "none" \notin Verdicts
        BY DEF SyncInv, TypeOK, Verdicts
      <3>4. ResolveInv'
        <4>1. ASSUME NEW q \in Resolvers, resolve'[q].of # 0
              PROVE  MayChoose(Type[EntityOf[conflict'[resolve'[q].of].of]], resolve'[q].choice)
          <5>1. resolve'[q].of = resolve[q].of /\ resolve'[q].choice = resolve[q].choice
            BY <2>2, <4>1, ResolveEffect DEF SyncInv
          <5>2. resolve[q].of \in DOMAIN conflict
            BY <4>1, <5>1 DEF SyncInv, TypeOK
          <5>3. QED BY <1>3, <4>1, <5>1, <5>2 DEF SyncInv, ResolveInv, ResolveOK
        <4>2. QED BY <4>1 DEF ResolveInv, ResolveOK, MayChoose
      <3>5. NeverMerged'
        BY <1>3, <2>2, <3>2, <3>3, ResolveEffect DEF SyncInv, NeverMerged, MayChoose
      <3>6. QED BY <3>4, <3>5
    <2>3. QED BY <2>1, <2>2
  <1>7. QED BY <1>1, <1>5, <1>6 DEF SyncInv

-----------------------------------------------------------------------------
LEMMA InitSyncInv == Init => SyncInv
  <1> SUFFICES ASSUME Init PROVE SyncInv
    OBVIOUS
  <1>1. TypeOK
    BY InitTypeOK
  <1>2. PushInv
    BY DEF Init, PushInv, PushOK, NoPush
  <1>3. ResolveInv /\ RecordedOnce /\ DoneIsKept /\ NeverMerged
    BY DEF Init, NoVerdict, ResolveInv, ResolveOK, RecordedOnce, DoneIsKept, NeverMerged
  <1>4. QED BY <1>1, <1>2, <1>3 DEF SyncInv

LEMMA NextSyncInv == SyncInv /\ [Next]_vars => SyncInv'
  <1> SUFFICES ASSUME SyncInv, [Next]_vars PROVE SyncInv'
    OBVIOUS
  <1>1. CASE Next
    BY <1>1, TouchStep, EnqueueStep, RecoverStep, PullStep, SendStep, CheckStep, OpenConflictStep,
       InsertStep, AnswerStep, FaultStep, ResolverStep DEF Next, Serve
  <1>2. CASE UNCHANGED vars
    BY <1>2 DEF vars, server, desktop, pulling, SyncInv, TypeOK, PushInv, PushOK, ResolveInv, ResolveOK,
                RecordedOnce, DoneIsKept, NeverMerged, Recorded, HasConflict, IsToDo,
                IsStale, MayChoose
  <1>3. QED BY <1>1, <1>2

\* The inductive invariant holds in every reachable state.
LEMMA SyncInvariant == Spec => []SyncInv
  BY InitSyncInv, NextSyncInv, PTL DEF Spec

\* Queue, mirrors, pushes and conflicts have the right types: what conflicts
\* has a base version.
THEOREM SyncTypeCorrect == Spec => []TypeOK
  BY SyncInvariant, PTL DEF SyncInv

\* A mutation is recorded once, however often it is pushed.
THEOREM SyncRecordsOnce == Spec => []RecordedOnce
  BY SyncInvariant, PTL DEF SyncInv

\* The local queue drops nothing the server has not kept.
THEOREM SyncKeepsDone == Spec => []DoneIsKept
  BY SyncInvariant, PTL DEF SyncInv

\* What is out of date when it is sent is never recorded.
THEOREM SyncRefusesStale == Spec => []StaleRefused
  <1>1. SyncInv => StaleRefused
    BY DEF SyncInv, PushInv, PushOK, StaleRefused
  <1>2. QED BY <1>1, SyncInvariant, PTL

\* No event or expense is merged, and decided is what is resolved.
THEOREM SyncNeverMerges == Spec => []NeverMerged
  BY SyncInvariant, PTL DEF SyncInv

-----------------------------------------------------------------------------
(* How often the server hears of a mutation: a conflict for it takes the   *)
(* place of a push that still had it to do, and each of those pushes is    *)
(* one that the desktop has counted.                                       *)

\* What a push has yet to do was sent with it, each mutation once.
ToDoOK(p) ==
  /\ \A i \in DOMAIN push[p].todo : push[p].todo[i] \in push[p].sent
  /\ \A i, j \in DOMAIN push[p].todo : push[p].todo[i] = push[p].todo[j] => i = j

Carriers(m) == {p \in Pushes : IsToDo(p, m)}

CountOK(m) ==
  /\ IsFiniteSet(Carriers(m))
  /\ Cardinality(ConflictsOf(m)) + Cardinality(Carriers(m)) <= TimesSent(m)

DeliveryInv == (\A p \in Pushes : ToDoOK(p)) /\ \A m \in Mutations : CountOK(m)

\* A push keeps what it has to do, has dealt with the first of it, or is over.
Advances(p) ==
  \/ push'[p].todo = push[p].todo /\ push'[p].sent = push[p].sent
  \/ /\ push[p].todo # <<>> /\ push'[p].todo = Tail(push[p].todo)
     /\ push'[p].sent = push[p].sent
  \/ push'[p].todo = <<>>

LEMMA TailOfToDo ==
  ASSUME TypeOK, NEW p \in Pushes, push[p].todo # <<>>, push'[p].todo = Tail(push[p].todo)
  PROVE  \A i \in DOMAIN push'[p].todo :
            i + 1 \in DOMAIN push[p].todo /\ push'[p].todo[i] = push[p].todo[i + 1] /\ i \in Nat \ {0}
  <1>1. push[p].todo \in Seq(Mutations)
    BY DEF TypeOK
  <1>2. QED BY <1>1

LEMMA ToDoKept ==
  ASSUME TypeOK, NEW p \in Pushes, ToDoOK(p), Advances(p)
  PROVE  ToDoOK(p)' /\ \A m : IsToDo(p, m)' => IsToDo(p, m)
  <1>1. CASE push'[p].todo = push[p].todo /\ push'[p].sent = push[p].sent
    BY <1>1 DEF ToDoOK, IsToDo
  <1>2. CASE push[p].todo # <<>> /\ push'[p].todo = Tail(push[p].todo) /\ push'[p].sent = push[p].sent
    <2>1. \A i \in DOMAIN push'[p].todo :
             i + 1 \in DOMAIN push[p].todo /\ push'[p].todo[i] = push[p].todo[i + 1] /\ i \in Nat \ {0}
      BY <1>2, TailOfToDo
    <2>2. ToDoOK(p)'
      <3>1. \A i \in DOMAIN push'[p].todo : push'[p].todo[i] \in push'[p].sent
        BY <1>2, <2>1 DEF ToDoOK
      <3>2. ASSUME NEW i \in DOMAIN push'[p].todo, NEW j \in DOMAIN push'[p].todo,
                   push'[p].todo[i] = push'[p].todo[j]
            PROVE  i = j
        <4>1. i + 1 = j + 1
          BY <2>1, <3>2 DEF ToDoOK
        <4>2. QED BY <2>1, <4>1
      <3>3. QED BY <3>1, <3>2 DEF ToDoOK
    <2>3. QED BY <2>1, <2>2 DEF IsToDo
  <1>3. CASE push'[p].todo = <<>>
    BY <1>3 DEF ToDoOK, IsToDo
  <1>4. QED BY <1>1, <1>2, <1>3 DEF Advances

\* The first is dealt with for good.
LEMMA HeadIsDone ==
  ASSUME TypeOK, NEW p \in Pushes, ToDoOK(p), push[p].todo # <<>>,
         push'[p].todo = Tail(push[p].todo), NEW h, h = Head(push[p].todo)
  PROVE  IsToDo(p, h) /\ ~IsToDo(p, h)'
  <1>1. push[p].todo \in Seq(Mutations)
    BY DEF TypeOK
  <1>2. 1 \in DOMAIN push[p].todo /\ push[p].todo[1] = h
    BY <1>1
  <1>3. ASSUME NEW i \in DOMAIN push'[p].todo, push'[p].todo[i] = h PROVE FALSE
    <2>1. i + 1 \in DOMAIN push[p].todo /\ push[p].todo[i + 1] = h /\ i \in Nat \ {0}
      BY <1>3, TailOfToDo
    <2>2. i + 1 = 1
      BY <1>2, <2>1 DEF ToDoOK
    <2>3. QED BY <2>1, <2>2
  <1>4. QED BY <1>2, <1>3 DEF IsToDo

LEMMA CountTyped ==
  ASSUME TypeOK, NEW m \in Mutations
  PROVE  IsFiniteSet(ConflictsOf(m)) /\ Cardinality(ConflictsOf(m)) \in Nat /\ TimesSent(m) \in Nat
  <1>1. Len(conflict) \in Nat /\ DOMAIN conflict = 1 .. Len(conflict)
    BY TypeParts DEF ConflictType
  <1>2. IsFiniteSet(1 .. Len(conflict)) /\ ConflictsOf(m) \in SUBSET (1 .. Len(conflict))
    BY <1>1, FS_Interval DEF ConflictsOf
  <1>3. queue[m].retries \in Nat
    BY DEF TypeOK
  <1>4. QED BY <1>2, <1>3, FS_Subset, FS_CardinalityType DEF TimesSent

LEMMA SentTyped ==
  ASSUME TypeOK', NEW m \in Mutations
  PROVE  TimesSent(m)' \in Nat
  <1>1. queue'[m].retries \in Nat
    BY DEF TypeOK
  <1>2. QED BY <1>1 DEF TimesSent

LEMMA LocalRowTyped ==
  ASSUME TypeOK, NEW m \in Mutations
  PROVE  queue[m] \in Queued /\ queue[m].retries \in Nat
  <1>1. queue[m] \in Queued
    BY TypeParts DEF QueueType
  <1>2. QED BY <1>1 DEF Queued

\* No new conflict, and nothing more to do.
LEMMA CountKept ==
  ASSUME TypeOK, TypeOK', NEW m \in Mutations, CountOK(m), ConflictsOf(m)' = ConflictsOf(m),
         Carriers(m)' \subseteq Carriers(m), TimesSent(m) <= TimesSent(m)'
  PROVE  CountOK(m)'
  <1>1. /\ IsFiniteSet(Carriers(m)') /\ Cardinality(Carriers(m)') <= Cardinality(Carriers(m))
        /\ Cardinality(Carriers(m)') \in Nat /\ Cardinality(Carriers(m)) \in Nat
    BY FS_Subset, FS_CardinalityType DEF CountOK
  <1>2. Cardinality(ConflictsOf(m)) \in Nat /\ TimesSent(m) \in Nat
    BY CountTyped
  <1>3. TimesSent(m)' \in Nat
    BY SentTyped
  <1>4. QED BY <1>1, <1>2, <1>3 DEF CountOK
\* Nothing is lost from the count: of the desktop only Recover takes a mutation
\* back from a push, and it counts.
LEMMA TimesSentKept ==
  ASSUME TypeOK, TypeOK', NEW m \in Mutations, queue'[m].retries >= queue[m].retries,
         queue[m].status \in {"PROCESSING", "DONE"} =>
            queue'[m].status \in {"PROCESSING", "DONE"} \/ queue'[m].retries > queue[m].retries
  PROVE  TimesSent(m) <= TimesSent(m)'
  <1>1. queue[m].retries \in Nat /\ queue'[m].retries \in Nat
    BY DEF TypeOK
  <1>2. QED BY <1>1 DEF TimesSent

\* Steps that open no conflict and send nothing.
LEMMA DeliveryKept ==
  ASSUME SyncInv, SyncInv', DeliveryInv, \A p \in Pushes : Advances(p),
         \A m \in Mutations : ConflictsOf(m)' = ConflictsOf(m) /\ TimesSent(m) <= TimesSent(m)'
  PROVE  DeliveryInv'
  <1>1. \A p \in Pushes : ToDoOK(p)' /\ \A m : IsToDo(p, m)' => IsToDo(p, m)
    BY ToDoKept DEF SyncInv, DeliveryInv
  <1>2. ASSUME NEW m \in Mutations PROVE CountOK(m)'
    <2>1. Carriers(m)' \subseteq Carriers(m)
      BY <1>1 DEF Carriers
    <2>2. QED BY <2>1, CountKept DEF SyncInv, DeliveryInv
  <1>3. QED BY <1>1, <1>2 DEF DeliveryInv

LEMMA SameQueue ==
  ASSUME TypeOK, queue' = queue, NEW m \in Mutations
  PROVE  TimesSent(m) <= TimesSent(m)'
  <1>1. TimesSent(m)' = TimesSent(m)
    BY DEF TimesSent
  <1>2. QED BY <1>1, CountTyped

LEMMA SameConflicts ==
  ASSUME DOMAIN conflict' = DOMAIN conflict, \A i \in DOMAIN conflict : conflict'[i].of = conflict[i].of
  PROVE  \A m : ConflictsOf(m)' = ConflictsOf(m)
  BY DEF ConflictsOf

\* Everything but Send, OpenConflict and steps of pushes.
LEMMA RestDelivery ==
  ASSUME SyncInv, SyncInv', DeliveryInv, push' = push,
         DOMAIN conflict' = DOMAIN conflict, \A i \in DOMAIN conflict : conflict'[i].of = conflict[i].of,
         \A m \in Mutations : TimesSent(m) <= TimesSent(m)'
  PROVE  DeliveryInv'
  <1>1. \A p \in Pushes : Advances(p)
    BY DEF Advances
  <1>2. QED BY <1>1, SameConflicts, DeliveryKept

LEMMA DesktopDelivery ==
  ASSUME SyncInv, SyncInv', DeliveryInv,
         \/ \E e \in Entities : Touch(e)
         \/ \E m \in Mutations : EnqueueSyncOperation(m)
         \/ \E c \in Clients : Recover(c) \/ Pull(c)
         \/ \E r \in Resolvers : FindConflict(r) \/ Resolve(r)
  PROVE  DeliveryInv'
  <1> USE DEF server, desktop, pulling
  <1>0. TypeOK /\ TypeOK'
    BY DEF SyncInv
  <1>1. CASE \/ \E e \in Entities : Touch(e)
             \/ \E c \in Clients : Pull(c)
    <2>1. UNCHANGED <<push, queue, conflict>>
      BY <1>1 DEF Touch, Pull, BeginPull, ReadType, ServerTime, ApplyPulledEntities, LosePull
    <2>2. QED BY <1>0, <2>1, SameQueue, RestDelivery
  <1>2. ASSUME NEW x \in Mutations, EnqueueSyncOperation(x) PROVE DeliveryInv'
    <2>1. UNCHANGED <<push, conflict>>
      BY <1>2 DEF EnqueueSyncOperation
    <2>2. ASSUME NEW m \in Mutations PROVE TimesSent(m) <= TimesSent(m)'
      <3>1. queue'[m] = queue[m] \/ (queue[m].status = "NEW" /\ queue'[m].retries = queue[m].retries)
        BY <1>0, <1>2 DEF EnqueueSyncOperation, TypeOK
      <3>2. queue[m].retries \in Nat
        BY <1>0 DEF TypeOK
      <3>3. QED BY <1>0, <3>1, <3>2, TimesSentKept
    <2>3. QED BY <2>1, <2>2, RestDelivery
  <1>3. ASSUME NEW c \in Clients, Recover(c) PROVE DeliveryInv'
    <2>1. UNCHANGED <<push, conflict>>
      BY <1>3 DEF Recover
    <2>2. ASSUME NEW m \in Mutations PROVE TimesSent(m) <= TimesSent(m)'
      <3>1. queue[m].retries \in Nat /\ queue[m] \in Queued
        BY <1>0, LocalRowTyped
      <3>2. queue'[m] = queue[m] \/ queue'[m] = Recovered(queue[m])
        BY <1>3 DEF Recover
      <3>3. queue'[m] = queue[m] \/ queue'[m].retries = queue[m].retries + 1
        BY <3>1, <3>2 DEF Recovered, Queued
      <3>4. QED BY <1>0, <3>1, <3>3, TimesSentKept
    <2>3. QED BY <2>1, <2>2, RestDelivery
  <1>4. ASSUME NEW r \in Resolvers, FindConflict(r) \/ Resolve(r) PROVE DeliveryInv'
    <2>1. UNCHANGED <<push, queue>>
      BY <1>4 DEF FindConflict, Resolve
    <2>2. DOMAIN conflict' = DOMAIN conflict /\ \A i \in DOMAIN conflict : conflict'[i].of = conflict[i].of
      BY <1>0, <1>4, ResolveEffect DEF FindConflict
    <2>3. QED BY <1>0, <2>1, <2>2, SameQueue, RestDelivery
  <1>5. QED BY <1>1, <1>2, <1>3, <1>4

\* A conflict takes the place of the push that opens it.
LEMMA OpenConflictDelivery ==
  ASSUME SyncInv, SyncInv', DeliveryInv, NEW p \in Pushes, OpenConflict(p)
  PROVE  DeliveryInv'
  <1>0. TypeOK /\ TypeOK'
    BY DEF SyncInv
  <1>1. PICK h : h = Head(push[p].todo)
    OBVIOUS
  <1> DEFINE n == Len(conflict) + 1
             new == [of |-> h, status |-> "OPEN", resolution |-> "none"]
  <1>2. /\ push[p].todo # <<>> /\ conflict' = Append(conflict, new) /\ queue' = queue
        /\ Proceed(p)
    BY <1>1 DEF OpenConflict, desktop, SyncInv, PushInv, PushOK
  <1>3. /\ push'[p].todo = Tail(push[p].todo) /\ push'[p].sent = push[p].sent
        /\ \A q \in Pushes \ {p} : push'[q] = push[q]
    BY <1>0, <1>2 DEF Proceed, TypeOK
  <1>4. new.of = h
    OBVIOUS
  <1>5. /\ conflict \in Seq(Disputed) /\ Len(conflict) \in Nat
        /\ DOMAIN conflict = 1 .. Len(conflict)
    BY <1>0, TypeParts DEF ConflictType
  <1> HIDE DEF new
  <1>6. /\ DOMAIN conflict' = DOMAIN conflict \cup {n} /\ n \notin DOMAIN conflict
        /\ conflict'[n].of = h /\ \A i \in DOMAIN conflict : conflict'[i] = conflict[i]
    BY <1>2, <1>4, <1>5
  <1>7. \A q \in Pushes : Advances(q) /\ ToDoOK(q)
    BY <1>2, <1>3 DEF Advances, DeliveryInv
  <1>8. \A q \in Pushes : ToDoOK(q)' /\ \A m : IsToDo(q, m)' => IsToDo(q, m)
    BY <1>0, <1>7, ToDoKept
  <1>9. ASSUME NEW m \in Mutations PROVE CountOK(m)'
    <2>1. TimesSent(m) <= TimesSent(m)' /\ CountOK(m)
      BY <1>0, <1>2, SameQueue DEF DeliveryInv
    <2>2. Carriers(m)' \subseteq Carriers(m)
      BY <1>8 DEF Carriers
    <2>3. CASE m # h
      <3>1. ConflictsOf(m)' = ConflictsOf(m)
        BY <1>6, <2>3 DEF ConflictsOf
      <3>2. QED BY <1>0, <2>1, <2>2, <3>1, CountKept
    <2>4. CASE m = h
      <3>1. ConflictsOf(m)' = ConflictsOf(m) \cup {n} /\ n \notin ConflictsOf(m)
        BY <1>6, <2>4 DEF ConflictsOf
      <3>2. IsToDo(p, m) /\ ~IsToDo(p, m)'
        BY <1>0, <1>1, <1>2, <1>3, <1>7, <2>4, HeadIsDone
      <3>3. Carriers(m)' \subseteq Carriers(m) \ {p} /\ p \in Carriers(m)
        BY <2>2, <3>2 DEF Carriers
      <3>4. /\ IsFiniteSet(Carriers(m)) /\ Cardinality(Carriers(m)) \in Nat
            /\ Cardinality(ConflictsOf(m)) + Cardinality(Carriers(m)) <= TimesSent(m)
        BY <2>1, FS_CardinalityType DEF CountOK
      <3>5. /\ IsFiniteSet(Carriers(m) \ {p})
            /\ Cardinality(Carriers(m) \ {p}) = Cardinality(Carriers(m)) - 1
        BY <3>3, <3>4, FS_RemoveElement
      <3>6. /\ IsFiniteSet(Carriers(m)') /\ Cardinality(Carriers(m)') \in Nat
            /\ Cardinality(Carriers(m)') <= Cardinality(Carriers(m)) - 1
        BY <3>3, <3>5, FS_Subset, FS_CardinalityType
      <3>7. IsFiniteSet(ConflictsOf(m)) /\ Cardinality(ConflictsOf(m)) \in Nat /\ TimesSent(m) \in Nat
        BY <1>0, CountTyped
      <3>8. Cardinality(ConflictsOf(m)') = Cardinality(ConflictsOf(m)) + 1
        BY <3>1, <3>7, FS_AddElement
      <3>9. TimesSent(m)' \in Nat
        BY <1>0, SentTyped
      <3>10. QED BY <2>1, <3>4, <3>6, <3>7, <3>8, <3>9 DEF CountOK
    <2>5. QED BY <2>3, <2>4
  <1>10. QED BY <1>8, <1>9 DEF DeliveryInv

\* A push that is sent has been counted.
LEMMA SendDelivery ==
  ASSUME SyncInv, SyncInv', DeliveryInv, NEW p \in Pushes, NEW c \in Clients, Send(p, c)
  PROVE  DeliveryInv'
  <1> DEFINE ms == RowsOf(c, "QUEUED")
  <1>0. TypeOK /\ TypeOK'
    BY DEF SyncInv
  <1>1. /\ push' = [push EXCEPT ![p] = [pc |-> "check", todo |-> SetToSeq(ms), sent |-> ms,
                                        heard |-> TRUE, stale |-> {m \in ms : IsStale(m)}]]
        /\ queue' = [m \in Mutations |-> IF m \in ms THEN [queue[m] EXCEPT !.status = "PROCESSING"]
                                        ELSE queue[m]]
        /\ conflict' = conflict
    BY DEF Send, Becomes
  <1>2. ms \subseteq Mutations /\ IsFiniteSet(ms) /\ \A m \in ms : queue[m].status = "QUEUED"
    BY FS_Subset DEF RowsOf
  <1> HIDE DEF ms
  <1>3. /\ push'[p].todo = SetToSeq(ms) /\ push'[p].sent = ms
        /\ \A q \in Pushes \ {p} : push'[q] = push[q]
    BY <1>0, <1>1 DEF TypeOK
  <1>4. /\ SetToSeq(ms) \in Seq(ms)
        /\ \A i, j \in DOMAIN SetToSeq(ms) : SetToSeq(ms)[i] = SetToSeq(ms)[j] => i = j
    BY <1>2, SeqOfSet
  <1>5. ToDoOK(p)' /\ \A m : IsToDo(p, m)' => m \in ms
    BY <1>3, <1>4 DEF ToDoOK, IsToDo
  <1>6. \A q \in Pushes \ {p} : ToDoOK(q)' /\ \A m : IsToDo(q, m)' => IsToDo(q, m)
    BY <1>3 DEF DeliveryInv, ToDoOK, IsToDo
  <1>7. ASSUME NEW m \in Mutations PROVE CountOK(m)'
    <2>1. ConflictsOf(m)' = ConflictsOf(m)
      BY <1>1, SameConflicts
    <2>2. /\ IsFiniteSet(Carriers(m)) /\ Cardinality(Carriers(m)) \in Nat
          /\ Cardinality(ConflictsOf(m)) + Cardinality(Carriers(m)) <= TimesSent(m)
      BY FS_CardinalityType DEF DeliveryInv, CountOK
    <2>3. Cardinality(ConflictsOf(m)) \in Nat /\ TimesSent(m) \in Nat /\ queue[m].retries \in Nat
      BY <1>0, CountTyped, LocalRowTyped
    <2>4. CASE m \notin ms
      <3>1. Carriers(m)' \subseteq Carriers(m)
        BY <1>5, <1>6, <2>4 DEF Carriers
      <3>2. TimesSent(m)' = TimesSent(m)
        BY <1>1, <2>4 DEF TimesSent
      <3>3. TimesSent(m) <= TimesSent(m)'
        BY <2>3, <3>2
      <3>4. QED BY <1>0, <2>1, <3>1, <3>3, CountKept DEF DeliveryInv
    <2>5. CASE m \in ms
      <3>1. Carriers(m)' \subseteq Carriers(m) \cup {p}
        BY <1>6 DEF Carriers
      <3>2. queue'[m].status = "PROCESSING" /\ queue'[m].retries = queue[m].retries
        <4>1. queue'[m] = [queue[m] EXCEPT !.status = "PROCESSING"]
          BY <1>1, <2>5
        <4>2. QED BY <1>0, <4>1, LocalRowTyped DEF Queued
      <3>3. queue[m].status = "QUEUED"
        BY <1>2, <2>5
      <3>4. TimesSent(m)' = TimesSent(m) + 1
        BY <2>3, <3>2, <3>3 DEF TimesSent
      <3>5. /\ IsFiniteSet(Carriers(m) \cup {p}) /\ Cardinality(Carriers(m) \cup {p}) \in Nat
            /\ Cardinality(Carriers(m) \cup {p}) <= Cardinality(Carriers(m)) + 1
        <4>1. IsFiniteSet(Carriers(m) \cup {p}) /\ Cardinality(Carriers(m) \cup {p}) =
                IF p \in Carriers(m) THEN Cardinality(Carriers(m)) ELSE Cardinality(Carriers(m)) + 1
          BY <2>2, FS_AddElement
        <4>2. QED BY <2>2, <4>1
      <3>6. /\ IsFiniteSet(Carriers(m)') /\ Cardinality(Carriers(m)') \in Nat
            /\ Cardinality(Carriers(m)') <= Cardinality(Carriers(m) \cup {p})
        BY <3>1, <3>5, FS_Subset, FS_CardinalityType
      <3>7. QED BY <2>1, <2>2, <2>3, <3>4, <3>5, <3>6 DEF CountOK
    <2>6. QED BY <2>4, <2>5
  <1>8. QED BY <1>5, <1>6, <1>7 DEF DeliveryInv

LEMMA PushDelivery ==
  ASSUME SyncInv, SyncInv', DeliveryInv, NEW p \in Pushes,
         Check(p) \/ Insert(p) \/ Answer(p) \/ Die(p) \/ GiveUp(p)
  PROVE  DeliveryInv'
  <1> USE DEF server, desktop, pulling
  <1>0. TypeOK /\ TypeOK'
    BY DEF SyncInv
  <1>1. conflict' = conflict /\ \A m \in Mutations : ConflictsOf(m)' = ConflictsOf(m)
    BY SameConflicts DEF Check, Insert, Answer, Die, GiveUp
  <1>2. \A q \in Pushes \ {p} : push'[q] = push[q]
    BY <1>0 DEF Check, Insert, Proceed, Abort, Answer, Die, GiveUp, TypeOK
  <1>3. Advances(p)
    <2>1. CASE Check(p) \/ GiveUp(p)
      <3>1. push[p] \in Pushed /\ push \in [Pushes -> Pushed]
        BY <1>0, TypeParts DEF PushType
      <3>2. \E pc, heard : push'[p] = [push[p] EXCEPT !.pc = pc] \/ push'[p] = [push[p] EXCEPT !.heard = heard]
        BY <2>1, <3>1 DEF Check, GiveUp
      <3>3. push'[p].todo = push[p].todo /\ push'[p].sent = push[p].sent
        BY <3>1, <3>2 DEF Pushed
      <3>4. QED BY <3>3 DEF Advances
    <2>2. CASE push' = [push EXCEPT ![p] = NoPush]
      BY <1>0, <2>2 DEF Advances, NoPush, TypeOK
    <2>3. CASE Insert(p) /\ Proceed(p)
      <3>1. push[p].todo # <<>>
        BY <2>3 DEF Insert, SyncInv, PushInv, PushOK
      <3>2. QED BY <1>0, <2>3, <3>1 DEF Proceed, Advances, TypeOK
    <2>4. QED BY <2>1, <2>2, <2>3 DEF Insert, Answer, Die, Abort
  <1>4. \A q \in Pushes : Advances(q)
    BY <1>2, <1>3 DEF Advances
  <1>5. ASSUME NEW m \in Mutations PROVE TimesSent(m) <= TimesSent(m)'
    <2>1. CASE queue' = queue
      BY <1>0, <2>1, SameQueue
    <2>2. CASE Answer(p)
      <3>1. queue[m] \in Queued /\ queue[m].retries \in Nat
        BY <1>0, LocalRowTyped
      <3>2. queue'[m] = queue[m] \/ queue'[m] = [queue[m] EXCEPT !.status = "DONE"]
        BY <2>2 DEF Answer, Becomes
      <3>3. queue'[m] = queue[m] \/ (queue'[m].status = "DONE" /\ queue'[m].retries = queue[m].retries)
        BY <3>1, <3>2 DEF Queued
      <3>4. QED BY <1>0, <3>1, <3>3, TimesSentKept
    <2>3. QED BY <2>1, <2>2 DEF Check, Insert, Die, GiveUp
  <1>6. QED BY <1>1, <1>4, <1>5, DeliveryKept

LEMMA DeliveryInit == Init => DeliveryInv
  <1> SUFFICES ASSUME Init PROVE DeliveryInv
    OBVIOUS
  <1>1. \A p \in Pushes : ToDoOK(p) /\ \A m : ~IsToDo(p, m)
    BY DEF Init, NoPush, ToDoOK, IsToDo
  <1>2. ASSUME NEW m \in Mutations PROVE CountOK(m)
    <2>1. ConflictsOf(m) = {} /\ Carriers(m) = {} /\ TimesSent(m) = 0
      BY <1>1 DEF Init, ConflictsOf, Carriers, TimesSent
    <2>2. IsFiniteSet({}) /\ Cardinality({}) = 0
      BY FS_EmptySet
    <2>3. QED BY <2>1, <2>2 DEF CountOK
  <1>3. QED BY <1>1, <1>2 DEF DeliveryInv

LEMMA DeliveryNext == SyncInv /\ SyncInv' /\ DeliveryInv /\ [Next]_vars => DeliveryInv'
  <1> SUFFICES ASSUME SyncInv, SyncInv', DeliveryInv, [Next]_vars PROVE DeliveryInv'
    OBVIOUS
  <1>1. CASE Next
    BY <1>1, DesktopDelivery, SendDelivery, OpenConflictDelivery, PushDelivery DEF Next, Serve
  <1>2. CASE UNCHANGED vars
    <2>1. UNCHANGED <<push, queue, conflict>>
      BY <1>2 DEF vars, server, desktop
    <2>2. QED BY <2>1, SameQueue, RestDelivery DEF SyncInv
  <1>3. QED BY <1>1, <1>2

LEMMA DeliveryInvariant == Spec => []DeliveryInv
  BY DeliveryInit, DeliveryNext, SyncInvariant, PTL DEF Spec

\* A mutation never has more conflicts than its desktop has counted pushes of
\* it: one push opens one at most, a push that a recovery forgot included.
THEOREM SyncConflictsCounted == Spec => []ConflictsCounted
  <1>1. SyncInv /\ DeliveryInv => ConflictsCounted
    <2> SUFFICES ASSUME SyncInv, DeliveryInv, NEW m \in Mutations
                 PROVE  Cardinality(ConflictsOf(m)) <= TimesSent(m)
      BY DEF ConflictsCounted
    <2>1. /\ Cardinality(Carriers(m)) \in Nat
          /\ Cardinality(ConflictsOf(m)) + Cardinality(Carriers(m)) <= TimesSent(m)
      BY FS_CardinalityType DEF DeliveryInv, CountOK
    <2>2. Cardinality(ConflictsOf(m)) \in Nat /\ TimesSent(m) \in Nat
      BY CountTyped DEF SyncInv
    <2>3. QED BY <2>1, <2>2
  <1>2. QED BY <1>1, SyncInvariant, DeliveryInvariant, PTL

-----------------------------------------------------------------------------
(* Offline work keeps the promises of Outbox. *)

LEMMA CasesKept == conflict' = conflict => Cases' = Cases
  BY DEF Cases

\* The part of the state Outbox has, when nothing else of it changes.
LEMMA BoxStutters ==
  ASSUME UNCHANGED <<op, conflict>>, Entered' = Entered, Settled' = Settled
  PROVE  UNCHANGED Box!vars
  BY CasesKept DEF Box!vars

LEMMA QueueOfBox ==
  ASSUME \A m \in Mutations : (queue'[m].status = "NEW" <=> queue[m].status = "NEW")
                              /\ (queue'[m].status = "DONE" <=> queue[m].status = "DONE")
  PROVE  Entered' = Entered /\ Settled' = Settled
  BY DEF Entered, Settled

LEMMA DesktopOfBox ==
  ASSUME SyncInv,
         \/ \E e \in Entities : Touch(e)
         \/ \E c \in Clients : Recover(c) \/ Pull(c)
         \/ \E p \in Pushes : Check(p) \/ Die(p) \/ GiveUp(p) \/ \E c \in Clients : Send(p, c)
         \/ \E r \in Resolvers : FindConflict(r)
  PROVE  UNCHANGED Box!vars
  <1> USE DEF server, desktop, pulling
  <1>1. UNCHANGED <<op, conflict>>
    BY DEF Touch, Recover, Pull, BeginPull, ReadType, ServerTime, ApplyPulledEntities, LosePull, Check, Die, GiveUp, Send, FindConflict
  <1>2. \A m \in Mutations : (queue'[m].status = "NEW" <=> queue[m].status = "NEW")
                             /\ (queue'[m].status = "DONE" <=> queue[m].status = "DONE")
    <2>1. CASE queue' = queue
      BY <2>1
    <2>2. ASSUME NEW c \in Clients, Recover(c), NEW m \in Mutations
          PROVE  /\ queue'[m].status = "NEW" <=> queue[m].status = "NEW"
                 /\ queue'[m].status = "DONE" <=> queue[m].status = "DONE"
      <3>1. queue[m] \in Queued
        BY TypeParts DEF SyncInv, QueueType
      <3>2. \/ queue'[m] = queue[m]
            \/ queue[m].status = "PROCESSING" /\ queue'[m] = Recovered(queue[m])
        BY <2>2 DEF Recover, RowsOf
      <3>3. Recovered(queue[m]).status = "QUEUED"
        BY <3>1 DEF Recovered, Queued
      <3>4. QED BY <3>2, <3>3
    <2>3. ASSUME NEW p \in Pushes, NEW c \in Clients, Send(p, c), NEW m \in Mutations
          PROVE  /\ queue'[m].status = "NEW" <=> queue[m].status = "NEW"
                 /\ queue'[m].status = "DONE" <=> queue[m].status = "DONE"
      <3>1. queue[m] \in Queued
        BY TypeParts DEF SyncInv, QueueType
      <3>2. \/ queue'[m] = queue[m]
            \/ queue[m].status = "QUEUED" /\ queue'[m] = [queue[m] EXCEPT !.status = "PROCESSING"]
        BY <2>3 DEF Send, RowsOf, Becomes
      <3>3. [queue[m] EXCEPT !.status = "PROCESSING"].status = "PROCESSING"
        BY <3>1 DEF Queued
      <3>4. QED BY <3>2, <3>3
    <2>4. QED BY <2>1, <2>2, <2>3 DEF Touch, Pull, BeginPull, ReadType, ServerTime, ApplyPulledEntities, LosePull, Check, Die, GiveUp, FindConflict
  <1>3. QED BY <1>1, <1>2, QueueOfBox, BoxStutters

LEMMA EnqueueOfBox ==
  ASSUME SyncInv, NEW m \in Mutations, EnqueueSyncOperation(m)
  PROVE  Box!Enter
  <1>1. queue[m].status = "NEW" /\ UNCHANGED <<op, conflict>>
    BY DEF EnqueueSyncOperation
  <1>2. queue'[m].status = "QUEUED" /\ \A x \in Mutations : x # m => queue'[x] = queue[x]
    BY DEF EnqueueSyncOperation, SyncInv, TypeOK
  <1>3. m \in Mutations \ Entered /\ Entered' = Entered \cup {m} /\ Settled' = Settled
    BY <1>1, <1>2 DEF Entered, Settled
  <1>4. QED BY <1>1, <1>3, CasesKept DEF Box!Enter

\* The first of what a push has to do was entered.
LEMMA HeadEntered ==
  ASSUME SyncInv, DeliveryInv, NEW p \in Pushes, push[p].todo # <<>>
  PROVE  Head(push[p].todo) \in Entered
  <1>1. push[p].todo \in Seq(Mutations) /\ push[p].sent \subseteq Mutations
    BY DEF SyncInv, TypeOK
  <1>2. 1 \in DOMAIN push[p].todo /\ Head(push[p].todo) = push[p].todo[1]
    BY <1>1
  <1>3. Head(push[p].todo) \in push[p].sent
    BY <1>2 DEF DeliveryInv, ToDoOK
  <1>4. QED BY <1>1, <1>3 DEF SyncInv, PushInv, PushOK, Entered

LEMMA InsertOfBox ==
  ASSUME SyncInv, DeliveryInv, NEW p \in Pushes, Insert(p)
  PROVE  Box!Record \/ UNCHANGED Box!vars
  <1>1. PICK m : m = Head(push[p].todo)
    OBVIOUS
  <1>2. UNCHANGED <<conflict, queue>> /\ Cases' = Cases /\ Entered' = Entered /\ Settled' = Settled
    BY CasesKept DEF Insert, Entered, Settled
  <1>3. m \in Entered
    BY <1>1, HeadEntered DEF Insert, SyncInv, PushInv, PushOK
  <1>4. CASE IsNew(m)
    <2>1. op' = op \cup {[mutation |-> m, push |-> p]}
      BY <1>1, <1>4 DEF Insert
    <2>2. QED BY <1>2, <1>3, <1>4, <2>1 DEF IsNew, Box!Record, Box!IsRecorded
  <1>5. CASE ~IsNew(m)
    BY <1>1, <1>2, <1>5 DEF Insert, Box!vars
  <1>6. QED BY <1>4, <1>5

LEMMA OpenConflictOfBox ==
  ASSUME SyncInv, DeliveryInv, NEW p \in Pushes, OpenConflict(p)
  PROVE  Box!Dispute
  <1>1. PICK m : m = Head(push[p].todo)
    OBVIOUS
  <1> DEFINE n == Len(conflict) + 1
             row == [of |-> m, status |-> "OPEN", resolution |-> "none"]
             new == [case |-> n, of |-> m, outcome |-> "none"]
  <1>2. conflict' = Append(conflict, row) /\ UNCHANGED <<op, queue>>
    BY <1>1 DEF OpenConflict, desktop
  <1>3. m \in Entered
    BY <1>1, HeadEntered DEF OpenConflict, SyncInv, PushInv, PushOK
  <1>4. row.of = m /\ row.status = "OPEN"
    OBVIOUS
  <1>5. conflict \in Seq(Disputed) /\ Len(conflict) \in Nat /\ DOMAIN conflict = 1 .. Len(conflict)
    BY TypeParts DEF SyncInv, ConflictType
  <1> HIDE DEF row
  <1>6. /\ DOMAIN conflict' = DOMAIN conflict \cup {n} /\ n \notin DOMAIN conflict
        /\ conflict'[n] = row /\ \A i \in DOMAIN conflict : conflict'[i] = conflict[i]
    BY <1>2, <1>5
  <1>7. Cases' = Cases \cup {new}
    BY <1>4, <1>6 DEF Cases
  <1>8. /\ new \in [case: Nat, of: Entered, outcome: {"none"}]
        /\ new.case = n /\ \A c \in Cases : c.case # new.case
    BY <1>3, <1>5, <1>6 DEF Cases
  <1> HIDE DEF new
  <1>9. new \in Cases' \ Cases
    BY <1>7, <1>8
  <1>10. Entered' = Entered /\ Settled' = Settled
    BY <1>2 DEF Entered, Settled
  <1>11. QED BY <1>2, <1>7, <1>8, <1>9, <1>10 DEF Box!Dispute, Box!Undecided

LEMMA AnswerOfBox ==
  ASSUME SyncInv, SyncInv', NEW p \in Pushes, Answer(p)
  PROVE  Box!Settle
  <1>1. UNCHANGED <<op, conflict>>
    BY DEF Answer
  <1>2. ASSUME NEW m \in Mutations
        PROVE  /\ queue'[m].status = "NEW" <=> queue[m].status = "NEW"
               /\ queue[m].status = "DONE" => queue'[m].status = "DONE"
    <2>1. queue[m] \in Queued
      BY TypeParts DEF SyncInv, QueueType
    <2>2. \/ queue'[m] = queue[m]
          \/ m \in push[p].sent /\ queue'[m] = [queue[m] EXCEPT !.status = "DONE"]
      BY DEF Answer, Becomes, Results
    <2>3. [queue[m] EXCEPT !.status = "DONE"].status = "DONE"
      BY <2>1 DEF Queued
    <2>4. m \in push[p].sent => queue[m].status # "NEW"
      BY DEF SyncInv, PushInv, PushOK
    <2>5. QED BY <2>2, <2>3, <2>4
  <1>3. Entered' = Entered /\ Settled \subseteq Settled'
    BY <1>2 DEF Entered, Settled
  <1>4. ASSUME NEW m \in Settled' PROVE Box!IsRecorded(m) \/ Box!IsDisputed(m)
    <2>1. m \in Mutations /\ queue'[m].status = "DONE"
      BY DEF Settled
    <2>2. (\E o \in op' : o.mutation = m) \/ (\E i \in DOMAIN conflict' : conflict'[i].of = m)
      BY <2>1 DEF SyncInv, DoneIsKept, HasConflict
    <2>3. ASSUME NEW i \in DOMAIN conflict, conflict[i].of = m PROVE \E c \in Cases : c.of = m
      <3> DEFINE c == [case |-> i, of |-> conflict[i].of,
                       outcome |-> IF conflict[i].status = "OPEN" THEN "none" ELSE conflict[i].resolution]
      <3>1. c \in Cases /\ c.of = m
        BY <2>3 DEF Cases
      <3>2. QED BY <3>1
    <2>4. QED BY <1>1, <2>2, <2>3 DEF Box!IsRecorded, Box!IsDisputed
  <1>5. QED BY <1>1, <1>3, <1>4, CasesKept DEF Box!Settle

LEMMA ResolveOfBox ==
  ASSUME SyncInv, NEW r \in Resolvers, Resolve(r)
  PROVE  Box!Decide
  <1>1. PICK k : k = resolve[r].of
    OBVIOUS
  <1>2. PICK v : v = resolve[r].choice
    OBVIOUS
  <1> DEFINE Case(i) == [case |-> i, of |-> conflict[i].of,
               outcome |-> IF conflict[i].status = "OPEN" THEN "none" ELSE conflict[i].resolution]
             After(i) == [case |-> i, of |-> conflict'[i].of,
               outcome |-> IF conflict'[i].status = "OPEN" THEN "none" ELSE conflict'[i].resolution]
             old == Case(k)
             new == [old EXCEPT !.outcome = v]
  <1>3. UNCHANGED <<op, queue>> /\ k # 0
    BY <1>1 DEF Resolve, desktop
  <1>4. /\ k \in DOMAIN conflict /\ DOMAIN conflict' = DOMAIN conflict
        /\ \A i \in DOMAIN conflict : i # k => conflict'[i] = conflict[i]
        /\ conflict'[k].of = conflict[k].of
    BY <1>1, ResolveEffect DEF SyncInv
  <1>5. conflict'[k].status = "RESOLVED" /\ conflict'[k].resolution = v
    <2>1. k \in DOMAIN conflict /\ conflict \in Seq(Disputed)
          /\ resolve \in [Resolvers -> [of: 0 .. Len(conflict), choice: Verdicts]]
      BY <1>4, TypeParts DEF SyncInv, ConflictType
    <2>2. conflict[k] \in Disputed
      BY <2>1
    <2>3. conflict' = [conflict EXCEPT ![k] = [conflict[k] EXCEPT !.status = "RESOLVED", !.resolution = v]]
      BY <1>1, <1>2 DEF Resolve
    <2>4. conflict'[k] = [conflict[k] EXCEPT !.status = "RESOLVED", !.resolution = v]
      BY <2>1, <2>3
    <2>5. QED BY <2>2, <2>4 DEF Disputed
  <1>6. v \in Verdicts
    BY <1>2, TypeParts DEF SyncInv, ConflictType
  <1>7. v = "MERGE_SAFE_FIELDS" => conflict[k].of \notin Protected
    BY <1>1, <1>2, <1>3 DEF SyncInv, ResolveInv, ResolveOK, MayChoose, Protected
  <1>8. old.of = conflict[k].of /\ new = After(k)
    BY <1>4, <1>5
  <1>9. \A i \in DOMAIN conflict : i # k => After(i) = Case(i)
    BY <1>4
  <1>10. Cases = {Case(i) : i \in DOMAIN conflict} /\ Cases' = {After(i) : i \in DOMAIN conflict}
    BY <1>4 DEF Cases
  <1>11. \A i, j \in DOMAIN conflict : Case(i) = Case(j) => i = j
    OBVIOUS
  <1> HIDE DEF Case, After
  <1>12. old \in Cases
    BY <1>4, <1>10
  <1>13. Cases' = (Cases \ {old}) \cup {new}
    BY <1>4, <1>8, <1>9, <1>10, <1>11
  <1>14. Entered' = Entered /\ Settled' = Settled
    BY <1>3 DEF Entered, Settled
  <1> HIDE DEF old
  <1>15. QED BY <1>3, <1>6, <1>7, <1>8, <1>12, <1>13, <1>14 DEF Box!Decide

\* Every behaviour of the queue, the pushes and the resolvers is one of Outbox:
\* a mutation is recorded once, is settled only when it is on record or in
\* dispute, and nothing protected is merged.
THEOREM SyncImplementsOutbox == Spec => ImplementsOutbox
  <1>1. Init => Box!Init
    BY DEF Init, Box!Init, Entered, Settled, Cases
  <1>2. ASSUME SyncInv, SyncInv', DeliveryInv, Next
        PROVE  Box!Next \/ UNCHANGED Box!vars
    BY <1>2, DesktopOfBox, EnqueueOfBox, InsertOfBox, OpenConflictOfBox, AnswerOfBox, ResolveOfBox
       DEF Next, Serve, Box!Next
  <1>3. ASSUME UNCHANGED vars PROVE UNCHANGED Box!vars
    BY <1>3, BoxStutters DEF vars, desktop, Entered, Settled
  <1>4. SyncInv /\ SyncInv' /\ DeliveryInv /\ [Next]_vars => [Box!Next]_(Box!vars)
    BY <1>2, <1>3
  <1>5. QED BY <1>1, <1>4, SyncInvariant, DeliveryInvariant, PTL DEF Spec, ImplementsOutbox, Box!Spec
=============================================================================
