-------------------------------- MODULE Sync --------------------------------
(***************************************************************************)
(* Offline work: the desktop keeps mutations in a local queue and a mirror *)
(* of the server's rows; the server records pushed mutations, or opens a   *)
(* conflict when a row changed under them, and serves pulls.               *)
(*                                                                         *)
(* The desktop has the queue, its recovery and the mirror; the loop that   *)
(* pushes and pulls is not written yet.  Its actions, marked "driver", are *)
(* the least such a loop can do.                                           *)
(***************************************************************************)
EXTENDS Integers, Sequences, FiniteSets, SequencesExt

CONSTANTS
  Clients, Mutations, Entities,
  ClientOf, EntityOf,   \* of a mutation: whose it is, and which row it changes
  Versioned,            \* the mutations pushed with a baseVersion
  Type,                 \* Type[e]: the entity type of row e
  Pushes,               \* requests the server can be working on, numbered
  Resolvers,            \* users who resolve conflicts
  Resolutions,          \* what they may choose, [Resolvers -> SUBSET Verdicts]
  Limit,                \* rows of one type that a pull returns, at most
  MaxClock,             \* bound: times at which a row changes
  MaxRetries,           \* bound: recoveries of a local row
  MaxPulls              \* bound: pulls of one client

Types == {"Event", "BroadcastDevice", "SimCard", "Router", "Expense"}
Verdicts == {"SERVER_WINS", "CLIENT_RETRY", "MANUAL_REVIEW", "MERGE_SAFE_FIELDS"}

\* Of the types with versions, those whose name begins with one of
\* neverMergePrefixes.
NeverMerge == {"Event", "Expense"}

ASSUME SyncConstantsOK ==
  /\ ClientOf \in [Mutations -> Clients] /\ EntityOf \in [Mutations -> Entities]
  /\ Versioned \subseteq Mutations /\ Type \in [Entities -> Types]
  /\ Resolutions \in [Resolvers -> SUBSET Verdicts]
  /\ IsFiniteSet(Mutations)
  /\ {Limit, MaxRetries, MaxPulls} \subseteq Nat /\ MaxClock \in Nat \ {0}

ASSUME PushesNumbered == Pushes \subseteq Nat

VARIABLES
  clock, version,  \* the server's time, and updatedAt of its rows
  op,              \* the SyncOperation table: mutations, and the push that recorded them
  conflict,        \* the SyncConflict table
  push,            \* what the server does for a push
  queue,           \* the local queue: a mutation's row
  mirror, since,   \* updatedAt in the local rows' payloads; serverTime of the last pull
  pull,            \* the pull under way: types to read, versions received (0: none)
  resolve,         \* the conflict a resolver has found
  lost,            \* history: clients that missed the answer to a push
  pulls

server == <<clock, version>>
desktop == <<queue, lost>>
pulling == <<mirror, since, pull, pulls>>
vars == <<server, op, conflict, push, desktop, pulling, resolve>>

\* A push: the mutations to go, all that were sent, whether the client still
\* waits, and (history) which of those to go were out of date when sent.
NoPush == [pc |-> "idle", todo |-> <<>>, sent |-> {}, heard |-> FALSE, stale |-> {}]
NoPull == [pc |-> "idle", left |-> {}, got |-> [e \in Entities |-> 0], time |-> 0]
NoVerdict == [of |-> 0, choice |-> "MANUAL_REVIEW"]

Init ==
  /\ clock = 1 /\ version = [e \in Entities |-> 1]
  /\ op = {} /\ conflict = <<>>
  /\ push = [p \in Pushes |-> NoPush]
  /\ queue = [m \in Mutations |-> [status |-> "NEW", base |-> 0, retries |-> 0]]
  /\ mirror = [c \in Clients |-> [e \in Entities |-> 1]]
  /\ since = [c \in Clients |-> 0]
  /\ pull = [c \in Clients |-> NoPull]
  /\ resolve = [r \in Resolvers |-> NoVerdict]
  /\ lost = {}
  /\ pulls = [c \in Clients |-> 0]

\* Somebody else writes a row; its time may be that of the write before.
Touch(e) ==
  /\ clock' \in {clock, clock + 1} /\ clock' <= MaxClock
  /\ version' = [version EXCEPT ![e] = clock']
  /\ UNCHANGED <<op, conflict, push, desktop, pulling, resolve>>

(***************************************************************************)
(* The local queue.                                                        *)
(***************************************************************************)
\* The base comes with the mutation, if it has one; driver: the version in the
\* local payload.
EnqueueSyncOperation(m) ==
  /\ queue[m].status = "NEW"
  /\ queue' = [queue EXCEPT ![m].status = "QUEUED",
                            ![m].base = IF m \in Versioned THEN mirror[ClientOf[m]][EntityOf[m]] ELSE 0]
  /\ UNCHANGED <<server, op, conflict, push, lost, pulling, resolve>>

RowsOf(c, status) == {m \in Mutations : ClientOf[m] = c /\ queue[m].status = status}
Waits(c) == \E p \in Pushes : push[p].heard /\ \E m \in push[p].sent : ClientOf[m] = c

Becomes(ms, status) ==
  queue' = [m \in Mutations |-> IF m \in ms THEN [queue[m] EXCEPT !.status = status] ELSE queue[m]]

\* Mutant: a recovery does not count.
RecoveredUncounted(row) == [row EXCEPT !.status = "QUEUED"]

Recovered(row) == [row EXCEPT !.status = "QUEUED", !.retries = @ + 1]

\* recoverCorruptedQueue, after an answer was lost.
Recover(c) ==
  /\ ~Waits(c)
  /\ RowsOf(c, "PROCESSING") # {}
  /\ \A m \in RowsOf(c, "PROCESSING") : queue[m].retries < MaxRetries
  /\ queue' = [m \in Mutations |->
       IF m \in RowsOf(c, "PROCESSING") THEN Recovered(queue[m]) ELSE queue[m]]
  /\ UNCHANGED <<server, op, conflict, push, lost, pulling, resolve>>

IsStale(m) == m \in Versioned /\ version[EntityOf[m]] > queue[m].base

\* Driver: the queued rows of a client are pushed together, in a request that
\* takes the first free number.
Send(p, c) ==
  LET ms == RowsOf(c, "QUEUED") IN
  /\ push[p].pc = "idle" /\ \A q \in Pushes : push[q].pc = "idle" => p <= q
  /\ ms # {} /\ ~Waits(c)
  /\ push' = [push EXCEPT ![p] = [pc |-> "check", todo |-> SetToSeq(ms), sent |-> ms,
                                     heard |-> TRUE, stale |-> {m \in ms : IsStale(m)}]]
  /\ Becomes(ms, "PROCESSING")
  /\ UNCHANGED <<server, op, conflict, lost, pulling, resolve>>

(***************************************************************************)
(* push: one mutation after the other, no transaction around them.         *)
(***************************************************************************)
\* Mutant: a row that changed once since is not out of date.
ConflictsLater(m) == m \in Versioned /\ version[EntityOf[m]] > queue[m].base + 1

\* Mutant: a mutation without a base conflicts as well.
ConflictsUnversioned(m) == version[EntityOf[m]] > queue[m].base

\* detectConflict: the row is newer than the mutation's base.
Conflicts(m) == IsStale(m)

Check(p) ==
  /\ push[p].pc = "check" /\ push[p].todo # <<>>
  /\ push' = [push EXCEPT ![p].pc = IF Conflicts(Head(push[p].todo)) THEN "conflict" ELSE "insert"]
  /\ UNCHANGED <<server, op, conflict, desktop, pulling, resolve>>

Proceed(p) ==
  push' = [push EXCEPT ![p].pc = "check", ![p].todo = Tail(@),
                       ![p].stale = @ \ {Head(push[p].todo)}]

OpenConflict(p) ==
  /\ push[p].pc = "conflict"
  /\ conflict' = Append(conflict, [of |-> Head(push[p].todo), status |-> "OPEN",
                                   resolution |-> "none"])
  /\ Proceed(p)
  /\ UNCHANGED <<server, op, desktop, pulling, resolve>>

\* SyncOperation is unique in clientId and clientMutationId.
IsNew(m) == ~\E o \in op : o.mutation = m

\* The client learns of no result of a push that fails halfway.
Abort(p) ==
  /\ push' = [push EXCEPT ![p] = NoPush]
  /\ lost' = lost \cup (IF push[p].heard THEN {ClientOf[m] : m \in push[p].sent} ELSE {})

Insert(p) ==
  LET m == Head(push[p].todo) IN
  /\ push[p].pc = "insert"
  /\ IF IsNew(m)
     THEN op' = op \cup {[mutation |-> m, push |-> p]} /\ Proceed(p) /\ UNCHANGED lost
     ELSE Abort(p) /\ UNCHANGED op
  /\ UNCHANGED <<server, conflict, queue, pulling, resolve>>

\* Mutant: the conflicts are not among the results.
ResultsRecorded(p) == {m \in push[p].sent : \E o \in op : o.mutation = m}

\* The answer lists a result for every mutation sent, a conflict or not.
Results(p) == push[p].sent

Answer(p) ==
  /\ push[p].pc = "check" /\ push[p].todo = <<>>
  /\ push' = [push EXCEPT ![p] = NoPush]
  /\ IF push[p].heard THEN Becomes(Results(p), "DONE") ELSE UNCHANGED queue
  /\ UNCHANGED <<server, op, conflict, lost, pulling, resolve>>

\* The server dies, or a statement fails.
Die(p) ==
  /\ push[p].pc # "idle"
  /\ Abort(p)
  /\ UNCHANGED <<server, op, conflict, queue, pulling, resolve>>

\* The client stops waiting, the server does not notice.
GiveUp(p) ==
  /\ push[p].heard
  /\ push' = [push EXCEPT ![p].heard = FALSE]
  /\ lost' = lost \cup {ClientOf[m] : m \in push[p].sent}
  /\ UNCHANGED <<server, op, conflict, queue, pulling, resolve>>

(***************************************************************************)
(* pull: one query per type, the time afterwards, and row after row into   *)
(* the mirror.                                                             *)
(***************************************************************************)
\* Driver: ask for what changed since the last pull.
BeginPull(c) ==
  /\ pull[c] = NoPull /\ pulls[c] < MaxPulls
  /\ pulls' = [pulls EXCEPT ![c] = @ + 1]
  /\ pull' = [pull EXCEPT ![c].pc = "read", ![c].left = Range(Type)]
  /\ UNCHANGED <<server, op, conflict, push, desktop, mirror, since, resolve>>

\* Which rows of a type come back when there are too many is not determined.
ReadType(c, t) ==
  LET changed == {e \in Entities : Type[e] = t /\ version[e] > since[c]} IN
  /\ t \in pull[c].left
  /\ \E es \in SUBSET changed :
       /\ Cardinality(es) = Min({Limit, Cardinality(changed)})
       /\ pull' = [pull EXCEPT ![c].left = @ \ {t},
                               ![c].got = [e \in Entities |-> IF e \in es THEN version[e] ELSE @[e]]]
  /\ UNCHANGED <<server, op, conflict, push, desktop, mirror, since, pulls, resolve>>

\* serverTime is taken when everything has been read.
ServerTime(c) ==
  /\ pull[c].pc = "read" /\ pull[c].left = {}
  /\ pull' = [pull EXCEPT ![c].pc = "apply", ![c].time = clock]
  /\ UNCHANGED <<server, op, conflict, push, desktop, mirror, since, pulls, resolve>>

\* Driver: row after row is stored, and the next pull goes on from serverTime,
\* unless the desktop stops before the last one.  A local row's own updated_at,
\* the time on the desktop, is read by nothing.
ApplyPulledEntities(c) ==
  LET got == {e \in Entities : pull[c].got[e] # 0} IN
  /\ pull[c].pc = "apply"
  /\ \E stored \in SUBSET got :
       /\ mirror' = [mirror EXCEPT ![c] = [e \in Entities |->
            IF e \in stored THEN pull[c].got[e] ELSE @[e]]]
       /\ since' = [since EXCEPT ![c] = IF stored = got THEN pull[c].time ELSE @]
  /\ pull' = [pull EXCEPT ![c] = NoPull]
  /\ UNCHANGED <<server, op, conflict, push, desktop, pulls, resolve>>

\* The answer is lost.
LosePull(c) ==
  /\ pull[c].pc = "read"
  /\ pull' = [pull EXCEPT ![c] = NoPull]
  /\ UNCHANGED <<server, op, conflict, push, desktop, mirror, since, pulls, resolve>>

(***************************************************************************)
(* resolve: find the open conflict, then update it by its id.              *)
(***************************************************************************)
\* Mutant: only the exact names of the prefixes are protected.
MayChooseLax(type, choice) == choice = "MERGE_SAFE_FIELDS" => type # "Event"

MayChoose(type, choice) == choice = "MERGE_SAFE_FIELDS" => type \notin NeverMerge

FindConflict(r) ==
  /\ resolve[r].of = 0
  /\ \E i \in DOMAIN conflict, choice \in Resolutions[r] :
       /\ conflict[i].status = "OPEN"
       /\ MayChoose(Type[EntityOf[conflict[i].of]], choice)
       /\ resolve' = [resolve EXCEPT ![r] = [of |-> i, choice |-> choice]]
  /\ UNCHANGED <<server, op, conflict, push, desktop, pulling>>

Resolve(r) ==
  /\ resolve[r].of # 0
  /\ conflict' = [conflict EXCEPT ![resolve[r].of].status = "RESOLVED",
                                  ![resolve[r].of].resolution = resolve[r].choice]
  /\ resolve' = [resolve EXCEPT ![r] = NoVerdict]
  /\ UNCHANGED <<server, op, push, desktop, pulling>>

Serve(p) == Check(p) \/ OpenConflict(p) \/ Insert(p) \/ Answer(p)

Pull(c) ==
  \/ BeginPull(c) \/ ServerTime(c) \/ ApplyPulledEntities(c) \/ LosePull(c)
  \/ \E t \in Types : ReadType(c, t)

Next ==
  \/ \E e \in Entities : Touch(e)
  \/ \E m \in Mutations : EnqueueSyncOperation(m)
  \/ \E c \in Clients : Recover(c) \/ Pull(c)
  \/ \E p \in Pushes : Serve(p) \/ Die(p) \/ GiveUp(p) \/ \E c \in Clients : Send(p, c)
  \/ \E r \in Resolvers : FindConflict(r) \/ Resolve(r)

\* The driver keeps pushing what is queued, and the server works on pushes.
Spec ==
  /\ Init /\ [][Next]_vars
  /\ \A p \in Pushes : WF_vars(Serve(p))
  /\ \A c \in Clients : WF_vars(\E p \in Pushes : Send(p, c))

(***************************************************************************)
(* Properties.                                                             *)
(***************************************************************************)
TypeOK ==
  /\ clock \in 1 .. MaxClock /\ version \in [Entities -> 1 .. clock]
  /\ op \subseteq [mutation: Mutations, push: Pushes]
  /\ conflict \in Seq([of: Versioned, status: {"OPEN", "RESOLVED"}, resolution: Verdicts \cup {"none"}])
  /\ push \in [Pushes -> [pc: {"idle", "check", "conflict", "insert"}, todo: Seq(Mutations),
                          sent: SUBSET Mutations, heard: BOOLEAN, stale: SUBSET Mutations]]
  /\ queue \in [Mutations -> [status: {"NEW", "QUEUED", "PROCESSING", "DONE"},
                              base: 0 .. clock, retries: 0 .. MaxRetries]]
  /\ mirror \in [Clients -> [Entities -> 1 .. clock]] /\ since \in [Clients -> 0 .. clock]
  /\ pull \in [Clients -> [pc: {"idle", "read", "apply"}, left: SUBSET Types,
                           got: [Entities -> 0 .. clock], time: 0 .. clock]]
  /\ resolve \in [Resolvers -> [of: 0 .. Len(conflict), choice: Verdicts]]
  /\ lost \subseteq Clients
  /\ pulls \in [Clients -> 0 .. MaxPulls]

\* However often a mutation is pushed, by pushes that overlap or follow a lost
\* answer, it is recorded once.
RecordedOnce == \A o, q \in op : o.mutation = q.mutation => o = q

HasConflict(m) == \E i \in DOMAIN conflict : conflict[i].of = m

\* A local row counts as done only if the server keeps it, as an operation or
\* as a conflict: neither crashes nor recoveries lose a mutation.
DoneIsKept ==
  \A m \in Mutations : queue[m].status = "DONE" => (\E o \in op : o.mutation = m) \/ HasConflict(m)

\* A mutation that is out of date when it is first sent is never recorded, also
\* if the pull it is based on missed the change: recorded for a stale base are
\* only mutations whose row changed while they were under way.
StaleRefused ==
  \A p \in Pushes : push[p].pc = "insert" => Head(push[p].todo) \notin push[p].stale

\* No event or expense is merged, and a conflict is decided if and only if it
\* is resolved, whoever resolves it at the same time.
NeverMerged ==
  \A i \in DOMAIN conflict :
    /\ conflict[i].resolution = "MERGE_SAFE_FIELDS" => Type[EntityOf[conflict[i].of]] \notin NeverMerge
    /\ conflict[i].status = "RESOLVED" <=> conflict[i].resolution # "none"

\* A mutation has no more conflicts than its desktop has sent it, recoveries
\* that sent it again included: no push opens two for it.
ConflictsOf(m) == {i \in DOMAIN conflict : conflict[i].of = m}

TimesSent(m) == queue[m].retries + (IF queue[m].status \in {"PROCESSING", "DONE"} THEN 1 ELSE 0)

ConflictsCounted == \A m \in Mutations : Cardinality(ConflictsOf(m)) <= TimesSent(m)

\* The disputes and the mutations that Outbox is about, as the tables of the
\* server and the local queues have them.
Cases ==
  {[case |-> i, of |-> conflict[i].of,
    outcome |-> IF conflict[i].status = "OPEN" THEN "none" ELSE conflict[i].resolution]
     : i \in DOMAIN conflict}

Entered == {m \in Mutations : queue[m].status # "NEW"}
Settled == {m \in Mutations : queue[m].status = "DONE"}
Protected == {m \in Mutations : Type[EntityOf[m]] \in NeverMerge}

Box == INSTANCE Outbox WITH
  entered <- Entered, recorded <- op, cases <- Cases, settled <- Settled

\* Pushes that overlap, fail halfway or are sent again after a lost answer, and
\* resolvers who decide at the same time, keep the promises of Outbox.
ImplementsOutbox == Box!Spec

\* Every mutation on a local queue is settled, unless its client missed the
\* answer to a push: then the unique index refuses what was recorded, and all
\* that is pushed with it.
EveryMutationSettles ==
  \A m \in Mutations :
    queue[m].status = "QUEUED" ~> (queue[m].status = "DONE" \/ ClientOf[m] \in lost)
=============================================================================
