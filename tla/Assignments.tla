----------------------------- MODULE Assignments -----------------------------
(***************************************************************************)
(* The assignment engine of the API: assign, bulk-assign, release and      *)
(* reassign requests that run concurrently against PostgreSQL, each made   *)
(* of the reads and writes AssignmentsService and AvailabilityService      *)
(* perform, with event edits and administrative status changes in between. *)
(*                                                                         *)
(* A request reads committed state one query at a time.  The writes of a   *)
(* transaction become visible together, when it commits; the checks        *)
(* repeated inside a transaction go through this.prisma, not tx, so they   *)
(* too read committed state.                                               *)
(***************************************************************************)
EXTENDS Integers, Sequences

CONSTANTS
  Requests,       \* calls of the four endpoints, each made at most once
  MaxItems,       \* longest list a bulk request carries
  Events, Resources,
  ResourceType,   \* ResourceType[r]: OPERATOR, DEVICE, SIM or ROUTER
  Unfit,          \* the operators not ACTIVE, the assets not fit, at the start
  Schedules,      \* the schedules an event may be given
  DtoRanges,      \* the (partial) ranges a request may ask for
  DtoStatuses,    \* the statuses a request may ask for
  Bulks,          \* the lists of items a bulk request may carry
  Maintenance,    \* Maintenance[r]: the maintenance windows of r
  AdminStatuses,  \* what PATCH /devices|sims|routers/:id/status may set
  MaxEdits,       \* bound: administrative changes in one behaviour
  AuditMayFail,   \* whether an audit or timeline write after a commit can fail
  NoTime,         \* a bound the request leaves out
  NoRow           \* an assignment that does not exist

AssignmentStatus == {"RESERVED", "ACTIVE", "RELEASED", "CANCELLED", "COMPLETED"}
BlockingStatuses == {"RESERVED", "ACTIVE"}

\* Mutant: release no longer insists on a status that ends the assignment.
AnyStatus == AssignmentStatus

ReleaseStatuses == {"RELEASED", "CANCELLED", "COMPLETED"}
ResourceStatus  == {"AVAILABLE", "ASSIGNED", "MAINTENANCE", "LOST", "RETIRED"}

\* Operators have no ResourceStatus, SIM cards no MaintenanceStatus.
Operators  == {r \in Resources : ResourceType[r] = "OPERATOR"}
Maintained == {r \in Resources : ResourceType[r] \in {"DEVICE", "ROUTER"}}

\* A request creates at most one row per item, so (request, item) names a row.
RowIds == Requests \X (1 .. MaxItems)

DtoRange == [startsAt: Int \cup {NoTime}, endsAt: Int \cup {NoTime}]
Range    == [startsAt: Int, endsAt: Int,
             effectiveStartsAt: Int, effectiveEndsAt: Int]
Row      == [eventId: Events, resource: Resources,
             status: AssignmentStatus, range: Range]
Item     == [resource: Resources, range: DtoRange, status: AssignmentStatus]
Schedule == [startsAt: Int, endsAt: Int,
             cooldownBefore: Nat, cooldownAfter: Nat]
Event    == [schedule: Schedule, deleted: BOOLEAN]
Call     == [op: {"none", "assign", "bulk", "release", "reassign"},
             eventId: Events, items: Seq(Item), target: RowIds \cup {NoRow}]
Replies  == {"none", "ok", "refused", "conflict"}

\* The CHECK constraint on Event: it ends after it starts.
ValidSchedule(s) == s.endsAt > s.startsAt

ASSUME ConstantsOK ==
  /\ MaxItems \in Nat \ {0}
  /\ Events # {}
  /\ ResourceType \in [Resources -> {"OPERATOR", "DEVICE", "SIM", "ROUTER"}]
  /\ Schedules \subseteq {s \in Schedule : ValidSchedule(s)}
  /\ DtoRanges \subseteq DtoRange
  /\ DtoStatuses \subseteq AssignmentStatus
  /\ \A b \in Bulks : b \in Seq(Item) /\ Len(b) \in 1 .. MaxItems
  /\ AdminStatuses \subseteq ResourceStatus
  /\ MaxEdits \in Nat
  /\ AuditMayFail \in BOOLEAN

ASSUME Sentinels == NoTime \notin Int /\ NoRow \notin Row

VARIABLES
  event,       \* the Event table
  resource,    \* operators, devices, SIM cards and routers
  assignment,  \* the four Event...Assignment tables, by row
  pc,          \* what a request does next
  call,        \* what a request asks for
  item,        \* the item of the request being assigned
  range,       \* the window resolved for that item
  reply,       \* what the caller was answered
  edits        \* administrative changes so far

vars == <<event, resource, assignment, pc, call, item, range, reply, edits>>

(***************************************************************************)
(* The steps of a request.                                                 *)
(***************************************************************************)
Steps == {"idle", "resolve", "resource", "available", "lock", "txResolve",
          "txResource", "txAvailable", "commit", "audit", "done"}

\* Mutant: a reassign already holds the lock while it waits for it.
InTxOrWaiting == {"lock", "txResolve", "txResource", "txAvailable", "commit"}

InTx == {"txResolve", "txResource", "txAvailable", "commit"}

\* Mutant: createAssignment trusts that its caller checked availability.
FollowTrusting ==
          [resolve   |-> "resource",    txResolve   |-> "txResource",
           resource  |-> "available",   txResource  |-> "commit",
           available |-> "txResource",  txAvailable |-> "commit"]

\* The step that follows a check that passes.
Follow == [resolve   |-> "resource",    txResolve   |-> "txResource",
           resource  |-> "available",   txResource  |-> "txAvailable",
           available |-> "txResource",  txAvailable |-> "commit"]

Current(q) == call[q].items[item[q]]

MoreItems(q) == item[q] < Len(call[q].items)

\* Mutant: reassign rewrites the old row instead of inserting a new one.
RowIdInPlace(q) ==
  IF call[q].op = "reassign" THEN call[q].target ELSE <<q, item[q]>>

RowId(q) == <<q, item[q]>>

\* An exception inside assign's try block is answered as a conflict, whatever
\* its cause; elsewhere it reaches the caller as it is.
Caught(q) == call[q].op \in {"assign", "bulk"} /\ pc[q] \in InTx \cup {"audit"}

Fail(q) ==
  /\ pc' = [pc EXCEPT ![q] = "done"]
  /\ reply' = [reply EXCEPT ![q] = IF Caught(q) THEN "conflict" ELSE "refused"]

\* Mutant: a refused insert is passed over in silence.
RejectSilently(q) ==
  /\ pc' = [pc EXCEPT ![q] = "audit"]
  /\ UNCHANGED reply

\* A refused insert rolls the transaction back.
Reject(q) == Fail(q)

\* A check lets the request go on or ends it.
Check(q, passes) ==
  \/ passes  /\ pc' = [pc EXCEPT ![q] = Follow[pc[q]]] /\ UNCHANGED reply
  \/ ~passes /\ Fail(q)

(***************************************************************************)
(* The tables.                                                             *)
(***************************************************************************)
Overlap(s, e, t, f) == s < f /\ e > t

RangesOverlap(x, y) == Overlap(x.effectiveStartsAt, x.effectiveEndsAt,
                               y.effectiveStartsAt, y.effectiveEndsAt)

IsBlocking(row) == row # NoRow /\ row.status \in BlockingStatuses

Given(x, default) == IF x = NoTime THEN default ELSE x

\* The window of a row, widened by the cooldowns of its event.
Window(s, dto) ==
  LET from == Given(dto.startsAt, s.startsAt)
      to   == Given(dto.endsAt, s.endsAt)
  IN  [startsAt |-> from, endsAt |-> to,
       effectiveStartsAt |-> from - s.cooldownBefore,
       effectiveEndsAt   |-> to + s.cooldownAfter]

\* A reassign holds the lock of the row it ends until its transaction ends.
RowLocked(a, q) ==
  \E p \in Requests \ {q} :
    call[p].op = "reassign" /\ call[p].target = a /\ pc[p] \in InTx

SetStatus(r, s) ==
  IF r \in Operators THEN resource
                     ELSE [resource EXCEPT ![r].status = s]

NoCall == [op |-> "none", eventId |-> CHOOSE e \in Events : TRUE,
           items |-> <<>>, target |-> NoRow]

NoRange == [startsAt |-> 0, endsAt |-> 0,
            effectiveStartsAt |-> 0, effectiveEndsAt |-> 0]

Init ==
  /\ event \in [Events -> [schedule: Schedules, deleted: {FALSE}]]
  /\ resource = [r \in Resources |-> [status |-> "AVAILABLE", fit |-> r \notin Unfit]]
  /\ assignment = [a \in RowIds |-> NoRow]
  /\ pc = [q \in Requests |-> "idle"]
  /\ call = [q \in Requests |-> NoCall]
  /\ item = [q \in Requests |-> 1]
  /\ range = [q \in Requests |-> NoRange]
  /\ reply = [q \in Requests |-> "none"]
  /\ edits = 0

(***************************************************************************)
(* Requests arrive.                                                        *)
(***************************************************************************)
Start(q, c, step) ==
  /\ pc[q] = "idle"
  /\ call' = [call EXCEPT ![q] = c]
  /\ pc' = [pc EXCEPT ![q] = step]
  /\ UNCHANGED <<event, item, range, reply, edits>>

\* POST .../assignments/{operators,devices,sims,routers}
Assign(q) ==
  \E e \in Events, r \in Resources, d \in DtoRanges, s \in DtoStatuses :
    /\ Start(q, [op |-> "assign", eventId |-> e, target |-> NoRow,
                 items |-> <<[resource |-> r, range |-> d, status |-> s]>>],
                "resolve")
    /\ UNCHANGED <<resource, assignment>>

\* POST .../assignments/bulk: its items are assigned one after the other.
BulkAssign(q) ==
  \E e \in Events, b \in Bulks :
    /\ Start(q, [op |-> "bulk", eventId |-> e, target |-> NoRow, items |-> b],
                "resolve")
    /\ UNCHANGED <<resource, assignment>>

\* What reassign asks for in place of `old`: its bounds unless others are given.
Replacement(old, r, d) ==
  [resource |-> r,
   range    |-> [startsAt |-> Given(d.startsAt, old.range.startsAt),
                 endsAt   |-> Given(d.endsAt, old.range.endsAt)],
   status   |-> IF old.status = "ACTIVE" THEN "ACTIVE" ELSE "RESERVED"]

\* reassign reads the assignment to move, whatever its status, before it
\* opens its transaction; the replacement is of the same resource type.
Reassign(q) ==
  \E a \in RowIds, r \in Resources, d \in DtoRanges :
    /\ assignment[a] # NoRow
    /\ ResourceType[r] = ResourceType[assignment[a].resource]
    /\ Start(q, [op |-> "reassign", eventId |-> assignment[a].eventId,
                 target |-> a, items |-> <<Replacement(assignment[a], r, d)>>],
                "lock")
    /\ UNCHANGED <<resource, assignment>>

\* Mutant: the asset is given the status of the assignment.
ReleaseAsAsked(q) ==
  \E a \in RowIds, s \in ReleaseStatuses :
    /\ assignment[a] # NoRow
    /\ ~RowLocked(a, q)
    /\ Start(q, [op |-> "release", eventId |-> assignment[a].eventId,
                 target |-> a, items |-> <<>>], "audit")
    /\ assignment' = [assignment EXCEPT ![a].status = s]
    /\ resource' = SetStatus(assignment[a].resource, s)

\* release: the status asked for must end the assignment; the status it has
\* is not looked at.  The row and its resource change in one transaction.  A
\* release that finds the row locked waits for it; nothing it does rests on what
\* it read before, so it is taken to arrive when the lock is free.
Release(q) ==
  \E a \in RowIds, s \in ReleaseStatuses :
    /\ assignment[a] # NoRow
    /\ ~RowLocked(a, q)
    /\ Start(q, [op |-> "release", eventId |-> assignment[a].eventId,
                 target |-> a, items |-> <<>>], "audit")
    /\ assignment' = [assignment EXCEPT ![a].status = s]
    /\ resource' = SetStatus(assignment[a].resource, "AVAILABLE")

(***************************************************************************)
(* The steps of assign, and of createAssignment inside its transaction.    *)
(***************************************************************************)

\* Mutant: the old row is released outside the transaction, and at once.
LockTargetCommitting(q) ==
  /\ pc[q] = "lock"
  /\ ~RowLocked(call[q].target, q)
  /\ pc' = [pc EXCEPT ![q] = "txResolve"]
  /\ assignment' = [assignment EXCEPT ![call[q].target].status = "RELEASED"]
  /\ UNCHANGED <<event, resource, call, item, range, reply, edits>>

\* reassign's transaction sets the old row to RELEASED first: from here on it
\* holds that row's lock, and no one sees the new status before it commits.
LockTarget(q) ==
  /\ pc[q] = "lock"
  /\ ~RowLocked(call[q].target, q)
  /\ pc' = [pc EXCEPT ![q] = "txResolve"]
  /\ UNCHANGED <<event, resource, assignment, call, item, range, reply, edits>>

ResolveAssignmentWindow(q) ==
  /\ pc[q] \in {"resolve", "txResolve"}
  /\ LET e == event[call[q].eventId]
         w == Window(e.schedule, Current(q).range)
     IN  /\ Check(q, ~e.deleted /\ w.endsAt > w.startsAt)
         /\ range' = [range EXCEPT ![q] = w]
  /\ UNCHANGED <<event, resource, assignment, call, item, edits>>

EnsureResourceAssignable(q) ==
  /\ pc[q] \in {"resource", "txResource"}
  /\ LET r == Current(q).resource
     IN  Check(q, /\ resource[r].fit
                  /\ r \in Operators \/ resource[r].status = "AVAILABLE")
  /\ UNCHANGED <<event, resource, assignment, call, item, range, edits>>

\* The blocking assignments of other events, and the maintenance windows,
\* that the resolved window of the current item runs into.
Conflicts(q) ==
  {a \in RowIds :
     /\ IsBlocking(assignment[a])
     /\ assignment[a].resource = Current(q).resource
     /\ assignment[a].eventId # call[q].eventId
     /\ RangesOverlap(assignment[a].range, range[q])}

InMaintenance(r, x) ==
  \E m \in Maintenance[r] :
    Overlap(m.startsAt, m.endsAt, x.effectiveStartsAt, x.effectiveEndsAt)

EnsureAvailable(q) ==
  /\ pc[q] \in {"available", "txAvailable"}
  /\ Check(q, /\ Conflicts(q) = {}
              /\ ~InMaintenance(Current(q).resource, range[q]))
  /\ UNCHANGED <<event, resource, assignment, call, item, range, edits>>

NewRow(q) == [eventId |-> call[q].eventId, resource |-> Current(q).resource,
              status |-> Current(q).status, range |-> range[q]]

\* The table as the transaction of q sees it before it inserts.
AfterEnding(q) ==
  IF call[q].op = "reassign"
  THEN [assignment EXCEPT ![call[q].target].status = "RELEASED"]
  ELSE assignment

\* Mutant: the constraint forgets ACTIVE assignments.
ExcludedByReserved(table, row) ==
  /\ IsBlocking(row)
  /\ \E a \in RowIds : /\ table[a] # NoRow
                       /\ table[a].status = "RESERVED"
                       /\ table[a].resource = row.resource
                       /\ RangesOverlap(table[a].range, row.range)

\* EXCLUDE USING gist (resource WITH =, effective range WITH &&)
\* WHERE status IN ('RESERVED', 'ACTIVE')
Excluded(table, row) ==
  /\ IsBlocking(row)
  /\ \E a \in RowIds : /\ IsBlocking(table[a])
                       /\ table[a].resource = row.resource
                       /\ RangesOverlap(table[a].range, row.range)

CreateAssignment(q) ==
  /\ pc[q] = "commit"
  /\ \/ /\ ~Excluded(AfterEnding(q), NewRow(q))
        /\ assignment' = [AfterEnding(q) EXCEPT ![RowId(q)] = NewRow(q)]
        /\ resource' = SetStatus(Current(q).resource, "ASSIGNED")
        /\ pc' = [pc EXCEPT ![q] = "audit"]
        /\ UNCHANGED reply
     \/ /\ Excluded(AfterEnding(q), NewRow(q))
        /\ Reject(q)
        /\ UNCHANGED <<resource, assignment>>
  /\ UNCHANGED <<event, call, item, range, edits>>

\* The timeline entry of a bulk request, written when its last item is done and
\* outside any try: when it fails, a request that is all booked is refused.
RecordFails(q) ==
  /\ call[q].op = "bulk" /\ ~MoreItems(q)
  /\ pc' = [pc EXCEPT ![q] = "done"]
  /\ reply' = [reply EXCEPT ![q] = "refused"]

\* The audit entry, written after the commit; a bulk request then turns to its
\* next item.  reassign's timeline entry, outside any try like its audit entry,
\* fails as that one does.
Audit(q) ==
  /\ pc[q] = "audit"
  /\ \/ /\ MoreItems(q)
        /\ item' = [item EXCEPT ![q] = @ + 1]
        /\ pc' = [pc EXCEPT ![q] = "resolve"]
        /\ UNCHANGED reply
     \/ /\ ~MoreItems(q)
        /\ pc' = [pc EXCEPT ![q] = "done"]
        /\ reply' = [reply EXCEPT ![q] = "ok"]
        /\ UNCHANGED item
     \/ /\ AuditMayFail
        /\ Fail(q) \/ RecordFails(q)
        /\ UNCHANGED item
  /\ UNCHANGED <<event, resource, assignment, call, range, edits>>

\* Prisma rolls an interactive transaction back when it runs out of time,
\* waiting for a lock or for a second connection of the pool.
Expire(q) ==
  /\ pc[q] \in InTx \cup {"lock"}
  /\ Fail(q)
  /\ UNCHANGED <<event, resource, assignment, call, item, range, edits>>

\* The API process stops: an open transaction is rolled back, what was
\* committed stays, and the caller gets no answer.
Crash(q) ==
  /\ pc[q] \notin {"idle", "done"}
  /\ pc' = [pc EXCEPT ![q] = "done"]
  /\ UNCHANGED <<event, resource, assignment, call, item, range, reply, edits>>

(***************************************************************************)
(* What other endpoints change meanwhile.                                  *)
(***************************************************************************)

Edit == edits < MaxEdits /\ edits' = edits + 1

\* PATCH /events/:id leaves the assignments of the event as they are.
UpdateEvent(e, s) ==
  /\ Edit
  /\ ~event[e].deleted
  /\ event' = [event EXCEPT ![e].schedule = s]
  /\ UNCHANGED <<resource, assignment, pc, call, item, range, reply>>

\* DELETE /events/:id is a soft delete; the assignments stay as well.
RemoveEvent(e) ==
  /\ Edit
  /\ ~event[e].deleted
  /\ event' = [event EXCEPT ![e].deleted = TRUE]
  /\ UNCHANGED <<resource, assignment, pc, call, item, range, reply>>

\* PATCH /devices|sims|routers/:id/status, from any status to any other.
UpdateStatus(r, s) ==
  /\ Edit
  /\ r \notin Operators
  /\ resource' = [resource EXCEPT ![r].status = s]
  /\ UNCHANGED <<event, assignment, pc, call, item, range, reply>>

\* PATCH /devices|routers/:id may change the MaintenanceStatus.
UpdateMaintenance(r) ==
  /\ Edit
  /\ r \in Maintained
  /\ resource' = [resource EXCEPT ![r].fit = ~@]
  /\ UNCHANGED <<event, assignment, pc, call, item, range, reply>>

Arrive(q) == Assign(q) \/ BulkAssign(q) \/ Release(q) \/ Reassign(q)

Advance(q) ==
  \/ LockTarget(q)
  \/ ResolveAssignmentWindow(q)
  \/ EnsureResourceAssignable(q)
  \/ EnsureAvailable(q)
  \/ CreateAssignment(q)
  \/ Audit(q)

Administer ==
  \/ \E e \in Events : RemoveEvent(e) \/ \E s \in Schedules : UpdateEvent(e, s)
  \/ \E r \in Resources, s \in AdminStatuses : UpdateStatus(r, s)
  \/ \E r \in Resources : UpdateMaintenance(r)

Next ==
  \/ \E q \in Requests : Arrive(q) \/ Advance(q) \/ Expire(q) \/ Crash(q)
  \/ Administer

Spec == Init /\ [][Next]_vars

\* A request under way keeps being served: Node resumes it when its query
\* answers, and PostgreSQL answers, with an error if it must.
FairSpec == Spec /\ \A q \in Requests : WF_vars(Advance(q))

-----------------------------------------------------------------------------
(***************************************************************************)
(* Properties.                                                             *)
(***************************************************************************)

\* Every variable keeps its type, every status the enumeration it belongs to.
TypeOK ==
  /\ event \in [Events -> Event]
  /\ resource \in [Resources -> [status: ResourceStatus, fit: BOOLEAN]]
  /\ assignment \in [RowIds -> Row \cup {NoRow}]
  /\ pc \in [Requests -> Steps]
  /\ call \in [Requests -> Call]
  /\ item \in [Requests -> 1 .. MaxItems]
  /\ range \in [Requests -> Range]
  /\ reply \in [Requests -> Replies]
  /\ edits \in 0 .. MaxEdits

\* No two RESERVED or ACTIVE assignments of one resource overlap in their
\* cooldown-widened windows, whichever requests race.  The availability
\* queries skip the assignments of the same event and read committed state,
\* so they alone would let two requests, or two items of one bulk, collide.
NoOverlap ==
  \A a, b \in RowIds :
    /\ a # b
    /\ IsBlocking(assignment[a])
    /\ IsBlocking(assignment[b])
    /\ assignment[a].resource = assignment[b].resource
    => ~RangesOverlap(assignment[a].range, assignment[b].range)

\* No assignment runs into a maintenance window of its resource.  Only the
\* application checks this, on a window it resolves and stores later: what is
\* stored must be what was checked, on the replacement of a reassign too.
RespectsMaintenance ==
  \A a \in RowIds :
    assignment[a] # NoRow =>
      ~InMaintenance(assignment[a].resource, assignment[a].range)

\* A row never goes away, never changes what it books, and once RELEASED,
\* CANCELLED or COMPLETED never blocks again: releasing an old assignment
\* twice, or moving it, must not bring it back to life.
HistoryIsFinal ==
  [][\A a \in RowIds : assignment[a] # NoRow =>
       /\ assignment'[a] # NoRow
       /\ assignment'[a] = [assignment[a] EXCEPT !.status = assignment'[a].status]
       /\ ~IsBlocking(assignment[a]) => ~IsBlocking(assignment'[a])]_vars

\* A step of a reassign either ends the old assignment and creates its
\* replacement, for the same event, or touches no assignment at all: a reassign
\* that fails at any check has not cost the event the resource it had.
ReassignIsAtomic ==
  [][\A q \in Requests : call[q].op = "reassign" /\ pc'[q] # pc[q] =>
       \/ assignment' = assignment
       \/ /\ assignment[RowId(q)] = NoRow
          /\ assignment'[RowId(q)] # NoRow
          /\ assignment'[RowId(q)].eventId = assignment[call[q].target].eventId
          /\ assignment'[call[q].target].status = "RELEASED"]_vars

Creates(q) == call[q].op \in {"assign", "bulk", "reassign"}

\* What a caller is told is so.  "ok" means every item of the request was
\* booked; a refusal or a conflict means the items before the one it stopped
\* at were booked (bulk is no transaction) and that one and the rest were not.
AnswersAreTrue ==
  \A q \in Requests : Creates(q) =>
    \A k \in 1 .. Len(call[q].items) :
      /\ reply[q] = "ok" => assignment[<<q, k>>] # NoRow
      /\ reply[q] \in {"refused", "conflict"} =>
           (assignment[<<q, k>>] # NoRow <=> k < item[q])

\* Every request is answered, or dies with its process: no wait for the lock
\* of a row goes on for ever.
Termination == \A q \in Requests : pc[q] # "idle" ~> pc[q] = "done"

\* A request answered ASSIGNMENT_CONFLICT has not created its assignment.
\* The code's message for it is "Assignment failed because of a database
\* conflict", but the audit write that follows the commit is in the same try.
ConflictReportIsTrue ==
  \A q \in Requests :
    reply[q] = "conflict" => assignment[RowId(q)] = NoRow

\* foundation.md: COMPLETED, RELEASED and CANCELLED assignments "remain
\* historical and do not block future use".  A resource that no request is
\* working on and that has only such assignments can be assigned again.
HistoryDoesNotBlock ==
  \A r \in Resources :
    /\ \A q \in Requests : pc[q] \in {"idle", "done"}
    /\ \A a \in RowIds : /\ IsBlocking(assignment[a])
                         => assignment[a].resource # r
    => r \in Operators \/ resource[r].status = "AVAILABLE"

(***************************************************************************)
(* The engine implements the abstract table of reservations: a reassign is *)
(* one Replace, and nothing else ever moves or revives a booking.          *)
(***************************************************************************)
BookingOf(a) == [id |-> a, event |-> assignment[a].eventId,
                 resource |-> assignment[a].resource,
                 from |-> assignment[a].range.effectiveStartsAt,
                 to   |-> assignment[a].range.effectiveEndsAt]

Blocking == {a \in RowIds : IsBlocking(assignment[a])}
Past     == {a \in RowIds : assignment[a] # NoRow} \ Blocking

Table == INSTANCE Reservations
           WITH Ids <- RowIds, live <- {BookingOf(a) : a \in Blocking},
                over <- Past

ImplementsReservations == Table!Spec
=============================================================================
