-------------------------- MODULE AssignmentsProofs --------------------------
(***************************************************************************)
(* Theorems about the assignment engine, for every set of requests,        *)
(* events, resources, schedules and administrative changes.                *)
(***************************************************************************)
EXTENDS Assignments, TLAPS

\* The steps at which a request works on an item.
Working == {"resolve", "resource", "available",
            "txResolve", "txResource", "txAvailable", "commit"}

\* What a request carries fits the step it is at: the item it works on
\* exists, and the assignment a reassign is to end was found.
CallInv ==
  \A q \in Requests :
    /\ pc[q] = "idle" => call[q] = NoCall /\ item[q] = 1
    /\ pc[q] \in Working \cup {"lock"} => item[q] <= Len(call[q].items)
    /\ pc[q] = "lock" => call[q].op = "reassign"
    /\ call[q].op = "reassign" => /\ call[q].target \in RowIds
                                  /\ assignment[call[q].target] # NoRow
    /\ Len(call[q].items) <= MaxItems
    /\ call[q].op \in {"none", "release"} => Len(call[q].items) = 0

TypeInv == TypeOK /\ CallInv

USE ConstantsOK, Sentinels

-----------------------------------------------------------------------------
(* Lemmas about the operators. *)

\* A window resolved from a schedule and a requested range is a Range.
LEMMA WindowType ==
  ASSUME NEW s \in Schedule, NEW d \in DtoRange
  PROVE  Window(s, d) \in Range
  BY DEF Window, Given, Schedule, DtoRange, Range

\* The replacement of an assignment is an item.
LEMMA ReplacementType ==
  ASSUME NEW old \in Row, NEW r \in Resources, NEW d \in DtoRange
  PROVE  Replacement(old, r, d) \in Item
  BY DEF Replacement, Given, Row, Range, DtoRange, Item, AssignmentStatus

\* The item a request works on is an item.
LEMMA CurrentType ==
  ASSUME TypeInv, NEW q \in Requests, pc[q] \in Working
  PROVE  Current(q) \in Item
  <1>1. call[q].items \in Seq(Item) /\ item[q] \in 1 .. Len(call[q].items)
    BY DEF TypeInv, TypeOK, CallInv, Call
  <1>2. QED BY <1>1 DEF Current

\* A request carries at most MaxItems items.
LEMMA ItemsLength ==
  ASSUME TypeOK, NEW q \in Requests
  PROVE  Len(call[q].items) \in Nat
  <1>1. call[q].items \in Seq(Item)
    BY DEF TypeOK, Call
  <1>2. QED BY <1>1

\* A request that has an item to assign names a row by it.
LEMMA RowIdType ==
  ASSUME TypeOK, NEW q \in Requests
  PROVE  RowId(q) \in RowIds
  BY DEF TypeOK, RowId, RowIds

\* What the transaction of a request inserts is a row.
LEMMA NewRowType ==
  ASSUME TypeInv, NEW q \in Requests, pc[q] \in Working
  PROVE  NewRow(q) \in Row
  <1>1. Current(q) \in Item
    BY CurrentType
  <1>2. call[q].eventId \in Events /\ range[q] \in Range
    BY DEF TypeInv, TypeOK, Call
  <1>3. QED BY <1>1, <1>2 DEF NewRow, Row, Item

\* Ending a row leaves every row of its identity.
LEMMA AfterEndingType ==
  ASSUME TypeInv, NEW q \in Requests
  PROVE  AfterEnding(q) \in [RowIds -> Row \cup {NoRow}]
  <1>1. CASE call[q].op # "reassign"
    BY <1>1 DEF AfterEnding, TypeInv, TypeOK
  <1>2. CASE call[q].op = "reassign"
    <2>1. call[q].target \in RowIds /\ assignment[call[q].target] \in Row
      BY <1>2 DEF TypeInv, TypeOK, CallInv
    <2>2. [assignment[call[q].target] EXCEPT !.status = "RELEASED"] \in Row
      BY <2>1 DEF Row, AssignmentStatus
    <2>3. QED BY <1>2, <2>1, <2>2 DEF AfterEnding, TypeInv, TypeOK
  <1>3. QED BY <1>1, <1>2

\* Ending the target of a reassign removes no row and adds none.
LEMMA EndingKeepsRows ==
  ASSUME TypeInv, NEW q \in Requests, NEW a \in RowIds, assignment[a] # NoRow
  PROVE  AfterEnding(q)[a] # NoRow
  <1>1. CASE call[q].op # "reassign"
    BY <1>1 DEF AfterEnding
  <1>2. CASE call[q].op = "reassign"
    <2>1. call[q].target \in RowIds /\ assignment[call[q].target] \in Row
      BY <1>2 DEF TypeInv, TypeOK, CallInv
    <2>2. [assignment[call[q].target] EXCEPT !.status = "RELEASED"] \in Row
      BY <2>1 DEF Row, AssignmentStatus
    <2>3. QED BY <1>2, <2>1, <2>2 DEF AfterEnding, TypeInv, TypeOK
  <1>3. QED BY <1>1, <1>2

\* Setting a status keeps the resources well-formed.
LEMMA SetStatusType ==
  ASSUME TypeOK, NEW r \in Resources, NEW s \in ResourceStatus
  PROVE  SetStatus(r, s) \in [Resources -> [status: ResourceStatus, fit: BOOLEAN]]
  BY DEF TypeOK, SetStatus

-----------------------------------------------------------------------------
(* Type correctness. *)

\* The first state is well-typed.
LEMMA InitType == Init => TypeInv
  <1> SUFFICES ASSUME Init PROVE TypeInv
    OBVIOUS
  <1>1. NoCall \in Call
    BY DEF NoCall, Call
  <1>2. TypeOK
    <2>1. event \in [Events -> Event]
      BY DEF Init, Event
    <2>2. resource \in [Resources -> [status: ResourceStatus, fit: BOOLEAN]]
      <3>1. \A r \in Resources : (r \notin Unfit) \in BOOLEAN
        OBVIOUS
      <3>2. QED BY <3>1 DEF Init, ResourceStatus
    <2>3. /\ assignment \in [RowIds -> Row \cup {NoRow}]
          /\ pc \in [Requests -> Steps]
          /\ call \in [Requests -> Call]
          /\ reply \in [Requests -> Replies]
      BY <1>1 DEF Init, Steps, Replies
    <2>4. /\ item \in [Requests -> 1 .. MaxItems]
          /\ range \in [Requests -> Range]
          /\ edits \in 0 .. MaxEdits
      BY DEF Init, NoRange, Range
    <2>5. QED BY <2>1, <2>2, <2>3, <2>4 DEF TypeOK
  <1>3. Len(NoCall.items) = 0 /\ NoCall.op # "reassign"
    BY DEF NoCall
  <1>4. CallInv
    <2>1. \A q \in Requests : pc[q] = "idle" /\ call[q] = NoCall /\ item[q] = 1
      BY DEF Init
    <2>2. 0 <= MaxItems
      OBVIOUS
    <2>3. QED BY <1>3, <2>1, <2>2 DEF CallInv, Working
  <1>5. QED BY <1>2, <1>4 DEF TypeInv

\* A request that arrives carries a well-formed call.
LEMMA StartType ==
  ASSUME TypeInv, NEW q \in Requests, NEW c \in Call,
         NEW step \in {"resolve", "lock", "audit"}, Start(q, c, step),
         step # "audit" => Len(c.items) \in Nat \ {0},
         Len(c.items) <= MaxItems,
         c.op \in {"none", "release"} => Len(c.items) = 0,
         step = "lock" => c.op = "reassign",
         c.op = "reassign" => c.target \in RowIds /\ assignment'[c.target] # NoRow,
         assignment' \in [RowIds -> Row \cup {NoRow}],
         \A a \in RowIds : assignment[a] # NoRow => assignment'[a] # NoRow,
         resource' \in [Resources -> [status: ResourceStatus, fit: BOOLEAN]]
  PROVE  TypeInv'
  <1>1. TypeOK'
    BY DEF TypeInv, TypeOK, Start, Steps
  <1>2. CallInv'
    <2> SUFFICES ASSUME NEW p \in Requests
                 PROVE  /\ pc'[p] = "idle" => call'[p] = NoCall /\ item'[p] = 1
                        /\ pc'[p] \in Working \cup {"lock"} =>
                             item'[p] <= Len(call'[p].items)
                        /\ pc'[p] = "lock" => call'[p].op = "reassign"
                        /\ call'[p].op = "reassign" =>
                             /\ call'[p].target \in RowIds
                             /\ assignment'[call'[p].target] # NoRow
                        /\ Len(call'[p].items) <= MaxItems
                        /\ call'[p].op \in {"none", "release"} =>
                             Len(call'[p].items) = 0
      BY DEF CallInv
    <2>1. CASE p = q
      BY <2>1 DEF TypeInv, TypeOK, CallInv, Start, Working
    <2>2. CASE p # q
      BY <2>2 DEF TypeInv, TypeOK, CallInv, Start
    <2>3. QED BY <2>1, <2>2
  <1>3. QED BY <1>1, <1>2 DEF TypeInv

\* An assign arrives with one well-formed item.
LEMMA AssignType ==
  ASSUME TypeInv, NEW q \in Requests, Assign(q)
  PROVE  TypeInv'
  <1> PICK e \in Events, r \in Resources, d \in DtoRanges, s \in DtoStatuses :
        /\ Start(q, [op |-> "assign", eventId |-> e, target |-> NoRow,
                     items |-> <<[resource |-> r, range |-> d, status |-> s]>>],
                    "resolve")
        /\ UNCHANGED <<resource, assignment>>
    BY DEF Assign
  <1> DEFINE c == [op |-> "assign", eventId |-> e, target |-> NoRow,
                   items |-> <<[resource |-> r, range |-> d, status |-> s]>>]
  <1>1. /\ c \in Call /\ Len(c.items) \in Nat \ {0}
        /\ Len(c.items) <= MaxItems /\ c.op \notin {"reassign", "none", "release"}
    <2>1. [resource |-> r, range |-> d, status |-> s] \in Item
      BY DEF Item
    <2>2. QED BY <2>1 DEF Call
  <1>2. Start(q, c, "resolve")
    OBVIOUS
  <1> HIDE DEF c
  <1>3. /\ assignment' = assignment
        /\ assignment' \in [RowIds -> Row \cup {NoRow}]
        /\ resource' \in [Resources -> [status: ResourceStatus, fit: BOOLEAN]]
    BY DEF TypeInv, TypeOK
  <1>4. QED BY <1>1, <1>2, <1>3, StartType

\* A bulk request arrives with the items of one of Bulks.
LEMMA BulkAssignType ==
  ASSUME TypeInv, NEW q \in Requests, BulkAssign(q)
  PROVE  TypeInv'
  <1> PICK e \in Events, b \in Bulks :
        /\ Start(q, [op |-> "bulk", eventId |-> e, target |-> NoRow,
                     items |-> b], "resolve")
        /\ UNCHANGED <<resource, assignment>>
    BY DEF BulkAssign
  <1> DEFINE c == [op |-> "bulk", eventId |-> e, target |-> NoRow, items |-> b]
  <1>1. /\ c \in Call /\ Len(c.items) \in Nat \ {0}
        /\ Len(c.items) <= MaxItems /\ c.op \notin {"reassign", "none", "release"}
    BY DEF Call
  <1>2. Start(q, c, "resolve")
    OBVIOUS
  <1> HIDE DEF c
  <1>3. /\ assignment' = assignment
        /\ assignment' \in [RowIds -> Row \cup {NoRow}]
        /\ resource' \in [Resources -> [status: ResourceStatus, fit: BOOLEAN]]
    BY DEF TypeInv, TypeOK
  <1>4. QED BY <1>1, <1>2, <1>3, StartType

\* A reassign arrives with its replacement as its one item.
LEMMA ReassignType ==
  ASSUME TypeInv, NEW q \in Requests, Reassign(q)
  PROVE  TypeInv'
  <1> PICK a \in RowIds, r \in Resources, d \in DtoRanges :
        /\ assignment[a] # NoRow
        /\ Start(q, [op |-> "reassign", eventId |-> assignment[a].eventId,
                     target |-> a,
                     items |-> <<Replacement(assignment[a], r, d)>>], "lock")
        /\ UNCHANGED <<resource, assignment>>
    BY DEF Reassign
  <1> DEFINE c == [op |-> "reassign", eventId |-> assignment[a].eventId,
                   target |-> a, items |-> <<Replacement(assignment[a], r, d)>>]
  <1>1. /\ c \in Call /\ Len(c.items) \in Nat \ {0}
        /\ Len(c.items) <= MaxItems /\ c.op = "reassign" /\ c.target = a
    <2>1. assignment[a] \in Row
      BY DEF TypeInv, TypeOK
    <2>2. Replacement(assignment[a], r, d) \in Item
      BY <2>1, ReplacementType
    <2>3. assignment[a].eventId \in Events
      BY <2>1 DEF Row
    <2>4. QED BY <2>2, <2>3 DEF Call
  <1>2. Start(q, c, "lock")
    OBVIOUS
  <1> HIDE DEF c
  <1>3. /\ assignment' = assignment
        /\ assignment' \in [RowIds -> Row \cup {NoRow}]
        /\ resource' \in [Resources -> [status: ResourceStatus, fit: BOOLEAN]]
    BY DEF TypeInv, TypeOK
  <1>4. QED BY <1>1, <1>2, <1>3, StartType

\* Release changes one row's status, to one that ends it.
LEMMA ReleaseStep ==
  ASSUME TypeOK, NEW q \in Requests, Release(q)
  PROVE  \E a \in RowIds, s \in ReleaseStatuses :
           /\ assignment[a] \in Row
           /\ assignment' = [assignment EXCEPT ![a].status = s]
  BY DEF TypeOK, Release

\* A release keeps rows and resources well-formed, and carries no item.
LEMMA ReleaseType ==
  ASSUME TypeInv, NEW q \in Requests, Release(q)
  PROVE  TypeInv'
  <1> PICK a \in RowIds, s \in ReleaseStatuses :
        /\ assignment[a] # NoRow
        /\ Start(q, [op |-> "release", eventId |-> assignment[a].eventId,
                     target |-> a, items |-> <<>>], "audit")
        /\ assignment' = [assignment EXCEPT ![a].status = s]
        /\ resource' = SetStatus(assignment[a].resource, "AVAILABLE")
    BY DEF Release
  <1> DEFINE c == [op |-> "release", eventId |-> assignment[a].eventId,
                   target |-> a, items |-> <<>>]
  <1>1. assignment[a] \in Row
    BY DEF TypeInv, TypeOK
  <1>2. /\ c \in Call /\ Len(c.items) = 0 /\ Len(c.items) <= MaxItems
        /\ c.op # "reassign"
    BY <1>1 DEF Call, Row
  <1>3. assignment' \in [RowIds -> Row \cup {NoRow}]
    <2>1. [assignment[a] EXCEPT !.status = s] \in Row
      BY <1>1 DEF Row, AssignmentStatus, ReleaseStatuses
    <2>2. QED BY <2>1 DEF TypeInv, TypeOK
  <1>4. \A b \in RowIds : assignment[b] # NoRow => assignment'[b] # NoRow
    <2>1. [assignment[a] EXCEPT !.status = s] \in Row
      BY <1>1 DEF Row, AssignmentStatus, ReleaseStatuses
    <2>2. QED BY <2>1 DEF TypeInv, TypeOK
  <1>5. resource' \in [Resources -> [status: ResourceStatus, fit: BOOLEAN]]
    BY <1>1, SetStatusType DEF TypeInv, Row, ResourceStatus
  <1>6. Start(q, c, "audit")
    OBVIOUS
  <1> HIDE DEF c
  <1>7. QED BY <1>2, <1>3, <1>4, <1>5, <1>6, StartType

\* A step that only moves a request on, or ends it, keeps its call in order.
LEMMA MoveType ==
  ASSUME TypeInv, NEW q \in Requests,
         NEW step \in Steps \ {"idle", "lock"},
         step \in Working => pc[q] \in Working \cup {"lock"},
         pc' = [pc EXCEPT ![q] = step],
         reply' \in [Requests -> Replies],
         range' \in [Requests -> Range],
         assignment' \in [RowIds -> Row \cup {NoRow}],
         \A a \in RowIds : assignment[a] # NoRow => assignment'[a] # NoRow,
         resource' \in [Resources -> [status: ResourceStatus, fit: BOOLEAN]],
         UNCHANGED <<event, call, item, edits>>
  PROVE  TypeInv'
  <1>1. TypeOK'
    BY DEF TypeInv, TypeOK
  <1>2. CallInv'
    <2> SUFFICES ASSUME NEW p \in Requests
                 PROVE  /\ pc'[p] = "idle" => call[p] = NoCall /\ item[p] = 1
                        /\ pc'[p] \in Working \cup {"lock"} =>
                             item[p] <= Len(call[p].items)
                        /\ pc'[p] = "lock" => call[p].op = "reassign"
                        /\ call[p].op = "reassign" =>
                             /\ call[p].target \in RowIds
                             /\ assignment'[call[p].target] # NoRow
                        /\ Len(call[p].items) <= MaxItems
                        /\ call[p].op \in {"none", "release"} =>
                             Len(call[p].items) = 0
      BY DEF CallInv
    <2>1. CASE p = q
      BY <2>1 DEF TypeInv, TypeOK, CallInv
    <2>2. CASE p # q
      BY <2>2 DEF TypeInv, TypeOK, CallInv
    <2>3. QED BY <2>1, <2>2
  <1>3. QED BY <1>1, <1>2 DEF TypeInv

\* Failing and checking move the request within its steps.
LEMMA FailMove ==
  ASSUME TypeOK, NEW q \in Requests, Fail(q)
  PROVE  pc' = [pc EXCEPT ![q] = "done"] /\ reply' \in [Requests -> Replies]
  BY DEF TypeOK, Fail, Replies

\* So does a timeline entry that fails.
LEMMA RecordMove ==
  ASSUME TypeOK, NEW q \in Requests, RecordFails(q)
  PROVE  pc' = [pc EXCEPT ![q] = "done"] /\ reply' \in [Requests -> Replies]
  BY DEF TypeOK, RecordFails, Replies

\* A check leads to the next step of the request or to its end.
LEMMA CheckMove ==
  ASSUME TypeOK, NEW q \in Requests, NEW passes \in BOOLEAN, Check(q, passes),
         pc[q] \in Working \ {"commit"}
  PROVE  /\ reply' \in [Requests -> Replies]
         /\ \E step \in (Working \cup {"done"}) \ {"resolve", "txResolve"} :
              pc' = [pc EXCEPT ![q] = step]
  <1>1. CASE Fail(q)
    BY <1>1, FailMove
  <1>2. CASE pc' = [pc EXCEPT ![q] = Follow[pc[q]]] /\ UNCHANGED reply
    <2>1. Follow[pc[q]] \in Working \ {"resolve", "txResolve"}
      BY DEF Working, Follow
    <2>2. QED BY <1>2, <2>1 DEF TypeOK
  <1>3. QED BY <1>1, <1>2 DEF Check

\* The steps at which a request holds an item are steps.
LEMMA WorkingSteps == Working \subseteq Steps \ {"idle", "lock"}
  BY DEF Working, Steps

\* A step that only checks keeps every variable's type.
LEMMA CheckType ==
  ASSUME TypeInv, NEW q \in Requests, NEW passes \in BOOLEAN, Check(q, passes),
         pc[q] \in Working \ {"commit"},
         range' \in [Requests -> Range],
         UNCHANGED <<event, resource, assignment, call, item, edits>>
  PROVE  TypeInv'
  <1> PICK step \in (Working \cup {"done"}) \ {"resolve", "txResolve"} :
        pc' = [pc EXCEPT ![q] = step]
    BY CheckMove DEF TypeInv
  <1>1. reply' \in [Requests -> Replies]
    BY CheckMove DEF TypeInv
  <1>2. step \in Steps \ {"idle", "lock"}
    BY WorkingSteps DEF Steps
  <1>3. /\ assignment' \in [RowIds -> Row \cup {NoRow}]
        /\ resource' \in [Resources -> [status: ResourceStatus, fit: BOOLEAN]]
    BY DEF TypeInv, TypeOK
  <1>4. QED BY <1>1, <1>2, <1>3, MoveType

\* A bulk request turns to its next item only while it has one.
LEMMA AuditType ==
  ASSUME TypeInv, NEW q \in Requests, Audit(q)
  PROVE  TypeInv'
  <1>0. /\ assignment \in [RowIds -> Row \cup {NoRow}]
        /\ resource \in [Resources -> [status: ResourceStatus, fit: BOOLEAN]]
        /\ range \in [Requests -> Range]
        /\ reply \in [Requests -> Replies]
        /\ item \in [Requests -> 1 .. MaxItems]
        /\ pc \in [Requests -> Steps]
    BY DEF TypeInv, TypeOK
  <1>1. UNCHANGED <<event, resource, assignment, call, range, edits>>
    BY DEF Audit
  <1>2. CASE /\ MoreItems(q)
             /\ item' = [item EXCEPT ![q] = @ + 1]
             /\ pc' = [pc EXCEPT ![q] = "resolve"]
             /\ UNCHANGED reply
    <2>1. Len(call[q].items) <= MaxItems
      BY DEF TypeInv, CallInv
    <2>2. item[q] + 1 \in 1 .. MaxItems /\ item[q] + 1 <= Len(call[q].items)
      BY <1>0, <1>2, <2>1, ItemsLength DEF MoreItems, TypeInv
    <2>3. TypeOK'
      BY <1>0, <1>1, <1>2, <2>2 DEF TypeInv, TypeOK, Steps
    <2>4. CallInv'
      BY <1>0, <1>1, <1>2, <2>2 DEF TypeInv, CallInv
    <2>5. QED BY <2>3, <2>4 DEF TypeInv
  <1>3. CASE /\ pc' = [pc EXCEPT ![q] = "done"]
             /\ reply' = [reply EXCEPT ![q] = "ok"]
             /\ UNCHANGED item
    <2>1. reply' \in [Requests -> Replies]
      BY <1>0, <1>3 DEF Replies
    <2>2. QED BY <1>0, <1>1, <1>3, <2>1, MoveType DEF Steps, Working
  <1>4. CASE (Fail(q) \/ RecordFails(q)) /\ UNCHANGED item
    <2>1. pc' = [pc EXCEPT ![q] = "done"] /\ reply' \in [Requests -> Replies]
      BY <1>4, FailMove, RecordMove DEF TypeInv
    <2>2. QED BY <1>0, <1>1, <1>4, <2>1, MoveType DEF Steps, Working
  <1>5. QED BY <1>2, <1>3, <1>4 DEF Audit

\* Every step of a request under way keeps every variable's type.
LEMMA AdvanceType ==
  ASSUME TypeInv, NEW q \in Requests, Advance(q)
  PROVE  TypeInv'
  <1>0. /\ assignment \in [RowIds -> Row \cup {NoRow}]
        /\ resource \in [Resources -> [status: ResourceStatus, fit: BOOLEAN]]
        /\ range \in [Requests -> Range]
        /\ reply \in [Requests -> Replies]
    BY DEF TypeInv, TypeOK
  <1>1. CASE LockTarget(q)
    BY <1>0, <1>1, MoveType DEF LockTarget, Steps, Working
  <1>2. CASE ResolveAssignmentWindow(q)
    <2> DEFINE e == event[call[q].eventId]
               w == Window(e.schedule, Current(q).range)
    <2>1. pc[q] \in Working \ {"commit"}
      BY <1>2 DEF ResolveAssignmentWindow, Working
    <2>2. e.schedule \in Schedule /\ Current(q).range \in DtoRange
      BY <2>1, CurrentType DEF TypeInv, TypeOK, Call, Event, Item
    <2>3. w \in Range
      BY <2>2, WindowType
    <2>4. /\ Check(q, ~e.deleted /\ w.endsAt > w.startsAt)
          /\ range' = [range EXCEPT ![q] = w]
          /\ UNCHANGED <<event, resource, assignment, call, item, edits>>
      BY <1>2 DEF ResolveAssignmentWindow
    <2>5. range' \in [Requests -> Range]
      BY <2>3, <2>4, <1>0
    <2> HIDE DEF e, w
    <2>6. QED BY <2>1, <2>4, <2>5, CheckType
  <1>3. CASE EnsureResourceAssignable(q)
    BY <1>0, <1>3, CheckType DEF EnsureResourceAssignable, Working
  <1>4. CASE EnsureAvailable(q)
    BY <1>0, <1>4, CheckType DEF EnsureAvailable, Working
  <1>5. CASE CreateAssignment(q)
    <2>1. pc[q] \in Working /\ UNCHANGED <<event, call, item, range, edits>>
      BY <1>5 DEF CreateAssignment, Working
    <2>2. CASE /\ assignment' = [AfterEnding(q) EXCEPT ![RowId(q)] = NewRow(q)]
               /\ resource' = SetStatus(Current(q).resource, "ASSIGNED")
               /\ pc' = [pc EXCEPT ![q] = "audit"]
               /\ UNCHANGED reply
      <3>1. AfterEnding(q) \in [RowIds -> Row \cup {NoRow}]
        BY AfterEndingType
      <3>2. NewRow(q) \in Row /\ RowId(q) \in RowIds
        BY <2>1, NewRowType, RowIdType DEF TypeInv
      <3>3. assignment' \in [RowIds -> Row \cup {NoRow}]
        BY <2>2, <3>1, <3>2
      <3>4. \A a \in RowIds : assignment[a] # NoRow => AfterEnding(q)[a] # NoRow
        BY EndingKeepsRows
      <3>5. \A a \in RowIds : assignment[a] # NoRow => assignment'[a] # NoRow
        BY <2>2, <3>1, <3>2, <3>4
      <3>6. resource' \in [Resources -> [status: ResourceStatus, fit: BOOLEAN]]
        <4>1. Current(q).resource \in Resources
          BY <2>1, CurrentType DEF Item
        <4>2. QED BY <2>2, <4>1, SetStatusType DEF TypeInv, ResourceStatus
      <3>7. QED BY <1>0, <2>1, <2>2, <3>3, <3>5, <3>6, MoveType DEF Steps, Working
    <2>3. CASE Reject(q) /\ UNCHANGED <<resource, assignment>>
      <3>1. pc' = [pc EXCEPT ![q] = "done"] /\ reply' \in [Requests -> Replies]
        BY <2>3, FailMove DEF Reject, TypeInv
      <3>2. QED BY <1>0, <2>1, <2>3, <3>1, MoveType DEF Steps, Working
    <2>4. QED BY <1>5, <2>2, <2>3 DEF CreateAssignment
  <1>6. CASE Audit(q)
    BY <1>6, AuditType
  <1>7. QED BY <1>1, <1>2, <1>3, <1>4, <1>5, <1>6 DEF Advance

\* Running out of time and crashing keep every variable's type.
LEMMA OtherType ==
  ASSUME TypeInv, NEW q \in Requests, Expire(q) \/ Crash(q)
  PROVE  TypeInv'
  <1>0. /\ assignment \in [RowIds -> Row \cup {NoRow}]
        /\ resource \in [Resources -> [status: ResourceStatus, fit: BOOLEAN]]
        /\ range \in [Requests -> Range]
        /\ reply \in [Requests -> Replies]
    BY DEF TypeInv, TypeOK
  <1>1. pc' = [pc EXCEPT ![q] = "done"] /\ reply' \in [Requests -> Replies]
    BY <1>0, FailMove DEF Expire, Crash, TypeInv
  <1>2. UNCHANGED <<event, resource, assignment, call, item, range, edits>>
    BY DEF Expire, Crash
  <1>3. QED BY <1>0, <1>1, <1>2, MoveType DEF Steps, Working

\* Administrative changes keep every variable's type.
LEMMA AdministerType ==
  ASSUME TypeInv, Administer
  PROVE  TypeInv'
  <1>0. /\ event \in [Events -> Event]
        /\ resource \in [Resources -> [status: ResourceStatus, fit: BOOLEAN]]
    BY DEF TypeInv, TypeOK
  <1>1. UNCHANGED <<assignment, pc, call, item, range, reply>>
    BY DEF Administer, RemoveEvent, UpdateEvent, UpdateStatus, UpdateMaintenance
  <1>2. CallInv'
    BY <1>1 DEF TypeInv, CallInv
  <1>3. edits' \in 0 .. MaxEdits
    BY DEF Administer, RemoveEvent, UpdateEvent, UpdateStatus,
           UpdateMaintenance, Edit, TypeInv, TypeOK
  <1>4. /\ event' \in [Events -> Event]
        /\ resource' \in [Resources -> [status: ResourceStatus, fit: BOOLEAN]]
    <2>1. CASE \E e \in Events : RemoveEvent(e)
      BY <1>0, <2>1 DEF RemoveEvent, Event
    <2>2. CASE \E e \in Events, s \in Schedules : UpdateEvent(e, s)
      BY <1>0, <2>2 DEF UpdateEvent, Event
    <2>3. CASE \E r \in Resources, s \in AdminStatuses : UpdateStatus(r, s)
      <3>1. PICK r \in Resources, s \in AdminStatuses : UpdateStatus(r, s)
        BY <2>3
      <3>2. [resource[r] EXCEPT !.status = s]
              \in [status: ResourceStatus, fit: BOOLEAN]
        BY <1>0
      <3>3. QED BY <1>0, <3>1, <3>2 DEF UpdateStatus
    <2>4. CASE \E r \in Resources : UpdateMaintenance(r)
      <3>1. PICK r \in Resources : UpdateMaintenance(r)
        BY <2>4
      <3>2. [resource[r] EXCEPT !.fit = ~@]
              \in [status: ResourceStatus, fit: BOOLEAN]
        BY <1>0
      <3>3. QED BY <1>0, <3>1, <3>2 DEF UpdateMaintenance
    <2>5. QED BY <2>1, <2>2, <2>3, <2>4 DEF Administer
  <1>5. QED BY <1>1, <1>2, <1>3, <1>4 DEF TypeInv, TypeOK

\* The typing invariant is inductive.
LEMMA NextType == TypeInv /\ [Next]_vars => TypeInv'
  <1> SUFFICES ASSUME TypeInv, [Next]_vars
               PROVE  TypeInv'
    OBVIOUS
  <1>1. CASE UNCHANGED vars
    BY <1>1 DEF vars, TypeInv, TypeOK, CallInv
  <1>2. CASE Administer
    BY <1>2, AdministerType
  <1>3. ASSUME NEW q \in Requests, Arrive(q)
        PROVE  TypeInv'
    BY <1>3, AssignType, BulkAssignType, ReassignType, ReleaseType DEF Arrive
  <1>4. ASSUME NEW q \in Requests, Advance(q)
        PROVE  TypeInv'
    BY <1>4, AdvanceType
  <1>5. ASSUME NEW q \in Requests, Expire(q) \/ Crash(q)
        PROVE  TypeInv'
    BY <1>5, OtherType
  <1>6. QED BY <1>1, <1>2, <1>3, <1>4, <1>5 DEF Next

\* The typing invariant holds in every reachable state.
LEMMA TypeInvariant == Spec => []TypeInv
  BY InitType, NextType, PTL DEF Spec

\* Whatever requests and edits interleave, every variable keeps its type.
THEOREM TypeCorrect == Spec => []TypeOK
  <1>1. TypeInv => TypeOK
    BY DEF TypeInv
  <1>2. QED BY <1>1, TypeInvariant, PTL

-----------------------------------------------------------------------------
(* Safety.  Only three kinds of step touch the assignments. *)

Releases(a, s) ==
  /\ assignment[a] \in Row
  /\ assignment' = [assignment EXCEPT ![a].status = s]

Inserts(q) ==
  /\ pc[q] = "commit"
  /\ ~Excluded(AfterEnding(q), NewRow(q))
  /\ assignment' = [AfterEnding(q) EXCEPT ![RowId(q)] = NewRow(q)]

\* Only a release and an insert change the assignment tables.
LEMMA AssignmentSteps ==
  ASSUME TypeInv, [Next]_vars
  PROVE  \/ assignment' = assignment
         \/ \E a \in RowIds, s \in ReleaseStatuses : Releases(a, s)
         \/ \E q \in Requests : Inserts(q)
  <1>1. CASE UNCHANGED vars
    BY <1>1 DEF vars
  <1>2. CASE Administer
    BY <1>2 DEF Administer, RemoveEvent, UpdateEvent, UpdateStatus,
                UpdateMaintenance
  <1>3. ASSUME NEW q \in Requests, Arrive(q)
        PROVE  \/ assignment' = assignment
               \/ \E a \in RowIds, s \in ReleaseStatuses : Releases(a, s)
    <2>1. CASE Release(q)
      BY <2>1, ReleaseStep DEF TypeInv, Releases
    <2>2. CASE Assign(q) \/ BulkAssign(q) \/ Reassign(q)
      BY <2>2 DEF Assign, BulkAssign, Reassign
    <2>3. QED BY <1>3, <2>1, <2>2 DEF Arrive
  <1>4. ASSUME NEW q \in Requests, Advance(q)
        PROVE  assignment' = assignment \/ Inserts(q)
    BY <1>4 DEF Advance, LockTarget, ResolveAssignmentWindow,
         EnsureResourceAssignable, EnsureAvailable, CreateAssignment, Audit,
         Inserts
  <1>5. ASSUME NEW q \in Requests, Expire(q) \/ Crash(q)
        PROVE  assignment' = assignment
    BY <1>5 DEF Expire, Crash
  <1>6. QED BY <1>1, <1>2, <1>3, <1>4, <1>5 DEF Next

\* A release leaves a row's identity alone and makes it historical.
LEMMA ReleasesRow ==
  ASSUME TypeInv, NEW a \in RowIds, NEW s \in ReleaseStatuses, Releases(a, s),
         NEW b \in RowIds
  PROVE  /\ b # a => assignment'[b] = assignment[b]
         /\ assignment'[a] = [assignment[a] EXCEPT !.status = s]
         /\ assignment'[a] \in Row /\ assignment'[a].status = s
         /\ ~IsBlocking(assignment'[a])
  <1>1. /\ b # a => assignment'[b] = assignment[b]
        /\ assignment'[a] = [assignment[a] EXCEPT !.status = s]
    BY DEF TypeInv, TypeOK, Releases
  <1>2. assignment'[a] \in Row /\ assignment'[a].status = s
    BY <1>1 DEF Releases, Row, ReleaseStatuses, AssignmentStatus
  <1>3. QED BY <1>1, <1>2 DEF IsBlocking, BlockingStatuses, ReleaseStatuses

\* What the table of an inserting transaction holds.
LEMMA EndingRow ==
  ASSUME TypeInv, NEW q \in Requests, NEW a \in RowIds
  PROVE  /\ AfterEnding(q)[a] = NoRow <=> assignment[a] = NoRow
         /\ ~(call[q].op = "reassign" /\ a = call[q].target) =>
              AfterEnding(q)[a] = assignment[a]
         /\ call[q].op = "reassign" /\ a = call[q].target =>
              /\ AfterEnding(q)[a] = [assignment[a] EXCEPT !.status = "RELEASED"]
              /\ AfterEnding(q)[a].status = "RELEASED"
              /\ AfterEnding(q)[a] \in Row
              /\ ~IsBlocking(AfterEnding(q)[a])
  <1>1. CASE ~(call[q].op = "reassign" /\ a = call[q].target)
    BY <1>1 DEF AfterEnding, TypeInv, TypeOK, CallInv
  <1>2. CASE call[q].op = "reassign" /\ a = call[q].target
    <2>1. assignment[a] \in Row
      BY <1>2 DEF TypeInv, TypeOK, CallInv
    <2>2. AfterEnding(q)[a] = [assignment[a] EXCEPT !.status = "RELEASED"]
      BY <1>2 DEF AfterEnding, TypeInv, TypeOK
    <2>3. AfterEnding(q)[a] \in Row /\ AfterEnding(q)[a].status = "RELEASED"
      BY <2>1, <2>2 DEF Row, AssignmentStatus
    <2>4. QED BY <1>2, <2>1, <2>2, <2>3 DEF IsBlocking, BlockingStatuses
  <1>3. QED BY <1>1, <1>2

\* What an insert leaves in the table: the new row and, where it ends one, a
\* historical row.
LEMMA InsertsRow ==
  ASSUME TypeInv, NEW q \in Requests, Inserts(q), NEW b \in RowIds
  PROVE  /\ RowId(q) \in RowIds /\ NewRow(q) \in Row
         /\ assignment'[RowId(q)] = NewRow(q)
         /\ b # RowId(q) => assignment'[b] = AfterEnding(q)[b]
  <1>1. RowId(q) \in RowIds
    BY RowIdType DEF TypeInv
  <1>2. NewRow(q) \in Row
    BY NewRowType DEF Inserts, Working
  <1>3. AfterEnding(q) \in [RowIds -> Row \cup {NoRow}]
    BY AfterEndingType
  <1>4. QED BY <1>1, <1>2, <1>3 DEF Inserts

\* Overlapping is symmetric.
LEMMA OverlapSymmetric ==
  ASSUME NEW x \in Range, NEW y \in Range
  PROVE  RangesOverlap(x, y) <=> RangesOverlap(y, x)
  BY DEF RangesOverlap, Overlap, Range

\* No step makes two blocking rows of a resource overlap: the constraint
\* looks at every insert.
LEMMA NextNoOverlap == TypeInv /\ NoOverlap /\ [Next]_vars => NoOverlap'
  <1> SUFFICES ASSUME TypeInv, NoOverlap, [Next]_vars,
                      NEW a \in RowIds, NEW b \in RowIds, a # b,
                      IsBlocking(assignment'[a]), IsBlocking(assignment'[b]),
                      assignment'[a].resource = assignment'[b].resource
               PROVE  ~RangesOverlap(assignment'[a].range, assignment'[b].range)
    BY DEF NoOverlap, IsBlocking
  <1>1. CASE assignment' = assignment
    BY <1>1 DEF NoOverlap
  <1>2. ASSUME NEW c \in RowIds, NEW s \in ReleaseStatuses, Releases(c, s)
        PROVE  ~RangesOverlap(assignment'[a].range, assignment'[b].range)
    <2>1. a # c /\ b # c
      BY <1>2, ReleasesRow
    <2>2. assignment'[a] = assignment[a] /\ assignment'[b] = assignment[b]
      BY <1>2, <2>1, ReleasesRow
    <2>3. QED BY <2>2 DEF NoOverlap
  <1>3. ASSUME NEW q \in Requests, Inserts(q)
        PROVE  ~RangesOverlap(assignment'[a].range, assignment'[b].range)
    <2> DEFINE Old(c) == c # RowId(q)
    <2>1. ASSUME NEW c \in RowIds, Old(c), IsBlocking(assignment'[c])
          PROVE  assignment'[c] = assignment[c] /\ assignment'[c] = AfterEnding(q)[c]
      BY <1>3, <2>1, InsertsRow, EndingRow
    <2>2. ASSUME NEW c \in RowIds, Old(c), IsBlocking(assignment'[c]),
                 IsBlocking(NewRow(q)),
                 assignment'[c].resource = NewRow(q).resource
          PROVE  ~RangesOverlap(assignment'[c].range, NewRow(q).range)
      BY <1>3, <2>1, <2>2 DEF Inserts, Excluded
    <2>3. CASE Old(a) /\ Old(b)
      BY <2>1, <2>3 DEF NoOverlap
    <2>4. CASE Old(a) /\ ~Old(b)
      BY <1>3, <2>2, <2>4, InsertsRow
    <2>5. CASE ~Old(a) /\ Old(b)
      <3>1. ~RangesOverlap(assignment'[b].range, assignment'[a].range)
        BY <1>3, <2>2, <2>5, InsertsRow
      <3>2. assignment'[a] \in Row /\ assignment'[b] \in Row
        <4>1. TypeInv'
          BY NextType
        <4>2. QED BY <4>1 DEF TypeInv, TypeOK, IsBlocking
      <3>3. QED BY <3>1, <3>2, OverlapSymmetric DEF Row
    <2>6. QED BY <2>3, <2>4, <2>5
  <1>4. QED BY <1>1, <1>2, <1>3, AssignmentSteps

\* No two RESERVED or ACTIVE assignments of one resource overlap, however many
\* requests race and whatever the availability queries let through.
THEOREM AssignmentsDoNotOverlap == Spec => []NoOverlap
  <1>1. Init => NoOverlap
    BY DEF Init, NoOverlap, IsBlocking
  <1>2. QED BY <1>1, NextNoOverlap, TypeInvariant, PTL DEF Spec

-----------------------------------------------------------------------------
(* What a request has booked so far. *)

\* The rows of a request are those of the items before its current one; the
\* current one is booked exactly when its transaction has committed.
BookedSoFar(q) ==
  /\ \A k \in 1 .. MaxItems : k < item[q] => assignment[<<q, k>>] # NoRow
  /\ \A k \in 1 .. MaxItems : k > item[q] => assignment[<<q, k>>] = NoRow
  /\ pc[q] \in Working \cup {"idle", "lock"} => assignment[RowId(q)] = NoRow
  /\ pc[q] = "audit" /\ Creates(q) => assignment[RowId(q)] # NoRow

\* A request is answered when it is done, in accordance with what it booked.
Answered(q) ==
  /\ pc[q] # "done" => reply[q] = "none"
  /\ Creates(q) => item[q] <= Len(call[q].items)
  /\ reply[q] = "ok" /\ Creates(q) =>
       assignment[RowId(q)] # NoRow /\ item[q] = Len(call[q].items)
  /\ reply[q] \in {"refused", "conflict"} /\ ~AuditMayFail =>
       assignment[RowId(q)] = NoRow

ProgressInv == \A q \in Requests : BookedSoFar(q) /\ Answered(q)

\* Only the request that takes a step can change what ProgressInv says of it.
LEMMA ProgressFrame ==
  ASSUME TypeInv, ProgressInv, NEW q \in Requests,
         \A p \in Requests \ {q} :
           /\ pc'[p] = pc[p] /\ call'[p] = call[p]
           /\ item'[p] = item[p] /\ reply'[p] = reply[p],
         \A p \in Requests \ {q}, k \in 1 .. MaxItems :
           assignment'[<<p, k>>] = NoRow <=> assignment[<<p, k>>] = NoRow,
         BookedSoFar(q)', Answered(q)'
  PROVE  ProgressInv'
  <1> SUFFICES ASSUME NEW p \in Requests, p # q
               PROVE  BookedSoFar(p)' /\ Answered(p)'
    BY DEF ProgressInv
  <1>1. /\ pc'[p] = pc[p] /\ call'[p] = call[p]
        /\ item'[p] = item[p] /\ reply'[p] = reply[p]
        /\ item[p] \in 1 .. MaxItems
        /\ \A k \in 1 .. MaxItems :
             assignment'[<<p, k>>] = NoRow <=> assignment[<<p, k>>] = NoRow
    BY DEF TypeInv, TypeOK
  <1>2. BookedSoFar(p) /\ Answered(p)
    BY DEF ProgressInv
  <1>3. BookedSoFar(p)'
    BY <1>1, <1>2 DEF BookedSoFar, RowId, Creates
  <1>4. Answered(p)'
    BY <1>1, <1>2 DEF Answered, RowId, Creates
  <1>5. QED BY <1>3, <1>4

\* A request that arrives has booked nothing and been answered nothing.
LEMMA ArriveProgress ==
  ASSUME TypeInv, ProgressInv, NEW q \in Requests, Arrive(q)
  PROVE  ProgressInv'
  <1>1. PICK c, step :
          /\ Start(q, c, step)
          /\ \/ step \in {"resolve", "lock"}
             \/ step = "audit" /\ c.op = "release"
    <2>1. CASE Assign(q)
      BY <2>1 DEF Assign
    <2>2. CASE BulkAssign(q)
      BY <2>2 DEF BulkAssign
    <2>3. CASE Reassign(q)
      BY <2>3 DEF Reassign
    <2>4. CASE Release(q)
      <3>1. PICK a \in RowIds, s \in ReleaseStatuses :
              Start(q, [op |-> "release", eventId |-> assignment[a].eventId,
                        target |-> a, items |-> <<>>], "audit")
        BY <2>4 DEF Release
      <3>2. QED BY <3>1
    <2>5. QED BY <2>1, <2>2, <2>3, <2>4 DEF Arrive
  <1>2. \A a \in RowIds : assignment'[a] = NoRow <=> assignment[a] = NoRow
    <2>1. CASE assignment' = assignment
      BY <2>1
    <2>2. CASE Release(q)
      <3>1. PICK a \in RowIds, s \in ReleaseStatuses : Releases(a, s)
        BY <2>2, ReleaseStep DEF Releases, TypeInv
      <3>2. \A b \in RowIds : /\ b # a => assignment'[b] = assignment[b]
                              /\ assignment'[a] \in Row
        BY <3>1, ReleasesRow
      <3>3. assignment[a] \in Row
        BY <3>1 DEF Releases
      <3>4. QED BY <3>2, <3>3
    <2>3. QED BY <2>1, <2>2 DEF Arrive, Assign, BulkAssign, Reassign
  <1>3. /\ pc[q] = "idle" /\ item[q] = 1 /\ item' = item /\ reply' = reply
        /\ pc' = [pc EXCEPT ![q] = step] /\ call' = [call EXCEPT ![q] = c]
        /\ pc \in [Requests -> Steps] /\ call \in [Requests -> Call]
    BY <1>1 DEF Start, TypeInv, TypeOK, CallInv
  <1>4. /\ pc'[q] = step /\ call'[q] = c
        /\ \A p \in Requests \ {q} : pc'[p] = pc[p] /\ call'[p] = call[p]
    BY <1>3
  <1>5. TypeInv'
    BY AssignType, BulkAssignType, ReassignType, ReleaseType DEF Arrive
  <1>6. BookedSoFar(q) /\ Answered(q)
    BY DEF ProgressInv
  <1>7. \A k \in 1 .. MaxItems : <<q, k>> \in RowIds
    BY DEF RowIds
  <1>8. BookedSoFar(q)'
    <2>1. \A k \in 1 .. MaxItems : assignment'[<<q, k>>] = NoRow
      BY <1>2, <1>3, <1>6, <1>7 DEF BookedSoFar, RowId
    <2>2. 1 \in 1 .. MaxItems /\ item'[q] = 1
      BY <1>3
    <2>3. pc'[q] = "audit" => ~Creates(q)'
      BY <1>1, <1>4 DEF Creates
    <2>4. QED BY <2>1, <2>2, <2>3 DEF BookedSoFar, RowId
  <1>9. Answered(q)'
    <2>1. Creates(q)' => item'[q] <= Len(call'[q].items)
      BY <1>1, <1>4, <1>5 DEF TypeInv, CallInv, Creates, Working
    <2>2. reply'[q] = "none" /\ pc'[q] # "done"
      BY <1>1, <1>3, <1>4, <1>6 DEF Answered
    <2>3. QED BY <2>1, <2>2 DEF Answered
  <1>10. \A p \in Requests \ {q}, k \in 1 .. MaxItems :
           assignment'[<<p, k>>] = NoRow <=> assignment[<<p, k>>] = NoRow
    BY <1>2 DEF RowIds
  <1>11. QED BY <1>3, <1>4, <1>8, <1>9, <1>10, ProgressFrame

\* A step that books nothing: the request works on, fails, or is cut off.
LEMMA MoveProgress ==
  ASSUME TypeInv, ProgressInv, NEW q \in Requests,
         UNCHANGED <<assignment, call, item>>,
         \/ /\ pc[q] \in Working \cup {"lock"}
            /\ \E step \in Working : pc' = [pc EXCEPT ![q] = step]
            /\ UNCHANGED reply
         \/ pc[q] \in Working \cup {"lock"} /\ Fail(q)
         \/ pc[q] = "audit" /\ AuditMayFail /\ (Fail(q) \/ RecordFails(q))
         \/ pc[q] # "done" /\ pc' = [pc EXCEPT ![q] = "done"] /\ UNCHANGED reply
  PROVE  ProgressInv'
  <1>1. /\ \A p \in Requests \ {q} : pc'[p] = pc[p] /\ reply'[p] = reply[p]
        /\ \/ /\ pc[q] \in Working \cup {"lock"} /\ pc'[q] \in Working
              /\ reply'[q] = reply[q]
           \/ /\ pc[q] \in Working \cup {"lock"} /\ pc'[q] = "done"
              /\ reply'[q] \in {"refused", "conflict"}
           \/ /\ AuditMayFail /\ pc'[q] = "done"
              /\ reply'[q] \in {"refused", "conflict"}
           \/ pc[q] # "done" /\ pc'[q] = "done" /\ reply'[q] = reply[q]
    BY DEF Fail, RecordFails, TypeInv, TypeOK
  <1>2. BookedSoFar(q) /\ Answered(q)
    BY DEF ProgressInv
  <1>3. BookedSoFar(q)'
    BY <1>1, <1>2 DEF BookedSoFar, RowId, Creates, Working
  <1>4. Answered(q)'
    BY <1>1, <1>2 DEF Answered, BookedSoFar, RowId, Creates, Working
  <1>5. QED BY <1>1, <1>3, <1>4, ProgressFrame

\* An insert books the current item of its request.
LEMMA CreateProgress ==
  ASSUME TypeInv, ProgressInv, NEW q \in Requests, Inserts(q),
         pc' = [pc EXCEPT ![q] = "audit"],
         UNCHANGED <<call, item, reply>>
  PROVE  ProgressInv'
  <1>1. \A p \in Requests, k \in 1 .. MaxItems :
          <<p, k>> # RowId(q) =>
            (assignment'[<<p, k>>] = NoRow <=> assignment[<<p, k>>] = NoRow)
    <2> SUFFICES ASSUME NEW p \in Requests, NEW k \in 1 .. MaxItems,
                        <<p, k>> # RowId(q)
                 PROVE  assignment'[<<p, k>>] = NoRow <=> assignment[<<p, k>>] = NoRow
      OBVIOUS
    <2>1. <<p, k>> \in RowIds
      BY DEF RowIds
    <2>2. assignment'[<<p, k>>] = AfterEnding(q)[<<p, k>>]
      BY <2>1, InsertsRow
    <2>3. AfterEnding(q)[<<p, k>>] = NoRow <=> assignment[<<p, k>>] = NoRow
      BY <2>1, EndingRow
    <2>4. QED BY <2>2, <2>3
  <1>2. assignment'[RowId(q)] # NoRow
    BY InsertsRow, RowIdType DEF TypeInv
  <1>3. /\ pc[q] = "commit" /\ pc'[q] = "audit" /\ item[q] \in 1 .. MaxItems
        /\ \A p \in Requests \ {q} : pc'[p] = pc[p]
    BY DEF Inserts, TypeInv, TypeOK
  <1>4. BookedSoFar(q) /\ Answered(q)
    BY DEF ProgressInv
  <1>5. BookedSoFar(q)'
    BY <1>1, <1>2, <1>3, <1>4 DEF BookedSoFar, RowId, Working
  <1>6. Answered(q)'
    BY <1>2, <1>3, <1>4 DEF Answered, RowId, Creates
  <1>7. \A p \in Requests \ {q}, k \in 1 .. MaxItems :
          assignment'[<<p, k>>] = NoRow <=> assignment[<<p, k>>] = NoRow
    BY <1>1 DEF RowId
  <1>8. QED BY <1>3, <1>5, <1>6, <1>7, ProgressFrame

\* A request that creates rows is never a release.
LEMMA ReleaseCarriesNoItems ==
  ASSUME TypeInv, NEW q \in Requests, Len(call[q].items) # 0
  PROVE  Creates(q)
  <1>1. call[q].op \in {"none", "assign", "bulk", "release", "reassign"}
    BY DEF TypeInv, TypeOK, Call
  <1>2. QED BY <1>1 DEF TypeInv, CallInv, Creates

\* After the audit write a request turns to its next item or has booked them
\* all.
LEMMA AuditProgress ==
  ASSUME TypeInv, ProgressInv, NEW q \in Requests, Audit(q)
  PROVE  ProgressInv'
  <1>0. /\ pc[q] = "audit" /\ UNCHANGED <<assignment, call>>
        /\ item[q] \in 1 .. MaxItems
        /\ item \in [Requests -> 1 .. MaxItems]
        /\ pc \in [Requests -> Steps] /\ reply \in [Requests -> Replies]
        /\ Len(call[q].items) \in Nat /\ Len(call[q].items) <= MaxItems
    BY ItemsLength DEF Audit, TypeInv, TypeOK, CallInv
  <1>1. BookedSoFar(q) /\ Answered(q)
    BY DEF ProgressInv
  <1>2. CASE /\ MoreItems(q)
             /\ item' = [item EXCEPT ![q] = @ + 1]
             /\ pc' = [pc EXCEPT ![q] = "resolve"]
             /\ UNCHANGED reply
    <2>1. /\ pc'[q] = "resolve" /\ item'[q] = item[q] + 1 /\ reply' = reply
          /\ item[q] + 1 \in 1 .. MaxItems /\ item'[q] <= Len(call[q].items)
          /\ \A p \in Requests \ {q} : pc'[p] = pc[p] /\ item'[p] = item[p]
      BY <1>0, <1>2 DEF MoreItems
    <2>2. Creates(q)
      <3>1. Len(call[q].items) # 0
        BY <1>0, <2>1
      <3>2. QED BY <1>0, <1>2, <2>1, ReleaseCarriesNoItems
    <2>3. BookedSoFar(q)'
      <3>1. \A k \in 1 .. MaxItems : k < item[q] + 1 => assignment[<<q, k>>] # NoRow
        <4> SUFFICES ASSUME NEW k \in 1 .. MaxItems, k < item[q] + 1
                     PROVE  assignment[<<q, k>>] # NoRow
          OBVIOUS
        <4>1. CASE k = item[q]
          BY <1>0, <1>1, <2>2, <4>1 DEF BookedSoFar, RowId
        <4>2. CASE k < item[q]
          BY <1>1, <4>2 DEF BookedSoFar
        <4>3. QED BY <1>0, <4>1, <4>2
      <3>2. \A k \in 1 .. MaxItems : k > item[q] + 1 => assignment[<<q, k>>] = NoRow
        BY <1>0, <1>1 DEF BookedSoFar
      <3>3. assignment[<<q, item[q] + 1>>] = NoRow
        BY <1>0, <1>1, <2>1 DEF BookedSoFar
      <3>4. QED BY <1>0, <2>1, <3>1, <3>2, <3>3 DEF BookedSoFar, RowId
    <2>4. Answered(q)'
      BY <1>0, <1>1, <2>1 DEF Answered
    <2>5. QED BY <1>0, <2>1, <2>3, <2>4, ProgressFrame
  <1>3. CASE /\ ~MoreItems(q)
             /\ pc' = [pc EXCEPT ![q] = "done"]
             /\ reply' = [reply EXCEPT ![q] = "ok"]
             /\ UNCHANGED item
    <2>1. /\ pc'[q] = "done" /\ reply'[q] = "ok" /\ item' = item
          /\ Creates(q) => item[q] = Len(call[q].items)
          /\ \A p \in Requests \ {q} : pc'[p] = pc[p] /\ reply'[p] = reply[p]
      BY <1>0, <1>1, <1>3 DEF MoreItems, Answered
    <2>2. BookedSoFar(q)'
      BY <1>0, <1>1, <2>1 DEF BookedSoFar, RowId, Working
    <2>3. Answered(q)'
      BY <1>0, <1>1, <2>1 DEF Answered, BookedSoFar, RowId, Creates
    <2>4. QED BY <1>0, <2>1, <2>2, <2>3, ProgressFrame
  <1>4. CASE AuditMayFail /\ (Fail(q) \/ RecordFails(q)) /\ UNCHANGED item
    BY <1>0, <1>4, MoveProgress
  <1>5. QED BY <1>2, <1>3, <1>4 DEF Audit

\* Rejecting an insert, like every failed check, is a failure.
LEMMA AdvanceProgress ==
  ASSUME TypeInv, ProgressInv, NEW q \in Requests, Advance(q)
  PROVE  ProgressInv'
  <1>1. CASE LockTarget(q)
    <2>1. \E step \in Working : pc' = [pc EXCEPT ![q] = step]
      BY <1>1 DEF LockTarget, Working
    <2>2. /\ pc[q] \in Working \cup {"lock"}
          /\ UNCHANGED <<assignment, call, item>> /\ UNCHANGED reply
      BY <1>1 DEF LockTarget
    <2>3. QED BY <2>1, <2>2, MoveProgress
  <1>2. ASSUME NEW passes \in BOOLEAN, Check(q, passes),
               pc[q] \in Working \ {"commit"},
               UNCHANGED <<assignment, call, item>>
        PROVE  ProgressInv'
    <2>1. CASE Fail(q)
      BY <1>2, <2>1, MoveProgress
    <2>2. CASE pc' = [pc EXCEPT ![q] = Follow[pc[q]]] /\ UNCHANGED reply
      <3>1. Follow[pc[q]] \in Working
        BY <1>2 DEF Working, Follow
      <3>2. QED BY <1>2, <2>2, <3>1, MoveProgress
    <2>3. QED BY <1>2, <2>1, <2>2 DEF Check
  <1>3. CASE ResolveAssignmentWindow(q)
    <2> DEFINE e == event[call[q].eventId]
               w == Window(e.schedule, Current(q).range)
    <2>1. /\ Check(q, ~e.deleted /\ w.endsAt > w.startsAt)
          /\ pc[q] \in Working \ {"commit"}
          /\ UNCHANGED <<assignment, call, item>>
      BY <1>3 DEF ResolveAssignmentWindow, Working
    <2> HIDE DEF e, w
    <2>2. QED BY <1>2, <2>1
  <1>4. CASE EnsureResourceAssignable(q)
    BY <1>2, <1>4 DEF EnsureResourceAssignable, Working
  <1>5. CASE EnsureAvailable(q)
    BY <1>2, <1>5 DEF EnsureAvailable, Working
  <1>6. CASE CreateAssignment(q)
    <2>1. CASE Inserts(q) /\ pc' = [pc EXCEPT ![q] = "audit"] /\ UNCHANGED reply
      BY <1>6, <2>1, CreateProgress DEF CreateAssignment
    <2>2. CASE Reject(q) /\ UNCHANGED assignment
      <3>1. pc[q] \in Working /\ Fail(q) /\ UNCHANGED <<assignment, call, item>>
        BY <1>6, <2>2 DEF CreateAssignment, Working, Reject
      <3>2. QED BY <3>1, MoveProgress
    <2>3. QED BY <1>6, <2>1, <2>2 DEF CreateAssignment, Inserts
  <1>7. CASE Audit(q)
    BY <1>7, AuditProgress
  <1>8. QED BY <1>1, <1>3, <1>4, <1>5, <1>6, <1>7 DEF Advance

\* The bookkeeping of requests is inductive.
LEMMA NextProgress == TypeInv /\ ProgressInv /\ [Next]_vars => ProgressInv'
  <1> SUFFICES ASSUME TypeInv, ProgressInv, [Next]_vars
               PROVE  ProgressInv'
    OBVIOUS
  <1>1. ASSUME UNCHANGED <<assignment, pc, call, item, reply>>
        PROVE  ProgressInv'
    BY <1>1 DEF ProgressInv, BookedSoFar, Answered, RowId, Creates
  <1>2. CASE UNCHANGED vars
    BY <1>1, <1>2 DEF vars
  <1>3. CASE Administer
    BY <1>1, <1>3 DEF Administer, RemoveEvent, UpdateEvent, UpdateStatus,
                      UpdateMaintenance
  <1>4. ASSUME NEW q \in Requests, Arrive(q)
        PROVE  ProgressInv'
    BY <1>4, ArriveProgress
  <1>5. ASSUME NEW q \in Requests, Advance(q)
        PROVE  ProgressInv'
    BY <1>5, AdvanceProgress
  <1>6. ASSUME NEW q \in Requests, Expire(q)
        PROVE  ProgressInv'
    BY <1>6, MoveProgress DEF Expire, InTx, Working
  <1>7. ASSUME NEW q \in Requests, Crash(q)
        PROVE  ProgressInv'
    BY <1>7, MoveProgress DEF Crash
  <1>8. QED BY <1>2, <1>3, <1>4, <1>5, <1>6, <1>7 DEF Next

\* The bookkeeping of requests holds in every reachable state.
LEMMA ProgressInvariant == Spec => []ProgressInv
  <1>1. Init => ProgressInv
    <2> SUFFICES ASSUME Init, NEW q \in Requests
                 PROVE  BookedSoFar(q) /\ Answered(q)
      BY DEF ProgressInv
    <2>1. /\ pc[q] = "idle" /\ call[q].op = "none" /\ item[q] = 1
          /\ reply[q] = "none" /\ \A a \in RowIds : assignment[a] = NoRow
      BY DEF Init, NoCall
    <2>2. \A k \in 1 .. MaxItems : <<q, k>> \in RowIds
      BY DEF RowIds
    <2>3. BookedSoFar(q)
      BY <2>1, <2>2 DEF BookedSoFar, RowId, Working
    <2>4. Answered(q)
      BY <2>1 DEF Answered, Creates
    <2>5. QED BY <2>3, <2>4
  <1>2. QED BY <1>1, NextProgress, TypeInvariant, PTL DEF Spec

\* When the audit write cannot fail, what a caller of assign, bulk or reassign
\* is told agrees with the rows its request left, item by item.
THEOREM AnswersHold ==
  ASSUME AuditMayFail = FALSE
  PROVE  Spec => []AnswersAreTrue
  <1>1. TypeInv /\ ProgressInv => AnswersAreTrue
    <2> SUFFICES ASSUME TypeInv, ProgressInv, NEW q \in Requests, Creates(q),
                        NEW k \in 1 .. Len(call[q].items)
                 PROVE  /\ reply[q] = "ok" => assignment[<<q, k>>] # NoRow
                        /\ reply[q] \in {"refused", "conflict"} =>
                             (assignment[<<q, k>>] # NoRow <=> k < item[q])
      BY DEF AnswersAreTrue
    <2>1. /\ BookedSoFar(q) /\ Answered(q)
          /\ Len(call[q].items) \in Nat /\ Len(call[q].items) <= MaxItems
          /\ k \in 1 .. MaxItems /\ item[q] \in 1 .. MaxItems
      BY ItemsLength DEF ProgressInv, TypeInv, TypeOK, CallInv
    <2>2. ~(k < item[q]) => k = item[q] \/ k > item[q]
      BY <2>1
    <2>3. QED BY <2>1, <2>2 DEF BookedSoFar, Answered, RowId
  <1>2. QED BY <1>1, TypeInvariant, ProgressInvariant, PTL

-----------------------------------------------------------------------------
(* What was checked is what is stored. *)

\* A request ready to insert has found no maintenance window in the way of the
\* very window it inserts, of the very resource it inserts it for.
CheckedInv ==
  \A q \in Requests :
    pc[q] = "commit" => ~InMaintenance(Current(q).resource, range[q])

\* Only EnsureAvailable brings a request to its insert.
LEMMA NextChecked == TypeInv /\ CheckedInv /\ [Next]_vars => CheckedInv'
  <1> SUFFICES ASSUME TypeInv, CheckedInv, [Next]_vars,
                      NEW q \in Requests, pc'[q] = "commit"
               PROVE  ~InMaintenance(Current(q)'.resource, range'[q])
    BY DEF CheckedInv, InMaintenance
  <1>0. /\ pc \in [Requests -> Steps] /\ call \in [Requests -> Call]
        /\ item \in [Requests -> 1 .. MaxItems] /\ range \in [Requests -> Range]
    BY DEF TypeInv, TypeOK
  <1>1. ASSUME pc[q] = "commit", range'[q] = range[q],
               call'[q] = call[q], item'[q] = item[q]
        PROVE  ~InMaintenance(Current(q)'.resource, range'[q])
    BY <1>1 DEF CheckedInv, Current
  <1>2. CASE EnsureAvailable(q)
    <2>1. ~InMaintenance(Current(q).resource, range[q])
      BY <1>0, <1>2 DEF EnsureAvailable, Check, Fail
    <2>2. range'[q] = range[q] /\ call'[q] = call[q] /\ item'[q] = item[q]
      BY <1>2 DEF EnsureAvailable
    <2>3. QED BY <2>1, <2>2 DEF Current
  <1>3. CASE UNCHANGED vars
    BY <1>1, <1>3 DEF vars
  <1>4. CASE Administer
    <2>1. UNCHANGED <<pc, call, item, range>>
      BY <1>4 DEF Administer, RemoveEvent, UpdateEvent, UpdateStatus,
                  UpdateMaintenance
    <2>2. QED BY <1>1, <2>1
  <1>5. ASSUME NEW p \in Requests, NEW c, NEW step \in {"resolve", "lock", "audit"},
               Start(p, c, step)
        PROVE  ~InMaintenance(Current(q)'.resource, range'[q])
    <2>1. p # q
      BY <1>0, <1>5 DEF Start
    <2>2. pc'[q] = pc[q] /\ call'[q] = call[q] /\ item' = item /\ range' = range
      BY <1>0, <1>5, <2>1 DEF Start
    <2>3. QED BY <1>1, <2>2
  <1>6. ASSUME NEW p \in Requests, Arrive(p)
        PROVE  ~InMaintenance(Current(q)'.resource, range'[q])
    BY <1>5, <1>6 DEF Arrive, Assign, BulkAssign, Release, Reassign
  <1>7. ASSUME NEW p \in Requests, Advance(p) \/ Expire(p) \/ Crash(p),
               ~EnsureAvailable(q)
        PROVE  ~InMaintenance(Current(q)'.resource, range'[q])
    <2>1. CASE p # q
      <3>1. /\ pc'[q] = pc[q] /\ call'[q] = call[q] /\ item'[q] = item[q]
            /\ range'[q] = range[q]
        BY <1>0, <1>7, <2>1
        DEF Advance, LockTarget, ResolveAssignmentWindow,
            EnsureResourceAssignable, EnsureAvailable, CreateAssignment, Audit,
            Expire, Crash, Check, Fail, Reject, RecordFails
      <3>2. QED BY <1>1, <3>1
    <2>2. CASE p = q
      <3>1. pc'[q] # "commit"
        BY <1>0, <1>7, <2>2
        DEF Advance, LockTarget, ResolveAssignmentWindow,
            EnsureResourceAssignable, CreateAssignment, Audit,
            Expire, Crash, Check, Fail, Reject, RecordFails, Follow
      <3>2. QED BY <3>1
    <2>3. QED BY <2>1, <2>2
  <1>8. QED BY <1>2, <1>3, <1>4, <1>6, <1>7 DEF Next

\* No step stores a row that runs into maintenance, when inserts follow
\* checks.
LEMMA NextMaintenance ==
  TypeInv /\ CheckedInv /\ RespectsMaintenance /\ [Next]_vars
    => RespectsMaintenance'
  <1> SUFFICES ASSUME TypeInv, CheckedInv, RespectsMaintenance, [Next]_vars,
                      NEW a \in RowIds, assignment'[a] # NoRow
               PROVE  ~InMaintenance(assignment'[a].resource, assignment'[a].range)
    BY DEF RespectsMaintenance, InMaintenance
  <1>1. ASSUME assignment[a] \in Row, NEW s,
               assignment'[a] = [assignment[a] EXCEPT !.status = s]
        PROVE  ~InMaintenance(assignment'[a].resource, assignment'[a].range)
    <2>1. /\ assignment'[a].resource = assignment[a].resource
          /\ assignment'[a].range = assignment[a].range
      BY <1>1 DEF Row
    <2>2. QED BY <1>1, <2>1 DEF RespectsMaintenance
  <1>2. ASSUME assignment'[a] = assignment[a]
        PROVE  ~InMaintenance(assignment'[a].resource, assignment'[a].range)
    BY <1>2 DEF RespectsMaintenance
  <1>3. ASSUME NEW c \in RowIds, NEW s \in ReleaseStatuses, Releases(c, s)
        PROVE  ~InMaintenance(assignment'[a].resource, assignment'[a].range)
    BY <1>1, <1>2, <1>3, ReleasesRow DEF Releases
  <1>4. ASSUME NEW q \in Requests, Inserts(q)
        PROVE  ~InMaintenance(assignment'[a].resource, assignment'[a].range)
    <2>1. CASE a = RowId(q)
      <3>1. assignment'[a] = NewRow(q) /\ pc[q] = "commit"
        BY <1>4, <2>1, InsertsRow DEF Inserts
      <3>2. /\ assignment'[a].resource = Current(q).resource
            /\ assignment'[a].range = range[q]
        BY <3>1 DEF NewRow
      <3>3. QED BY <3>1, <3>2 DEF CheckedInv
    <2>2. CASE a # RowId(q)
      <3>1. assignment'[a] = AfterEnding(q)[a]
        BY <1>4, <2>2, InsertsRow
      <3>2. assignment[a] \in Row
        BY <3>1, EndingRow DEF TypeInv, TypeOK
      <3>3. QED BY <1>1, <1>2, <3>1, <3>2, EndingRow
    <2>3. QED BY <2>1, <2>2
  <1>5. QED BY <1>2, <1>3, <1>4, AssignmentSteps

\* No assignment is ever stored across a maintenance window of its resource,
\* although only the application looks and every window is resolved anew
\* between the look and the insert.
THEOREM MaintenanceIsRespected == Spec => []RespectsMaintenance
  <1>1. Init => CheckedInv /\ RespectsMaintenance
    BY DEF Init, CheckedInv, RespectsMaintenance
  <1>2. QED BY <1>1, NextChecked, NextMaintenance, TypeInvariant, PTL DEF Spec

-----------------------------------------------------------------------------
(* How a step may change the assignments. *)

\* An insert takes a name no row has.
LEMMA InsertIsFresh ==
  ASSUME ProgressInv, NEW q \in Requests, Inserts(q)
  PROVE  assignment[RowId(q)] = NoRow
  BY DEF ProgressInv, BookedSoFar, Inserts, Working

\* What may become of a row in one step.
Final(a) ==
  assignment[a] # NoRow =>
    /\ assignment'[a] # NoRow
    /\ assignment'[a] = [assignment[a] EXCEPT !.status = assignment'[a].status]
    /\ ~IsBlocking(assignment[a]) => ~IsBlocking(assignment'[a])

\* A step that changes the tables leaves history final.
LEMMA RowsStayFinal ==
  ASSUME TypeInv, ProgressInv, [Next]_vars, NEW a \in RowIds
  PROVE  Final(a)
  <1> SUFFICES ASSUME assignment[a] # NoRow
               PROVE  Final(a)
    BY DEF Final
  <1>0. assignment[a] \in Row
    BY DEF TypeInv, TypeOK
  <1>1. ASSUME assignment'[a] = assignment[a]
        PROVE  Final(a)
    BY <1>0, <1>1 DEF Row, Final
  <1>2. ASSUME NEW s, assignment'[a] = [assignment[a] EXCEPT !.status = s],
               assignment'[a] \in Row, assignment'[a].status = s,
               ~IsBlocking(assignment'[a])
        PROVE  Final(a)
    <2>1. assignment'[a] # NoRow
      BY <1>2
    <2>2. assignment'[a] = [assignment[a] EXCEPT !.status = assignment'[a].status]
      BY <1>2
    <2>3. QED BY <1>2, <2>1, <2>2 DEF Final
  <1>3. ASSUME NEW c \in RowIds, NEW s \in ReleaseStatuses, Releases(c, s)
        PROVE  Final(a)
    BY <1>1, <1>2, <1>3, ReleasesRow
  <1>4. ASSUME NEW q \in Requests, Inserts(q)
        PROVE  Final(a)
    <2>1. a # RowId(q)
      BY <1>4, InsertIsFresh
    <2>2. assignment'[a] = AfterEnding(q)[a]
      BY <1>4, <2>1, InsertsRow
    <2>3. CASE ~(call[q].op = "reassign" /\ a = call[q].target)
      BY <1>1, <2>2, <2>3, EndingRow
    <2>4. CASE call[q].op = "reassign" /\ a = call[q].target
      <3>1. /\ assignment'[a] = [assignment[a] EXCEPT !.status = "RELEASED"]
            /\ assignment'[a].status = "RELEASED" /\ assignment'[a] \in Row
            /\ ~IsBlocking(assignment'[a])
        BY <2>2, <2>4, EndingRow
      <3>2. QED BY <1>2, <3>1
    <2>5. QED BY <2>3, <2>4
  <1>5. QED BY <1>1, <1>3, <1>4, AssignmentSteps

\* History is final: a step adds rows and ends rows, and does nothing else to
\* them, so that a release repeated or a reassign of a row already released
\* can never make it block again.
THEOREM HistoryStaysFinal == Spec => HistoryIsFinal
  <1>1. TypeInv /\ ProgressInv /\ [Next]_vars => [\A a \in RowIds : Final(a)]_vars
    BY RowsStayFinal
  <1>2. QED BY <1>1, TypeInvariant, ProgressInvariant, PTL
        DEF Spec, HistoryIsFinal, Final

-----------------------------------------------------------------------------
(* Reassignment. *)

\* A reassign works for the event of the assignment it is to end, and what it
\* is to insert blocks its resource.
TargetInv ==
  \A q \in Requests : call[q].op = "reassign" =>
    /\ call[q].eventId = assignment[call[q].target].eventId
    /\ \A k \in 1 .. Len(call[q].items) :
         call[q].items[k].status \in BlockingStatuses

\* A step either leaves the calls alone or makes one.
LEMMA CallSteps ==
  ASSUME TypeInv, [Next]_vars
  PROVE  \/ call' = call
         \/ \E q \in Requests :
              /\ pc[q] = "idle"
              /\ \A p \in Requests \ {q} : call'[p] = call[p]
              /\ Reassign(q) \/ call'[q].op # "reassign"
  <1>0. call \in [Requests -> Call]
    BY DEF TypeInv, TypeOK
  <1>1. CASE UNCHANGED vars
    BY <1>1 DEF vars
  <1>2. CASE Administer
    BY <1>2 DEF Administer, RemoveEvent, UpdateEvent, UpdateStatus,
                UpdateMaintenance
  <1>3. ASSUME NEW q \in Requests, Advance(q) \/ Expire(q) \/ Crash(q)
        PROVE  call' = call
    BY <1>3 DEF Advance, LockTarget, ResolveAssignmentWindow,
         EnsureResourceAssignable, EnsureAvailable, CreateAssignment, Audit,
         Expire, Crash
  <1>4. ASSUME NEW q \in Requests, NEW c, NEW step, Start(q, c, step)
        PROVE  /\ pc[q] = "idle" /\ call'[q] = c
               /\ \A p \in Requests \ {q} : call'[p] = call[p]
    BY <1>0, <1>4 DEF Start
  <1>5. ASSUME NEW q \in Requests, Arrive(q)
        PROVE  /\ pc[q] = "idle"
               /\ \A p \in Requests \ {q} : call'[p] = call[p]
               /\ Reassign(q) \/ call'[q].op # "reassign"
    <2>1. CASE Assign(q)
      <3>1. PICK c, step : Start(q, c, step) /\ c.op = "assign"
        BY <2>1 DEF Assign
      <3>2. QED BY <1>4, <3>1
    <2>2. CASE BulkAssign(q)
      <3>1. PICK c, step : Start(q, c, step) /\ c.op = "bulk"
        BY <2>2 DEF BulkAssign
      <3>2. QED BY <1>4, <3>1
    <2>3. CASE Release(q)
      <3>1. PICK c, step : Start(q, c, step) /\ c.op = "release"
        BY <2>3 DEF Release
      <3>2. QED BY <1>4, <3>1
    <2>4. CASE Reassign(q)
      <3>1. PICK c, step : Start(q, c, step)
        BY <2>4 DEF Reassign
      <3>2. QED BY <1>4, <2>4, <3>1
    <2>5. QED BY <1>5, <2>1, <2>2, <2>3, <2>4 DEF Arrive
  <1>6. QED BY <1>1, <1>2, <1>3, <1>5 DEF Next

\* A reassign takes the event of the row it found, and asks for RESERVED or
\* ACTIVE whatever the status of that row.
LEMMA ReassignTargets ==
  ASSUME TypeInv, NEW q \in Requests, Reassign(q)
  PROVE  /\ assignment' = assignment
         /\ call'[q].eventId = assignment[call'[q].target].eventId
         /\ \A k \in 1 .. Len(call'[q].items) :
              call'[q].items[k].status \in BlockingStatuses
  <1> PICK a \in RowIds, r \in Resources, d \in DtoRanges :
        /\ assignment[a] # NoRow
        /\ Start(q, [op |-> "reassign", eventId |-> assignment[a].eventId,
                     target |-> a,
                     items |-> <<Replacement(assignment[a], r, d)>>], "lock")
        /\ UNCHANGED <<resource, assignment>>
    BY DEF Reassign
  <1> DEFINE new == Replacement(assignment[a], r, d)
  <1>1. new.status \in BlockingStatuses
    BY DEF Replacement, BlockingStatuses
  <1> HIDE DEF new
  <1>2. /\ call'[q] = [op |-> "reassign", eventId |-> assignment[a].eventId,
                       target |-> a, items |-> <<new>>]
    BY DEF Start, TypeInv, TypeOK, new
  <1>3. QED BY <1>1, <1>2

\* A reassign under way has the target it read, for the event it read.
LEMMA TargetInvariant == Spec => []TargetInv
  <1>1. Init => TargetInv
    BY DEF Init, NoCall, TargetInv
  <1>2. TypeInv /\ ProgressInv /\ TargetInv /\ [Next]_vars => TargetInv'
    <2> SUFFICES ASSUME TypeInv, ProgressInv, TargetInv, [Next]_vars,
                        NEW q \in Requests, call'[q].op = "reassign"
                 PROVE  /\ call'[q].eventId = assignment'[call'[q].target].eventId
                        /\ \A k \in 1 .. Len(call'[q].items) :
                             call'[q].items[k].status \in BlockingStatuses
      BY DEF TargetInv
    <2>1. CASE call'[q] = call[q]
      <3> DEFINE a == call[q].target
      <3>1. a \in RowIds /\ assignment[a] \in Row
        BY <2>1 DEF TypeInv, TypeOK, CallInv
      <3>2. assignment'[a] = [assignment[a] EXCEPT !.status = assignment'[a].status]
        BY <3>1, RowsStayFinal DEF Final
      <3>3. assignment'[a].eventId = assignment[a].eventId
        BY <3>1, <3>2 DEF Row
      <3>4. QED BY <2>1, <3>3 DEF TargetInv
    <2>2. CASE Reassign(q)
      BY <2>2, ReassignTargets
    <2>3. QED BY <2>1, <2>2, CallSteps
  <1>3. QED BY <1>1, <1>2, TypeInvariant, ProgressInvariant, PTL DEF Spec

\* An insert moves no request but its own; a release is a call of its own.
LEMMA InsertMoves ==
  ASSUME TypeInv, [Next]_vars, assignment' # assignment
  PROVE  \/ \E a \in RowIds, s \in ReleaseStatuses, q \in Requests :
              /\ Releases(a, s)
              /\ call[q].op # "reassign"
              /\ \A p \in Requests \ {q} : pc'[p] = pc[p]
         \/ \E q \in Requests :
              Inserts(q) /\ \A p \in Requests \ {q} : pc'[p] = pc[p]
  <1>0. pc \in [Requests -> Steps]
    BY DEF TypeInv, TypeOK
  <1>1. PICK q \in Requests : Release(q) \/ CreateAssignment(q)
    BY DEF Next, vars, Administer, RemoveEvent, UpdateEvent, UpdateStatus,
           UpdateMaintenance, Arrive, Assign, BulkAssign, Reassign, Advance,
           LockTarget, ResolveAssignmentWindow, EnsureResourceAssignable,
           EnsureAvailable, Audit, Expire, Crash
  <1>2. CASE Release(q)
    <2>1. \E a \in RowIds, s \in ReleaseStatuses : Releases(a, s)
      BY <1>2, ReleaseStep DEF Releases, TypeInv
    <2>2. pc[q] = "idle" /\ \A p \in Requests \ {q} : pc'[p] = pc[p]
      BY <1>0, <1>2 DEF Release, Start
    <2>3. call[q] = NoCall
      BY <2>2 DEF TypeInv, CallInv
    <2>4. call[q].op # "reassign"
      BY <2>3 DEF NoCall
    <2>5. QED BY <2>1, <2>2, <2>4
  <1>3. CASE CreateAssignment(q)
    <2>1. Inserts(q) /\ pc' = [pc EXCEPT ![q] = "audit"]
      BY <1>3 DEF CreateAssignment, Inserts
    <2>2. QED BY <1>0, <2>1
  <1>4. QED BY <1>1, <1>2, <1>3

\* An insert of a reassign ends its target.
LEMMA InsertEndsTarget ==
  ASSUME TypeInv, ProgressInv, NEW q \in Requests, Inserts(q),
         call[q].op = "reassign"
  PROVE  /\ call[q].target # RowId(q)
         /\ assignment'[call[q].target].status = "RELEASED"
         /\ ~IsBlocking(assignment'[call[q].target])
  <1>1. call[q].target \in RowIds /\ assignment[call[q].target] # NoRow
    BY DEF TypeInv, CallInv
  <1>2. call[q].target # RowId(q)
    BY <1>1, InsertIsFresh
  <1>3. assignment'[call[q].target] = AfterEnding(q)[call[q].target]
    BY <1>1, <1>2, InsertsRow
  <1>4. QED BY <1>1, <1>2, <1>3, EndingRow

\* Whatever checks fail, locks time out or processes die on the way, a
\* reassign ends the old assignment exactly when it creates the new one, and
\* for the same event.
THEOREM ReassignsAreAtomic == Spec => ReassignIsAtomic
  <1>1. TypeInv /\ ProgressInv /\ TargetInv /\ [Next]_vars =>
          [\A q \in Requests : call[q].op = "reassign" /\ pc'[q] # pc[q] =>
             \/ assignment' = assignment
             \/ /\ assignment[RowId(q)] = NoRow
                /\ assignment'[RowId(q)] # NoRow
                /\ assignment'[RowId(q)].eventId = assignment[call[q].target].eventId
                /\ assignment'[call[q].target].status = "RELEASED"]_vars
    <2> SUFFICES ASSUME TypeInv, ProgressInv, TargetInv, [Next]_vars,
                        NEW q \in Requests, call[q].op = "reassign",
                        pc'[q] # pc[q], assignment' # assignment
                 PROVE  /\ assignment[RowId(q)] = NoRow
                        /\ assignment'[RowId(q)] # NoRow
                        /\ assignment'[RowId(q)].eventId
                             = assignment[call[q].target].eventId
                        /\ assignment'[call[q].target].status = "RELEASED"
      OBVIOUS
    <2>1. Inserts(q)
      BY InsertMoves
    <2>2. assignment[RowId(q)] = NoRow
      BY <2>1, InsertIsFresh
    <2>3. assignment'[RowId(q)] = NewRow(q) /\ NewRow(q) \in Row
      BY <2>1, RowIdType, InsertsRow DEF TypeInv
    <2>4. NewRow(q).eventId = assignment[call[q].target].eventId
      BY DEF NewRow, TargetInv
    <2>5. QED BY <2>1, <2>2, <2>3, <2>4, InsertEndsTarget
  <1>2. QED BY <1>1, TypeInvariant, ProgressInvariant, TargetInvariant, PTL
        DEF Spec, ReassignIsAtomic

-----------------------------------------------------------------------------
(* The engine implements the table of reservations. *)

Live == {BookingOf(a) : a \in Blocking}

\* The rows keep apart what the table's bookings name.
LEMMA LiveNames ==
  ASSUME NEW a \in RowIds, NEW b \in RowIds, BookingOf(a) = BookingOf(b)
  PROVE  a = b
  BY DEF BookingOf

\* A name is known to the table exactly when the row exists.
LEMMA KnownRows ==
  ASSUME NEW a \in RowIds
  PROVE  Table!Known(a) <=> assignment[a] # NoRow
  <1>1. \A b \in RowIds : BookingOf(b).id = b
    BY DEF BookingOf
  <1>2. (\E b \in {BookingOf(c) : c \in Blocking} : b.id = a) <=> a \in Blocking
    BY <1>1 DEF Blocking
  <1>3. a \in Blocking => assignment[a] # NoRow
    BY DEF Blocking, IsBlocking
  <1>4. QED BY <1>2, <1>3 DEF Table!Known, Past

\* A row that blocks is a booking of the abstract table.
LEMMA BookingType ==
  ASSUME TypeOK, NEW a \in RowIds, IsBlocking(assignment[a])
  PROVE  BookingOf(a) \in Table!Booking
  <1>1. assignment[a] \in Row
    BY DEF TypeOK, IsBlocking
  <1>2. QED BY <1>1 DEF BookingOf, Table!Booking, Row, Range

\* Two bookings clash exactly when their rows overlap on one resource.
LEMMA ClashIsOverlap ==
  ASSUME TypeOK, NEW a \in RowIds, NEW b \in RowIds,
         IsBlocking(assignment[a]), IsBlocking(assignment[b])
  PROVE  Table!Clash(BookingOf(a), BookingOf(b)) <=>
           /\ assignment[a].resource = assignment[b].resource
           /\ RangesOverlap(assignment[a].range, assignment[b].range)
  <1>1. assignment[a] \in Row /\ assignment[b] \in Row
    BY DEF TypeOK, IsBlocking
  <1>2. QED BY <1>1 DEF BookingOf, Table!Clash, RangesOverlap, Overlap, Row, Range

\* Rows that a step leaves alone are the same bookings after it.
LEMMA SameBooking ==
  ASSUME NEW a \in RowIds, assignment'[a] = assignment[a]
  PROVE  /\ BookingOf(a)' = BookingOf(a)
         /\ a \in Blocking' <=> a \in Blocking
         /\ a \in Past' <=> a \in Past
  BY DEF BookingOf, Blocking, Past, IsBlocking

\* Releasing a row ends its booking, or is nothing to the table.
LEMMA ReleaseSimulates ==
  ASSUME TypeInv, NEW c \in RowIds, NEW s \in ReleaseStatuses, Releases(c, s)
  PROVE  Table!End \/ UNCHANGED <<Live, Past>>
  <1>1. \A a \in RowIds : a # c => assignment'[a] = assignment[a]
    BY ReleasesRow
  <1>2. ~IsBlocking(assignment'[c]) /\ assignment'[c] # NoRow
        /\ assignment[c] # NoRow
    BY ReleasesRow DEF Releases
  <1>3. c \notin Blocking' /\ c \in Past'
    BY <1>2 DEF Blocking, Past
  <1>4. \A a \in RowIds : a # c =>
          /\ BookingOf(a)' = BookingOf(a)
          /\ a \in Blocking' <=> a \in Blocking
          /\ a \in Past' <=> a \in Past
    BY <1>1, SameBooking
  <1>5. Blocking' = Blocking \ {c}
    BY <1>3, <1>4 DEF Blocking
  <1>6. Past' = Past \cup {c}
    BY <1>3, <1>4 DEF Past
  <1>7. Live' = {BookingOf(a) : a \in Blocking \ {c}}
    BY <1>4, <1>5 DEF Live, Blocking
  <1>8. CASE c \in Blocking
    <2>1. Live' = Live \ {BookingOf(c)}
      BY <1>7, LiveNames DEF Live, Blocking
    <2>2. BookingOf(c) \in Live /\ BookingOf(c).id = c
      BY <1>8 DEF Live, BookingOf
    <2>3. QED BY <1>6, <2>1, <2>2 DEF Table!End, Live
  <1>9. CASE c \notin Blocking
    <2>1. c \in Past
      BY <1>2, <1>9 DEF Past, Blocking
    <2>2. QED BY <1>6, <1>7, <1>9, <2>1 DEF Live
  <1>10. QED BY <1>8, <1>9

\* The booking an insert makes fits beside those its transaction left.
LEMMA InsertFits ==
  ASSUME TypeInv, ProgressInv, NEW q \in Requests, Inserts(q),
         NEW i \in RowIds, i = RowId(q), TypeOK', IsBlocking(NewRow(q)), NEW others,
         others \subseteq {BookingOf(a) : a \in
           {b \in Blocking : ~(call[q].op = "reassign" /\ b = call[q].target)}}
  PROVE  /\ Table!Fits(BookingOf(i)', others)
         /\ BookingOf(i)' \notin Live
         /\ BookingOf(i)'.event = call[q].eventId
  <1> DEFINE new == BookingOf(i)'
  <1>1. assignment'[i] = NewRow(q) /\ NewRow(q) \in Row
    BY InsertsRow
  <1>2. /\ new.id = i /\ new.event = NewRow(q).eventId
        /\ new.resource = NewRow(q).resource
        /\ new.from = NewRow(q).range.effectiveStartsAt
        /\ new.to = NewRow(q).range.effectiveEndsAt
    BY <1>1 DEF BookingOf
  <1>3. new \in Table!Booking
    <2>1. /\ NewRow(q).eventId \in Events /\ NewRow(q).resource \in Resources
          /\ NewRow(q).range \in Range
      BY <1>1 DEF Row
    <2>2. QED BY <1>1, <2>1 DEF BookingOf, Table!Booking, Range
  <1>4. ~Table!Known(new.id)
    BY <1>1, <1>2, InsertIsFresh, KnownRows
  <1>5. ASSUME NEW c \in others
        PROVE  ~Table!Clash(new, c)
    <2>1. PICK a \in Blocking : /\ c = BookingOf(a)
                                /\ ~(call[q].op = "reassign" /\ a = call[q].target)
      OBVIOUS
    <2>2. /\ a \in RowIds /\ IsBlocking(assignment[a])
          /\ assignment[a] \in Row
      BY <2>1 DEF Blocking, IsBlocking, TypeInv, TypeOK
    <2>3. AfterEnding(q)[a] = assignment[a]
      BY <2>1, <2>2, EndingRow
    <2>4. ~(/\ assignment[a].resource = NewRow(q).resource
            /\ RangesOverlap(assignment[a].range, NewRow(q).range))
      BY <2>2, <2>3 DEF Inserts, Excluded
    <2>5. /\ c.resource = assignment[a].resource
          /\ c.from = assignment[a].range.effectiveStartsAt
          /\ c.to = assignment[a].range.effectiveEndsAt
      BY <2>1 DEF BookingOf
    <2> HIDE DEF new
    <2>6. QED BY <1>2, <2>4, <2>5 DEF Table!Clash, RangesOverlap, Overlap
  <1>6. new \notin Live
    <2>1. assignment[i] = NoRow
      BY InsertIsFresh
    <2>2. \A a \in Blocking : BookingOf(a).id # i
      BY <2>1 DEF Blocking, IsBlocking, BookingOf
    <2>3. QED BY <1>2, <2>2 DEF Live
  <1>7. NewRow(q).eventId = call[q].eventId
    BY DEF NewRow
  <1>8. QED BY <1>2, <1>3, <1>4, <1>5, <1>6, <1>7 DEF Table!Fits

\* What an insert does to the rows that are there already.
LEMMA InsertKeeps ==
  ASSUME TypeInv, ProgressInv, NEW q \in Requests, Inserts(q),
         NEW a \in RowIds, a # RowId(q),
         ~(call[q].op = "reassign" /\ a = call[q].target /\ a \in Blocking)
  PROVE  /\ BookingOf(a)' = BookingOf(a)
         /\ a \in Blocking' <=> a \in Blocking
         /\ a \in Past' <=> a \in Past
  <1>1. assignment'[a] = AfterEnding(q)[a]
    BY InsertsRow
  <1>2. CASE ~(call[q].op = "reassign" /\ a = call[q].target)
    BY <1>1, <1>2, EndingRow, SameBooking
  <1>3. CASE call[q].op = "reassign" /\ a = call[q].target
    <2>1. assignment[a] \in Row /\ ~IsBlocking(assignment[a])
      BY <1>3 DEF TypeInv, TypeOK, CallInv, Blocking
    <2>2. /\ assignment'[a] = [assignment[a] EXCEPT !.status = "RELEASED"]
          /\ ~IsBlocking(assignment'[a]) /\ assignment'[a] \in Row
      BY <1>1, <1>3, EndingRow
    <2>3. BookingOf(a)' = BookingOf(a)
      BY <2>1, <2>2 DEF BookingOf, Row
    <2>4. QED BY <2>1, <2>2, <2>3 DEF Blocking, Past
  <1>4. QED BY <1>2, <1>3

\* An insert is a Book, a Record or a Replace of the abstract table.
LEMMA InsertSimulates ==
  ASSUME TypeInv, ProgressInv, TargetInv, TypeOK', NEW q \in Requests, Inserts(q)
  PROVE  Table!Book \/ Table!Record \/ Table!Replace
  <1> PICK i \in RowIds : i = RowId(q)
    BY RowIdType DEF TypeInv
  <1> DEFINE new == BookingOf(i)'
             t == call[q].target
  <1>1. /\ assignment'[i] = NewRow(q)
        /\ NewRow(q) \in Row /\ assignment[i] = NoRow
    BY InsertsRow, InsertIsFresh
  <1>2. i \notin Blocking /\ i \notin Past
    BY <1>1 DEF Blocking, Past, IsBlocking
  <1>3. i \in Blocking' <=> IsBlocking(NewRow(q))
    BY <1>1 DEF Blocking, IsBlocking
  <1>4. i \in Past' <=> ~IsBlocking(NewRow(q))
    BY <1>1, <1>3 DEF Past
  <1>5. CASE ~(call[q].op = "reassign" /\ t \in Blocking)
    <2>1. \A a \in RowIds : a # i =>
            /\ BookingOf(a)' = BookingOf(a)
            /\ a \in Blocking' <=> a \in Blocking
            /\ a \in Past' <=> a \in Past
      BY <1>5, InsertKeeps
    <2>2. CASE IsBlocking(NewRow(q))
      <3>1. Blocking' = Blocking \cup {i} /\ Past' = Past
        BY <1>1, <1>2, <1>3, <1>4, <2>1, <2>2 DEF Blocking, Past
      <3>2. Live' = Live \cup {new}
        BY <1>2, <2>1, <3>1 DEF Live, Blocking
      <3>3. Live = {BookingOf(a) : a \in
              {b \in Blocking : ~(call[q].op = "reassign" /\ b = t)}}
        BY <1>5 DEF Live
      <3>4. Table!Fits(new, Live) /\ new \notin Live
        BY <2>2, <3>3, InsertFits
      <3> HIDE DEF new
      <3>5. QED BY <3>1, <3>2, <3>4 DEF Table!Book, Table!Added, Live
    <2>3. CASE ~IsBlocking(NewRow(q))
      <3>1. Blocking' = Blocking /\ Past' = Past \cup {i}
        BY <1>1, <1>2, <1>3, <1>4, <2>1, <2>3 DEF Blocking, Past
      <3>2. Live' = Live
        BY <1>2, <2>1, <3>1 DEF Live, Blocking
      <3>3. ~Table!Known(i)
        BY <1>1, KnownRows
      <3>4. QED BY <1>1, <3>1, <3>2, <3>3 DEF Table!Record, Live
    <2>4. QED BY <2>2, <2>3
  <1>6. CASE call[q].op = "reassign" /\ t \in Blocking
    <2>1. \A a \in RowIds : a # i /\ a # t =>
            /\ BookingOf(a)' = BookingOf(a)
            /\ a \in Blocking' <=> a \in Blocking
            /\ a \in Past' <=> a \in Past
      BY <1>6, InsertKeeps
    <2>2. /\ t # i /\ t \in RowIds
          /\ t \notin Blocking' /\ t \in Past'
      <3>1. t # i /\ ~IsBlocking(assignment'[t]) /\ assignment'[t].status = "RELEASED"
        BY <1>6, InsertEndsTarget
      <3>2. t \in RowIds /\ assignment'[t] # NoRow
        BY <1>6, <3>1, InsertsRow, EndingRow DEF Blocking, IsBlocking
      <3>3. QED BY <3>1, <3>2 DEF Blocking, Past
    <2>3. IsBlocking(NewRow(q))
      <3>1. pc[q] \in Working
        BY DEF Inserts, Working
      <3>2. item[q] \in 1 .. Len(call[q].items)
        BY <3>1, ItemsLength DEF TypeInv, TypeOK, CallInv
      <3>3. NewRow(q).status \in BlockingStatuses
        BY <1>6, <3>2 DEF TargetInv, NewRow, Current
      <3>4. QED BY <1>1, <3>3 DEF IsBlocking
    <2>4. Blocking' = (Blocking \ {t}) \cup {i} /\ Past' = Past \cup {t}
      BY <1>1, <1>2, <1>3, <1>4, <2>1, <2>2, <2>3 DEF Blocking, Past
    <2>5. Live' = (Live \ {BookingOf(t)}) \cup {new}
      <3>1. Live \ {BookingOf(t)} = {BookingOf(a) : a \in Blocking \ {t}}
        BY <2>2, LiveNames DEF Live, Blocking
      <3>2. Live' = {BookingOf(a)' : a \in Blocking \ {t}} \cup {new}
        BY <2>4 DEF Live
      <3>3. \A a \in Blocking \ {t} : BookingOf(a)' = BookingOf(a)
        BY <1>2, <2>1 DEF Blocking
      <3>4. QED BY <3>1, <3>2, <3>3
    <2>6. Live \ {BookingOf(t)} = {BookingOf(a) : a \in
            {b \in Blocking : ~(call[q].op = "reassign" /\ b = t)}}
      BY <1>6, <2>2, LiveNames DEF Live, Blocking
    <2>7. /\ Table!Fits(new, Live \ {BookingOf(t)}) /\ new \notin Live
          /\ new.event = call[q].eventId
      BY <2>3, <2>6, InsertFits
    <2>8. /\ BookingOf(t) \in Live /\ BookingOf(t).id = t
          /\ BookingOf(t).event = call[q].eventId
      BY <1>6 DEF Live, BookingOf, TargetInv
    <2> HIDE DEF new
    <2>9. new \in Live' \ Live
      BY <2>5, <2>7
    <2>10. QED BY <2>4, <2>5, <2>7, <2>8, <2>9 DEF Table!Replace, Table!Added, Live
  <1>7. QED BY <1>5, <1>6

\* Seen through its RESERVED and ACTIVE rows, the engine is the abstract table
\* of reservations: every insert books, records or replaces, every release
\* ends, and no other step of any request, edit or crash is visible.
THEOREM EngineImplementsReservations == Spec => ImplementsReservations
  <1>1. Init => Table!Init
    <2> SUFFICES ASSUME Init PROVE Blocking = {} /\ Past = {}
      BY DEF Table!Init
    <2>1. \A a \in RowIds : assignment[a] = NoRow
      BY DEF Init
    <2>2. QED BY <2>1 DEF Blocking, Past, IsBlocking
  <1>2. /\ TypeInv /\ ProgressInv /\ TargetInv /\ [Next]_vars
        => [Table!Next]_<<{BookingOf(a) : a \in Blocking}, Past>>
    <2> SUFFICES ASSUME TypeInv, ProgressInv, TargetInv, [Next]_vars
                 PROVE  Table!Next \/ UNCHANGED <<Live, Past>>
      BY DEF Live
    <2>1. TypeOK'
      BY NextType DEF TypeInv
    <2>2. CASE assignment' = assignment
      BY <2>2 DEF Live, Past, Blocking, BookingOf
    <2>3. ASSUME NEW c \in RowIds, NEW s \in ReleaseStatuses, Releases(c, s)
          PROVE  Table!Next \/ UNCHANGED <<Live, Past>>
      BY <2>3, ReleaseSimulates DEF Table!Next
    <2>4. ASSUME NEW q \in Requests, Inserts(q)
          PROVE  Table!Next
      BY <2>1, <2>4, InsertSimulates DEF Table!Next
    <2>5. QED BY <2>2, <2>3, <2>4, AssignmentSteps
  <1>3. QED BY <1>1, <1>2, TypeInvariant, ProgressInvariant, TargetInvariant, PTL
        DEF Spec, ImplementsReservations, Table!Spec
=============================================================================
