# Verification of the broadcast operations ERP

The repository is an ERP for a broadcast-operations company: a NestJS API over
PostgreSQL (Prisma), a Next.js web client and a Tauri desktop client with an
offline queue. This directory holds TLA+ models of its concurrent core, the TLC
runs that check them on small instances, and TLAPS proofs of what matters most
for every instance. `PROJECT.json` is the index: components, runs, mutants, the
map from definitions to source lines, findings, hazards and theorems.

In this text a path without a directory is under `src/apps/api/src/modules/`.

## 1. How the system behaves

Every endpoint is an `async` handler: a sequence of queries with the event loop
free in between, so handlers interleave at every `await`, within one process
and between replicas. PostgreSQL runs at its default, READ COMMITTED. Most
handlers read a row, check what they read, and write by `id` alone; what stops
two of them from doing damage is a unique index, an exclusion constraint or a
`CHECK`, or nothing. That pattern, *read, check, write unconditionally*, is
what the models are about.

| Component (source) | State it keeps | Operations | Talks to | What is hard | What makes it correct |
|---|---|---|---|---|---|
| Assignment engine (`assignments`) | four `Event*Assignment` tables, the status of assets | assign, bulk-assign, release, reassign | availability, events, assets, audit | checks outside and inside transactions both read committed state; row locks; time-outs; bulk is no transaction | no double booking; maintenance respected; history final; reassign all or nothing; answers true; every request ends |
| Availability (`availability`) | none | `ensureAvailable`, search, preview | the tables above, maintenance windows | skips the assignments of the same event | a passed check is what gets stored |
| Events (`events`) | `Event`, timeline | create, update, status, soft delete | finance (profit), assignments (windows) | an edit between the steps of an assignment | never ends before it starts; status workflow |
| Devices, SIMs, routers (`devices`, `sims`, `routers`) | one table each: status, maintenance, telemetry | CRUD, status, telemetry, SIM recharge | assignments | an administrator and the engine both write `status` | status agrees with the assignments |
| Inventory (`inventory`) | `AssetOwnershipHistory`, telemetry | transfer, return, ingest | assets | close-then-open in two statements | one holder at a time |
| Expenses (`expenses`) | `Expense` | create, update, submit, review, approve, reject, reimburse | finance | stale status decides; amount edited in flight | posted once, status and ledger agree |
| Finance (`finance`) | `FinancialTransaction`, `LedgerEntry`, `FinancialLock`, snapshots | post, lock, reports | expenses, payroll | lock checked before the transaction | locks hold; the books are sound |
| Payroll (`payroll`) | profiles, periods, `PayrollPayout`, `PayrollAdjustment` | create, pay, adjust | finance | two payments of one payout | paid once, PAID iff posted |
| Auth and sessions (`auth`) | `Session`, reset tokens | login, refresh, logout, guard | users, audit | refresh, logout and suspension race | who was shut out when a call was sent stays out; a redeemed token is worth nothing |
| Users and invitations (`users`) | `User`, `UserInvitation` | invite, accept, update, suspend | auth | suspend first, revoke second | an invitation makes one account |
| Operators (`operators`) | `OperatorProfile` | CRUD | users | little | one profile per user |
| Worker queue (`workers`) | `WorkerJob` | enqueue, claimDue, complete, fail | notifications, reports, automation | two claimers; statements that run at once and outlive their request | a job handed out is never queued again; each is claimed |
| Notifications, reports, automation (`notifications`, `reports`, `automation`) | their tables | dispatch, mark read; generate; create, execute | worker queue | rows first, jobs after, marks last | one job for each row; read by its user only |
| Sync (`sync`) and desktop queue (`src/apps/desktop/src/lib/sync`) | `SyncOperation`, `SyncConflict`; SQLite queue and mirror | push, pull, resolve; enqueue, recover, apply | all tables | lost answers, retries, watermarks, a pull stored halfway | nothing lost, nothing recorded twice or for a stale base |
| Analytics, platform quotas | none | read, aggregate | all | little | out of scope: they read |
| Audit log, activity timeline | append-only | record | all | may fail after a commit | no decision reads them |
| Web client (`src/apps/web`) | tokens in storage; forms, tables and fetches of a page | login, refresh, repeated requests; edit, save, reload | API | tabs share one token store; saves and fetches overlap; a save waits for the network; a table for every filter | a call runs once and ends; what a page saved is not lost from a table it takes for valid; a value stays with its row |
| Guards, middleware, health, config, UI packages | none of interest | | | | presentation and I/O |

## 2. Modules

| Module | Role |
|---|---|
| `Assignments` | the assignment engine, request by request and query by query |
| `Reservations` | what it promises: an abstract table of bookings |
| `MCAssignments` | instances for TLC |
| `AssignmentsProofs` | theorems |
| `Ledger` | expenses, payouts, adjustments, locks and the journal they post to |
| `Books` | what the ledger promises: an abstract set of books |
| `MCLedger` | instances for TLC |
| `LedgerProofs` | theorems |
| `Sessions` | accounts, invitations, sessions and tokens on the server, and the browsers that use and renew them |
| `Access` | what they promise: who has an account, is an operator and holds which session under which token |
| `Jobs` | the worker queue, and the services that put work on it: notifications, reports, automation |
| `WorkQueue` | what the worker queue promises: jobs, hand-outs and attempts |
| `Sync` | the desktop's queue and mirror, and the server's push, pull and conflicts |
| `Outbox` | what offline work promises: what is entered gets recorded once, or disputed and decided |
| `Inventory` | devices, SIM cards and routers: the pages of the web client composed with the services behind them; ownership, recharges, telemetry |
| `MCSessions`, `MCJobs`, `MCSync`, `MCInventory` | instances for TLC |
| `SessionsProofs`, `JobsProofs`, `SyncProofs`, `InventoryProofs` | theorems |
| `PromisesProofs` | theorems about the five abstract modules |

### 2.1 Assignments

State: `event`, `resource`, `assignment` are the tables (an assignment row is
named by the request and item that made it, so ids never collide); per request,
`pc` is the query it does next, `call` what it asked for and what `reassign`
read before its transaction, `item` the position in a bulk list, `range` the
window resolved for it, `reply` what the caller was told. `edits` only bounds
administrative changes.

| Action | Code |
|---|---|
| `Assign`, `BulkAssign`, `Reassign`, `Release` | the four endpoints up to their first write or check; `Release` is one transaction |
| `LockTarget` | `reassign`'s first statement, which takes the row lock |
| `ResolveAssignmentWindow`, `EnsureResourceAssignable`, `EnsureAvailable` | the three checks, made once before the transaction (`resolve`, `resource`, `available`) and again inside it (`txResolve`, `txResource`, `txAvailable`) |
| `CreateAssignment` | the insert, the status of the asset and the commit, or the refusal by the exclusion constraint |
| `Audit`, `RecordFails` | the audit write after the commit, and the next item of a bulk; the timeline entries of a bulk and of a reassign, which fail outside any `try` |
| `Expire`, `Crash` | Prisma's transaction time-out, also of a transaction that waits for the row lock; the process dies |
| `UpdateEvent`, `RemoveEvent`, `UpdateStatus`, `UpdateMaintenance` | what other endpoints change in between |

Three modelling decisions carry weight.

*Transactions are atomic at their commit.* The checks inside a transaction go
through `this.prisma`, not `tx`: they run on another connection and see
committed state only, exactly like the checks before it. So a transaction's own
writes are invisible to everyone, itself included, until it commits, and one
step at the commit is what others observe. Its one effect before the commit is
the row lock of `reassign`, which `RowLocked` makes explicit.

*The exclusion constraint is there.* `005_events_assignments_integrity.sql`
declares it over `tstzrange` of columns that are `TIMESTAMP(3)`; PostgreSQL
requires index expressions to be immutable and that cast depends on the session
time zone. A deployment should verify that the migration was applied. The
proof of `NoOverlap` uses the constraint in every case, the mutant `ExcludedByReserved`
shows that the checks of the application do not suffice.

*Some things are constant because no endpoint changes them*: maintenance
windows and the fitness of operators.

### 2.2 Ledger

State: `claim` holds the rows of the three tables whose rows are claims on the
organization's money, `journal` the posted transactions in the order of their
commits, `locked` the events and periods that are closed; per caller, `pc` and
`call` are the request under way with what it read. `call[q].late` is a history
variable: the scope was locked when the request arrived.

| Action | Code |
|---|---|
| `CreateExpense`, `CreatePayout`, `CreateAdjustment` | up to the lock check, which is their first query |
| `Update` ... `PayPayout` | the read of the row and the status check |
| `AssertUnlocked` | the lock check of `reimburse` and `payPayout` |
| `Insert`, `WriteAmount`, `WriteStatus` | the single writes that end a request |
| `PostStatus`, `PostAdjustment` | the transaction that changes a row and posts, or is refused by a unique index |
| `Abandon` | the process dies, the transaction times out, the event or operator does not exist |
| `Lock` | `POST /finance/locks` |

`assertBalanced` always passes: every caller builds a debit and a credit of one
amount, and amounts are positive by `CHECK`. A posting therefore carries one
amount. Currencies, accounts and descriptions decide nothing and are left out.
A payout read as `PAID` is returned unchanged and is no action. A lock names
exactly one event or one period (`financial_lock_has_scope`).

### 2.3 Sessions

State: `user`, `profile`, `invitation` and `session` are tables; a session has
the number of its first refresh token as its name and that of its current one
as its `token` (the hash). `minted` counts refresh tokens, and everything up to
`lapsed` has outlived its TTL. `storage` is what a browser keeps and its tabs
share; `call` is what a tab waits for, wherever that is at the moment: in the
guards, in a handler, in a refresh, on its way back. `call[t].barred` and
`call[t].ran` are history variables: the grounds on which the call was hopeless
when the client sent it, and whether its handler has run.

| Action | Code |
|---|---|
| `Submit`, `Receive`, `SaveTokens` | the web client (`auth-api.ts`, `authenticated-request.ts`, `token-storage.ts`, `auth-provider.tsx`); a 401 makes it refresh and send the call again |
| `FindSession`, `FindAuthProfile` | `JwtAuthGuard`'s two queries, and `PermissionsGuard` |
| `Read`, `Logout` | `auth.controller.ts`, `auth.service.ts` |
| `UpdateStatus`, `RevokeSessions`, `UpdateRole` | `users.service.ts`: a suspension and its revocation are two statements |
| `CheckFirst`, then `CreateInvitation` or `CreateOperator` | `invite` and `operators.create`, which look first and insert later |
| `FindActiveByEmail`, `CreateSession` | `login` |
| `FindSessionByRefreshToken`, `Rotate` | `refresh`, which finds by hash and updates by id |
| `FindInvitation`, `AcceptInvite` | `acceptInvite`: one transaction after the check |
| `Lose`, `Lapse` | a server dies or an answer is lost; a TTL goes by |

`SUSPENDED` stands for `INACTIVE` too: both revoke sessions and shut out. An
accepted invitation makes an operator. Hashes do not collide.

### 2.4 Jobs

State: `entry` (notifications and report runs), `rule` and `job` are tables;
`sending` and `updating` are the statements that `Promise.all` has started and
that are not done, with the request they belong to and whether it still awaits
them: when one fails the request is answered with an error, and the others go
on *unattended*. `claim` is what `claimDue` has read, `holding` and `had` what a
worker has been handed (now, ever).

Workers are not in the repository; `Poll` is a worker that keeps asking, and
need not finish what it gets. Neither has `complete` or `fail` a caller: a
worker is taken to end only jobs it holds. `claimDue` orders by `runAt`, which a
request notes before it inserts: of two jobs either may come first, so `Batches`
leaves open which of the queued jobs a claim gets.

### 2.5 Sync

State: `version` and `clock` are `updatedAt` of the server's rows and its time
(two writes may fall on one instant); `op` and `conflict` are tables; `push`,
`pull` and `resolve` are the requests under way, `queue` and `mirror` the two
tables of the desktop. The desktop has the queue, its recovery and
`applyPulledEntity`, but no loop that uses them: `Send` and `BeginPull` are the
least such a loop can do, push what is queued and pull from the last
`serverTime`, and are marked external in the map. The order of the mutations in
a push is fixed, the rows of a truncated pull are any.

A pull is one `ReadType` per table, then `ServerTime`; its answer is lost
(`LosePull`) or its rows are stored one by one, and the desktop may stop before
the last (`ApplyPulledEntities`). `mirror` is the `updatedAt` in the payloads that
are stored. The column `updated_at` beside it has the desktop's own time
(`sync-queue.ts:67`); nothing reads it, so the model has no variable for it. That
the driver takes the base version of a mutation from the payload is an
assumption about a loop that is not written.

### 2.6 Inventory

State: `row`, `owner` and `recorded` are tables; `call` is the request of a page
or of another client; `form`, `view` (the text in the filter), `shown` (the tables
the query client keeps, one for each such text, and whether each is still
valid) and `fetch` (one for each text) are a page. Rows carry a version for the sake
of `NoStaleTable`; `meant`, `strayed` and `saved` are history variables, and so is
`old`, the mark of a fetch that a save found under way. Of each kind of asset there are a unique field, a
field of the form and (not for SIM cards) the signal: what the pages do with
the others is the same.

`Edit`, `UpdateField`, `CancelEdit`, `Save`, `Resume`, `Saved` are the three management
pages, `Find`, `Insert`, `Update` the three services, `RecordRecharge` ...
`ApplyMetric` the pairs of statements of recharges and telemetry, `CloseOpen`
and `OpenRow` those of a transfer.

*A save has two halves.* `mutate(form)` takes the inputs along; the row they go
to is read from `selectedSimId` (or its like) when `mutationFn` runs, in the latest
render. Online that is the same moment. Offline TanStack Query pauses the
mutation, and the page stays usable: `Resume` sends the old inputs to the row
(or, after a cancel, to the form for a new row) that is selected by then
(`Target`). `turned` marks such a request, and `strayed` keeps what it brings.

*A filter has a table of its own.* `queryKey` has the text of the filter, the
service finds rows by it and returns a page of them, the newest first (`Found`,
`IsFirstPage`). `Filter` shows the table kept for the new text, if there is one,
and fetches it unless it is valid. `Refetch` is what TanStack Query does on
`invalidateQueries`: every table is invalid, and of the fetches under way only
that of the table in view is cancelled and repeated, and not if it is its first
(`GoesOn`). A fetch that goes on makes its table valid all the same when it
arrives, with the rows it has read. TanStack Query is outside the repository, so
these are external in the map.

## 3. Runs

| Run | Checks | Distinct states | Why the bounds are enough |
|---|---|---|---|
| `race` | `NoOverlap`, `HistoryIsFinal`, `ImplementsReservations` | 786 thousand | three requests: two to collide and one to end or move a row meanwhile; two events that touch and overlap only through a cooldown, an operator (no status) and a device (a status that can hide the race) |
| `edits` | `TypeOK`, `RespectsMaintenance`, `AnswersAreTrue` | 956 thousand | two requests, bulks of two items that succeed, half succeed or collide with themselves; one edit, placed anywhere; a range extended into a maintenance window |
| `moves` | `ReassignIsAtomic`, `Termination` | 144 thousand | three requests: two reassigns of one row and a third that waits behind both |
| `books` | `TypeOK`, `PostedOnce`, `RowsMatchJournal`, `NotReimbursableAgain`, `LocksHold`, `AmountFinal`, `PaymentFinal`, `ImplementsBooks` | 514 thousand | two callers are a race; six requests are create, submit, approve, reimburse and two that interfere; two amounts so that an edit shows |
| `sessions` | `TypeOK`, `NoLateEntry`, `NoReplay`, `HandledOnce`, `ImplementsAccess`, `EveryCallEnds` | 452 thousand | three calls: two that race and one that shuts out, demotes or revokes between their steps; an administrator at one browser, another with two tabs that share tokens; three invitations for one address, one of them still to be created; one expiry, of either TTL, at any time; answers lost without a bound |
| `jobs` | `TypeOK`, `OneJobEach`, `MarkedRunsAreQueued`, `ReadByOwner`, `ImplementsQueue`, `EveryJobClaimed` | 513 thousand | two clients, one of them making up to two entries at once; claims of two jobs by two workers that overlap; one fault anywhere |
| `sync` | `TypeOK`, `StaleRefused`, `ConflictsCounted`, `ImplementsOutbox`, `EveryMutationSettles` | 1.19 million | a mutation with a base version and one without, pushed once more if the first answer is lost, by pushes that overlap; rows that change at two instants; two pulls, so that one goes on from the `serverTime` of another, cut off at one row; a resolver who may only merge and one who decides for the server (two that race are left to the theorems) |
| `inventory` | `TypeOK`, `NamesUnique`, `ValuesStayWithAsset`, `NoStaleTable`, `TransfersClose` | 1.6 million | two requests out of those of a page and two other clients over four assets, one of them to be created; a filter, one change of it or one reload, a page of one row, and one fault, anywhere. Two requests meet in every way that two can; `InventoryProofs` has any number |
| `history` | `HistoryDoesNotBlock` is **violated** | | see findings |
| `audit` | `ConflictReportIsTrue` is **violated** | | see findings |
| `locks` | `LockedEventsAreClosed` is **violated** | | see findings |
| `reimburse` | `ReimbursedOnce` is **violated** | | see findings |

Deadlock is not checked: requests are bounded, so every behaviour comes to its
end. Symmetry is used on the names of requests, in runs without liveness.
Fairness is weak, and only of what the platform does by itself: Node resumes a
handler when its query answers, and PostgreSQL answers, with an error if it
must. `moves` has it for `Advance(q)`, `sessions` for `Step(t)` (a server or a
browser that works on a call), `jobs` for `Request(c)` and `Statements`, `sync`
for `Serve(p)`. Two more assumptions are about programs the repository expects
and does not contain: in `jobs` workers keep polling (`Poll`), in `sync` the
desktop keeps pushing what is queued (`Send`). Arrivals, time-outs, faults,
crashes and edits have no fairness.

The liveness properties say what is true, not more. `EveryCallEnds` holds
although a refused client refreshes and starts over, because a refused refresh
drops the tokens and expiries are bounded. `EveryJobClaimed` promises a claim,
not an end: a dead worker's jobs stay PROCESSING. `EveryMutationSettles`
excepts a client that missed an answer: a mutation that was recorded is refused
by the unique index when it is pushed again, with all that is pushed with it,
and no later push of that row can succeed.

Each property has a mutant in `PROJECT.json`: a version of one definition, as a
plausible bug would make it, under which the same run finds the property
violated.

### Findings

* `history`: `reassign` never makes the device, SIM card or router it trades in
  AVAILABLE again, although `foundation.md` says that historical assignments do
  not block future use.
* `audit`: the audit entry is written after the commit but inside the same
  `try`; if it fails, the caller is told of a conflict, with its own booking.
* `locks`: `approve` posts to an event that is locked; it alone of the money
  operations looks for no lock. In the run the expense is created while its event
  is open and the lock falls at some time before the approval request arrives; shortest
  traces differ in whether that is between the lock check of `create` and its
  insert, or around the submit.
* `reimburse`: two reimbursements that both read APPROVED both post; a
  reimbursement carries no key that a unique index could refuse.

## 4. Proofs

All theorems hold for every value of the constants that meets the named
assumptions: `ConstantsOK` and `Sentinels` in `Assignments`, `LedgerConstantsOK`
and `LedgerSentinels` in `Ledger`, `SessionsConstantsOK`, `JobsConstantsOK`,
`SyncConstantsOK`, `InventoryConstantsOK` and `FirstOK`. They say that schedules
end after they start (a `CHECK`), that tables and scopes are apart, that amounts
are positive, that the "no such row" values are no rows, that requests have the
fields their DTOs demand, and that names are unique at first. Sets are assumed
finite only where the code lists them: the users, clients and workers of `Jobs`
and the mutations of a client in `Sync`.

| Theorem | States |
|---|---|
| `TypeCorrect`, `AssignmentsDoNotOverlap`, `AnswersHold`, `MaintenanceIsRespected`, `HistoryStaysFinal`, `ReassignsAreAtomic` | the properties of the runs `race`, `edits`, `moves` |
| `EngineImplementsReservations` | the refinement of `Reservations` |
| `ReservationsNeverClash` | the abstract table has no double booking |
| `LedgerTypeCorrect`, `ClaimsPostedOnce`, `RowsMatch`, `NoReapproval`, `LocksAreHeld`, `AmountsAreFinal`, `PaymentsAreFinal` | the properties of the run `books` |
| `LedgerImplementsBooks` | the refinement of `Books` |
| `BooksAreSound` | one recognition and one amount per claim, cash only for recognised claims |
| `SessionsTypeCorrect`, `SessionsNoLateEntry`, `SessionsNoReplay`, `SessionsHandledOnce` | every safety property of the run `sessions` |
| `SessionsImplementAccess` | the refinement of `Access` |
| `SessionsAcceptedOnce`, `SessionsOneProfile` | an accepted invitation made one account and an address has one; a user has one profile |
| `AccessIsSound` | sessions have numbers, users and tokens of their own, every account that was asked for its own invitation and address, nobody is appointed twice |
| `JobsTypeCorrect`, `JobsReadByOwner`, `JobsOneJobEach`, `JobsMarkedQueued` | every safety property of the run `jobs` |
| `JobsImplementQueue` | the refinement of `WorkQueue` |
| `JobsHandedOutForGood`, `JobsHandOutsCounted` | a job handed out is never queued again; its attempts count every hand-out |
| `QueueIsSound` | one job for each piece of work, nothing handed out is on the queue, hand-outs are counted, only they are ended |
| `SyncTypeCorrect`, `SyncRefusesStale`, `SyncConflictsCounted` | every safety property of the run `sync` |
| `SyncImplementsOutbox` | the refinement of `Outbox` |
| `SyncRecordsOnce`, `SyncKeepsDone`, `SyncNeverMerges` | a mutation is recorded once; what is taken for done is recorded or disputed; protected rows are never merged |
| `OutboxIsSound` | the same of the abstract outbox, for all its behaviours |
| `InventoryTypeCorrect`, `InventoryNamesUnique`, `InventoryValuesStay`, `InventoryNoStaleTable`, `InventoryTransfersClose` | the properties of the run `inventory` |

The invariants behind them, and why the properties alone are not inductive:

* `CallInv` (assignments): what a request carries fits its step, for instance
  the row a `reassign` wants to end exists. Types depend on it.
* `ProgressInv`: exactly the items before the current one have rows, and at
  `audit` the current one too. `AnswersAreTrue` speaks only of answered requests.
  It needs that the audit write does not fail (an assumption of `AnswersHold`):
  when it does, the answer is the one the run `audit` refutes.
* `CheckedInv`: a request about to insert carries a window that has passed the
  maintenance check. It survives edits because maintenance windows and the
  resolved window do not change under it.
* `TargetInv`: a reassign still names the event of the row it ends, and its
  replacement blocks, which makes its commit one `Replace` of the abstract table
  or a `Book`.
* `CallInv` (ledger): the row a request read exists, a payout still has the
  amount that was read, an expense read as APPROVED has been posted, and at a
  lock check a late request is in fact locked out.
* `KindInv`: transactions are of the type their claim's table calls for, and a
  reimbursement follows a posted expense. `NotReimbursableAgain` rests on it:
  a second approval is a duplicate, and the unique index refuses it.
* `NoDraftPosted` (ledger): an expense that was posted is a draft no more, so
  that after the posting no edit can begin; with the edits that began before
  done, `AmountFinal` follows. It is an action property: the amount may change
  between the posting and the end of such an edit, and the code lets it.
  `PaymentFinal` is of the same kind: an expense is paid again only by a
  reimbursement that read it before it was paid (`Payments`), because
  `NotReimbursableAgain` lets none begin afterwards.
* `CallOK` (sessions): for a call anywhere on its way, its tokens were issued for
  a session and a user that exist, every ground in `barred` *still* holds, and
  each check it has passed rules its grounds out. Grounds last: sessions are
  never restored (`Later`), numbers only grow, and when an administrator lifts a
  suspension or a demotion `Write` lifts the ground too. `NoLateEntry` and
  `NoReplay` are what is left of it at a handler and before a rotation. `AimOK`
  adds what the first of two queries has found and the second relies on: a user
  to be made an operator exists, an invitation to be accepted was sent. Rows
  are never removed, so this is still so at the insert, where `Access` asks for
  it.
* `ClaimInv` and `TakersCounted` (jobs): a job of a claim that is still QUEUED
  has its update under way, awaited, so that none is left when the claim is
  handed out; a worker counts in the attempts as soon as no update of its claim
  on the job is outstanding.
* `EntryInv`: while the insert for a row is under way the row has no job and no
  other insert. `MarkInv` adds to the marks of a rule the executions whose job
  is queued and that will mark it next (`Unmarked`).
* `HandInv` (jobs): a worker's claim has no job the worker was handed before,
  and it holds nothing it did not get. Without it a hand-out of the code might
  be none of `WorkQueue`, which hands a job to a worker once.
* `PushOK` (sync): each mutation a push was sent is recorded, in conflict, or
  still to do; its base no longer changes, and as rows only get newer, what was
  stale when sent is stale now. `ResolveOK`: a resolver carries out only what
  was allowed for the conflict it found.
* `DeliveryInv` (sync): a push has each of its mutations to do once, and the
  conflicts of a mutation, with the pushes that still have it to do, are no more
  than the times the desktop has sent it: a conflict takes the place of a push.
  `ConflictsCounted` alone forgets the pushes under way.
* `FormOK`, `IsFilled` and `IsTable` (inventory): a field of a form, or of a
  request that has not turned to another row, that nobody typed in holds a value of
  the very asset it is for, or a default, because the table the form was filled from
  held such values. `IsPaused` says what a save that waits has to bring for that to
  be so of the row it is sent to if it does not turn.
  `ValuesInv` gives each field of each form, table and request the set of values
  clients can enter or rows begin with; `TypeOK` needs it because a save copies
  a form into a row, and `Edit` a row into a form.
  `TableOK` adds that what a fetch has read that no save overlapped, and every
  valid table that came with one, is as new as the saves of the page, `HasClosed` that the rows a transfer closed are still closed when it
  opens its own.

The ledger proof goes through `Moves`: every step leaves rows and journal alone,
inserts a draft, rewrites an expense, or posts one transaction with its row
(`NextMoves`). What is to be shown of the books is then shown four times, not
once per endpoint.

The refinements of `WorkQueue`, `Outbox` and `Access` go action by action: each
step of the code is one step of the abstract module (`EnqueueOfQueue`,
`UpdateJobOfQueue`, `HandOutOfQueue`, `FinishJobOfQueue`; for the others likewise)
or leaves its variables alone. What the abstract module forbids is where the code could go
wrong: `Post` a second job for one notification, `HandOut` what is still queued
or has no attempt to spare, `Decide` a merge of a protected row, `Settle` what
the server does not have, `Join` with an invitation that is not open or for an
address that has an account, `Renew` a session under a token that was in use or
bring it back to life (a rotation goes by the id of a session that may have been
revoked since it was found). In `PromisesProofs` the abstract modules are proved to
keep their promises, so that a reader may rely on the short text alone.

Checked by TLC only: `Termination`, `EveryCallEnds`, `EveryJobClaimed` and
`EveryMutationSettles`, because the prover does no liveness under fairness; and
the four violations. `WorkQueue`, `Outbox` and `Access` say nothing of liveness: these
properties are about the modules that implement them.

## 5. Limits

* The conflict query's other outcomes, the contents of timeline and audit
  entries, notifications and permissions are abstracted away.
* `createAssignment` queries through a second connection while its transaction
  holds one. That as many of these as the pool has connections wait for each
  other until they time out is not modelled; `Expire` models the time-out.
* `RowsMatchJournal` says nothing of the amount of an expense: an update that
  read DRAFT can change it after the approval posted another amount.
  `AmountFinal` says that nothing else can.
* `ConflictsCounted` counts a recovery as a sending: a push that is repeated
  after a lost answer may open a second conflict for a mutation, and the code
  has nothing against it.
* `WorkQueue` lets a job be handed to several workers, because overlapping
  claims do that; it demands an attempt for each of them.
* `Books` says nothing of how often a claim is settled. `ReimbursedOnce`, which
  the code violates, does; `PaymentFinal` says what is true: a second payment
  takes a reimbursement that overlaps the first.
* `Sessions` leaves out the password reset, the refresh cookie (the client sends
  the token in the body), preferences, and the role an invitation is for.
  `NoLateEntry` speaks of what was so when the client sent the call: a call sent
  just before a suspension may well be served just after it, and the code
  promises nothing else.
* Two overlapping refreshes may redeem one token; the second to rotate wins, and
  the other client's tokens are dead. The model has it; it is no violation of
  anything the repository states.
* A truncated pull, or a row that changes between the read of its type and
  `serverTime`, is missed until it changes again. `StaleRefused` says that this
  costs a conflict, never an overwritten change. It cannot tell apart two writes
  at one instant: a row that changes again at the very time of its base version
  is taken for unchanged, by the code and by the model. A client has one pull
  under way at a time, so that no older answer arrives after a newer one.
* `ValuesStayWithAsset` allows a form to bring back an old value of the same
  asset, which the code does: a save sends the whole form. It also allows what
  the code does to a save made offline whose page turns to another row before it
  is sent: the old inputs go to the new row. The repository states nothing
  against it, so it is no finding; the property says that this is the only way.
* `NoStaleTable` speaks of the rows a table has. A row that was saved need not be
  among them: it may not match the filter, or not fit on the page. A table that
  came with a fetch the save found under way and could not cancel may be older
  than the save, and counts as valid until its `staleTime` is over. A search looks
  into more fields than the model has; one field is enough for a row to match or
  not. A page that is left and opened again, and tables the query client drops
  after its `gcTime`, are not modelled; a page's saves and tables are.
* A release that finds its row locked is taken to arrive when the lock is free:
  nothing it does rests on what it read before. `AnswersHold` assumes that
  neither audit nor timeline entries fail.
* `Lose` (sessions) ends the work of the server together with the client's call;
  a server that goes on for a client that has given up is a call of another tab,
  and the theorems have any number of these. A query that is read again after a
  failure (`retry: 1`) is in `Inventory` (`FetchFails`), not in `Sessions`.
* `NamesUnique` and `ImplementsAccess` (one account an address, one profile a
  user) rest on unique indexes of the schema; their mutants drop one, and the
  checks of the application alone do not suffice. So does the single recording of a mutation.
* Timestamps, time zones and rounding are outside the models: times are integers
  and amounts natural numbers.

Not modelled at all: platform quotas (a read nothing enforces), health, metrics
and the middleware (no state), configuration and UI packages, the contents of
reports and analytics (reads), the events and finance pages (the pattern of the inventory
pages with fewer races), seed data beyond the roles and their permissions.

## 6. Plan

Done: the assignment engine with its abstract table, the ledger with its books,
accounts and sessions with the web client's tokens and what they promise, the worker queue with the
services that use it, offline work, and the inventory with its pages. What could follow, in
order of what is at stake:

1. `Reservations` for the inventory: an abstract specification of who holds an
   asset that transfers implement as far as they do not overlap.
2. `EventWorkflow`: the status of events, with the assignments composed in.
3. `TxPool`: transactions that need a second connection of a bounded pool.
4. The status workflow of devices, SIM cards and routers inside `Inventory`.
