-------------------------------- MODULE Jobs --------------------------------
(***************************************************************************)
(* The worker queue, and the three services that put work on it:           *)
(* notifications, reports and automation.                                  *)
(*                                                                         *)
(* A service stores its row first and enqueues the job for it afterwards,  *)
(* in statements of their own.  Several enqueues or updates of one call    *)
(* run at once (Promise.all): they finish in any order, and when one of    *)
(* them fails the call fails at once, while the others still go on.        *)
(***************************************************************************)
EXTENDS Integers, Sequences, FiniteSets, SequencesExt

CONSTANTS
  Users,
  Workers, Serves,  \* workers, and the queues each asks for jobs
  Rules,        \* rows of the AutomationRule table
  Ready,        \* the rules that exist at first
  Due,          \* the rules that are ACTIVE and whose nextRunAt has passed
  Clients, May, \* callers of the API, and the requests each may make
  Take,         \* jobs handed out by one claim, at most
  Outcomes,     \* Outcomes[w]: how the jobs of worker w may end
  MaxCalls,     \* bound: requests of one client in one behaviour
  MaxFaults,    \* bound: failing statements and dying servers
  MaxRows       \* bound: jobs those requests make, for EveryJobClaimed

\* A request: an operation for some users, on a rule, or on an entry.
Operations == {"dispatch", "report", "export", "execute", "scheduled", "create", "read", "readAll"}
Goal == [op: Operations, users: SUBSET Users, rule: Rules]
NoCall == [op |-> "none"]

Kinds == {"note", "report", "export"}
Statuses == {"QUEUED", "PROCESSING", "COMPLETED", "FAILED"}
Queues == {"notifications", "reports", "automation"}

ASSUME JobsConstantsOK ==
  /\ Ready \subseteq Rules /\ Due \subseteq Rules /\ May \in [Clients -> SUBSET Goal]
  /\ Rules \cap Nat = {}
  /\ Serves \in [Workers -> SUBSET Queues]
  /\ \A q \in Queues : \E w \in Workers : q \in Serves[w]
  /\ Outcomes \in [Workers -> SUBSET {"COMPLETED", "FAILED"}]
  /\ IsFiniteSet(Users) /\ IsFiniteSet(Clients) /\ IsFiniteSet(Workers)
  /\ Take \in Nat \ {0} /\ MaxCalls \in Nat /\ MaxFaults \in Nat /\ MaxRows \in Nat

VARIABLES
  entry,     \* the rows of Notification and ReportRun, as they are created
  rule,      \* the AutomationRule table: does it exist, how often was it marked as run
  job,       \* the WorkerJob table, in the order of the inserts
  call,      \* the request a client is waiting for
  sending,   \* enqueues under way: for which row, of which caller, is it awaited,
             \* and (to tell two alike apart) after how many faults it began
  claim,     \* the jobs a worker's claim found, {} if it is not claiming
  updating,  \* updates of claims under way: of which job, for whom, and as for sending
  holding,   \* the jobs a worker was handed and has not finished
  broken,    \* history: rows whose enqueue never ran, through a fault
  had,       \* history: the jobs a worker was ever handed
  asked,     \* history: who asked for which entry to be marked read
  calls, faults

tables == <<entry, rule, job>>
requests == <<call, sending, broken, asked>>
claims == <<claim, updating, holding, had>>
vars == <<tables, requests, claims, calls, faults>>

Init ==
  /\ entry = <<>> /\ job = <<>>
  /\ rule = [r \in Rules |-> [exists |-> r \in Ready, runs |-> 0]]
  /\ call = [c \in Clients |-> NoCall]
  /\ sending = {} /\ broken = {} /\ asked = {}
  /\ claim = [w \in Workers |-> {}] /\ updating = {}
  /\ holding = [w \in Workers |-> {}] /\ had = [w \in Workers |-> {}]
  /\ calls = [c \in Clients |-> 0] /\ faults = 0

Is(c, op, pc) == call[c].op = op /\ call[c].pc = pc
End(c) == call' = [call EXCEPT ![c] = NoCall]
Awaits(c) == \E s \in sending : s.call = c /\ s.awaited

Submit(c) ==
  /\ call[c] = NoCall /\ calls[c] < MaxCalls
  /\ calls' = [calls EXCEPT ![c] = @ + 1]
  /\ \E g \in May[c], e \in 0 .. Len(entry) :
       /\ g.op = "read" <=> e # 0
       /\ call' = [call EXCEPT ![c] = [op |-> g.op, users |-> g.users, rule |-> g.rule,
                                       pc |-> "start", of |-> e]]
  /\ UNCHANGED <<tables, sending, broken, asked, claims, faults>>

(***************************************************************************)
(* Requests that lead to jobs.                                             *)
(***************************************************************************)
Send(c, refs) ==
  /\ sending' = sending \cup {[of |-> x, call |-> c, awaited |-> TRUE, after |-> faults] : x \in refs}
  /\ call' = [call EXCEPT ![c].pc = "enqueue"]

Row(kind, u) == [kind |-> kind, user |-> u, read |-> FALSE]

\* A delivery for each notification, whatever its channel; an export of each
\* report that is not asked for as JSON.
NeedsJob(e) == e.kind \in {"note", "export"}

\* createManyAndReturn stores all the rows in one statement.
Store(c, rows) ==
  /\ entry' = entry \o rows
  /\ Send(c, {i \in Len(entry) + 1 .. Len(entry) + Len(rows) : NeedsJob(rows[i - Len(entry)])})
  /\ UNCHANGED <<rule, job, broken, asked, claims, calls, faults>>

Dispatch(c) ==
  /\ Is(c, "dispatch", "start")
  /\ LET users == SetToSeq(call[c].users) IN
       Store(c, [i \in 1 .. Len(users) |-> Row("note", users[i])])

Generate(c) ==
  \E kind \in {"report", "export"} :
    /\ Is(c, kind, "start")
    /\ \E u \in call[c].users : Store(c, <<Row(kind, u)>>)

Execute(c) ==
  /\ Is(c, "execute", "start")
  /\ IF rule[call[c].rule].exists THEN Send(c, {call[c].rule}) ELSE End(c) /\ UNCHANGED sending
  /\ UNCHANGED <<tables, broken, asked, claims, calls, faults>>

\* nextRunAt stays as it is: the rule is due again for the next call.
ExecuteScheduled(c) ==
  /\ Is(c, "scheduled", "start")
  /\ Send(c, {r \in Due : rule[r].exists})
  /\ UNCHANGED <<tables, broken, asked, claims, calls, faults>>

\* Mutant: exports go to a queue that no worker knows.
QueueOfExports(x) ==
  IF x \in Rules THEN "automation"
  ELSE IF entry[x].kind = "note" THEN "notifications" ELSE "exports"

QueueOf(x) ==
  IF x \in Rules THEN "automation"
  ELSE IF entry[x].kind = "note" THEN "notifications" ELSE "reports"

\* Mutant: an insert that timed out is tried again, although it was done.
SentAgain(s) == IF s.awaited THEN (sending \ {s}) \cup {[s EXCEPT !.awaited = FALSE]}
                ELSE sending \ {s}

Sent(s) == sending \ {s}

Enqueue(s) ==
  /\ job' = Append(job, [of |-> s.of, queue |-> QueueOf(s.of), status |-> "QUEUED", attempts |-> 0])
  /\ sending' = Sent(s)
  /\ UNCHANGED <<entry, rule, call, broken, asked, claims, calls, faults>>

\* Mutant: the rule is marked before its job is on the queue.
MayMarkEarly(c) == call[c].op = "execute" /\ call[c].pc = "enqueue"

\* execute notes lastRunAt once the job is there.
MayMark(c) == Is(c, "execute", "enqueue") /\ ~Awaits(c)

MarkRun(c) ==
  /\ MayMark(c)
  /\ rule' = [rule EXCEPT ![call[c].rule].runs = @ + 1]
  /\ End(c)
  /\ UNCHANGED <<entry, job, sending, broken, asked, claims, calls, faults>>

Finish(c) ==
  /\ call[c] # NoCall /\ call[c].op # "execute" /\ call[c].pc = "enqueue" /\ ~Awaits(c)
  /\ End(c)
  /\ UNCHANGED <<tables, sending, broken, asked, claims, calls, faults>>

(***************************************************************************)
(* Other requests.                                                         *)
(***************************************************************************)
CreateRule(c) ==
  /\ Is(c, "create", "start")
  /\ rule' = [rule EXCEPT ![call[c].rule].exists = TRUE]
  /\ End(c)
  /\ UNCHANGED <<entry, job, sending, broken, asked, claims, calls, faults>>

IsNoteOf(e, us) == entry[e].kind = "note" /\ entry[e].user \in us

Asks(c, es) == asked' = asked \cup {[entry |-> e, user |-> u] : e \in es, u \in call[c].users}

FindNotification(c) ==
  /\ Is(c, "read", "start")
  /\ IF IsNoteOf(call[c].of, call[c].users)
     THEN call' = [call EXCEPT ![c].pc = "update"] ELSE End(c)
  /\ Asks(c, {call[c].of})
  /\ UNCHANGED <<tables, sending, broken, claims, calls, faults>>

Mark(es) == entry' = [e \in DOMAIN entry |-> [entry[e] EXCEPT !.read = @ \/ e \in es]]

MarkRead(c) ==
  /\ Is(c, "read", "update")
  /\ Mark({call[c].of})
  /\ End(c)
  /\ UNCHANGED <<rule, job, sending, broken, asked, claims, calls, faults>>

\* Mutant: the ids are all that counts.
AmongThemAny(ids, us) == {e \in ids : entry[e].kind = "note"}

\* Of the ids in the request, only those of the caller's own notifications.
AmongThem(ids, us) == {e \in ids : IsNoteOf(e, us)}

BulkMarkRead(c) ==
  /\ Is(c, "readAll", "start")
  /\ \E ids \in SUBSET DOMAIN entry : Mark(AmongThem(ids, call[c].users)) /\ Asks(c, ids)
  /\ End(c)
  /\ UNCHANGED <<rule, job, sending, broken, claims, calls, faults>>

(***************************************************************************)
(* Workers.                                                                *)
(***************************************************************************)
Queued(q) == {j \in DOMAIN job : job[j].queue = q /\ job[j].status = "QUEUED"}

\* Mutant: a claim waits until there are as many jobs as it takes.
BatchesFull(js) == kSubset(Take, js)

\* The jobs with the earliest runAt.  That is noted before the insert, so that
\* of jobs inserted one after the other each may be the earlier one, and it is
\* left open which are taken.
Batches(js) == kSubset(Min({Take, Cardinality(js)}), js)

\* claimDue reads a batch of jobs ...
FindDue(w) ==
  /\ claim[w] = {}
  /\ \E q \in Serves[w] : \E found \in Batches(Queued(q)) :
       /\ found # {}
       /\ claim' = [claim EXCEPT ![w] = found]
       /\ updating' = updating \cup
            {[job |-> j, by |-> w, awaited |-> TRUE, after |-> faults] : j \in found}
  /\ UNCHANGED <<tables, requests, holding, had, calls, faults>>

\* ... and then updates each by its id, whatever became of it.
Taken(row) == [row EXCEPT !.status = "PROCESSING", !.attempts = @ + 1]

UpdateJob(x) ==
  /\ job' = [job EXCEPT ![x.job] = Taken(@)]
  /\ updating' = updating \ {x}
  /\ UNCHANGED <<entry, rule, requests, claim, holding, had, calls, faults>>

\* Mutant: the answer does not wait for the updates.
UpdatedUnawaited(w) == claim[w] # {}

Updated(w) == claim[w] # {} /\ ~\E x \in updating : x.by = w /\ x.awaited

HandOut(w) ==
  /\ Updated(w)
  /\ holding' = [holding EXCEPT ![w] = @ \cup claim[w]]
  /\ had' = [had EXCEPT ![w] = @ \cup claim[w]]
  /\ claim' = [claim EXCEPT ![w] = {}]
  /\ UNCHANGED <<tables, requests, updating, calls, faults>>

\* complete and fail: what they set goes by the id of the job too.
FinishJob(w, j, status) ==
  /\ j \in holding[w]
  /\ job' = [job EXCEPT ![j].status = status]
  /\ holding' = [holding EXCEPT ![w] = @ \ {j}]
  /\ UNCHANGED <<entry, rule, requests, claim, updating, had, calls, faults>>

(***************************************************************************)
(* Faults.                                                                 *)
(***************************************************************************)
Fault == faults < MaxFaults /\ faults' = faults + 1

Unattended(x) == [x EXCEPT !.awaited = FALSE]

\* An insert fails: its call is answered with an error, and the other inserts
\* of that call go on unattended.
EnqueueFails(s) ==
  /\ Fault
  /\ broken' = broken \cup {s.of}
  /\ IF s.awaited
     THEN /\ sending' = {IF x.call = s.call THEN Unattended(x) ELSE x : x \in sending \ {s}}
          /\ End(s.call)
     ELSE sending' = sending \ {s} /\ UNCHANGED call
  /\ UNCHANGED <<tables, asked, claims, calls>>

\* The server that works on a call dies: what it has not done is not done.
CallDies(c) ==
  /\ Fault /\ call[c] # NoCall
  /\ sending' = {s \in sending : s.call # c}
  /\ broken' = broken \cup {s.of : s \in {y \in sending : y.call = c}}
  /\ End(c)
  /\ UNCHANGED <<tables, asked, claims, calls>>

UpdateFails(x) ==
  /\ Fault
  /\ IF x.awaited
     THEN /\ updating' = {IF y.by = x.by THEN Unattended(y) ELSE y : y \in updating \ {x}}
          /\ claim' = [claim EXCEPT ![x.by] = {}]
     ELSE updating' = updating \ {x} /\ UNCHANGED claim
  /\ UNCHANGED <<tables, requests, holding, had, calls>>

ClaimDies(w) ==
  /\ Fault /\ claim[w] # {}
  /\ updating' = {x \in updating : x.by # w}
  /\ claim' = [claim EXCEPT ![w] = {}]
  /\ UNCHANGED <<tables, requests, holding, had, calls>>

Request(c) ==
  \/ Dispatch(c) \/ Generate(c) \/ Execute(c) \/ ExecuteScheduled(c) \/ CreateRule(c)
  \/ MarkRun(c) \/ Finish(c) \/ FindNotification(c) \/ MarkRead(c) \/ BulkMarkRead(c)

Statements == (\E s \in sending : Enqueue(s)) \/ (\E x \in updating : UpdateJob(x))

Poll(w) == FindDue(w) \/ HandOut(w)

Next ==
  \/ \E c \in Clients : Submit(c) \/ Request(c) \/ CallDies(c)
  \/ Statements
  \/ \E s \in sending : EnqueueFails(s)
  \/ \E x \in updating : UpdateFails(x)
  \/ \E w \in Workers : Poll(w) \/ ClaimDies(w)
  \/ \E w \in Workers : \E j \in holding[w], status \in Outcomes[w] :
       FinishJob(w, j, status)

\* The server goes on with what it has begun, and workers keep polling; they
\* need not finish what they hold: a worker may die, and its jobs stay PROCESSING.
Spec ==
  /\ Init /\ [][Next]_vars
  /\ WF_vars(Statements)
  /\ \A c \in Clients : WF_vars(Request(c))
  /\ \A w \in Workers : WF_vars(Poll(w))

(***************************************************************************)
(* Properties.                                                             *)
(***************************************************************************)
Refs == Nat \cup Rules

TypeOK ==
  /\ entry \in Seq([kind: Kinds, user: Users, read: BOOLEAN])
  /\ rule \in [Rules -> [exists: BOOLEAN, runs: Nat]]
  /\ job \in Seq([of: Refs, queue: Queues, status: Statuses, attempts: Nat])
  /\ call \in [Clients -> {NoCall} \cup
       [op: Operations, users: SUBSET Users, rule: Rules,
        pc: {"start", "enqueue", "update"}, of: 0 .. Len(entry)]]
  /\ sending \subseteq
       [of: (1 .. Len(entry)) \cup Rules, call: Clients, awaited: BOOLEAN, after: 0 .. MaxFaults]
  /\ claim \in [Workers -> SUBSET (1 .. Len(job))]
  /\ updating \subseteq [job: 1 .. Len(job), by: Workers, awaited: BOOLEAN, after: 0 .. MaxFaults]
  /\ holding \in [Workers -> SUBSET (1 .. Len(job))]
  /\ broken \subseteq Refs
  /\ had \in [Workers -> SUBSET (1 .. Len(job))]
  /\ asked \subseteq [entry: Nat, user: Users]
  /\ calls \in [Clients -> 0 .. MaxCalls] /\ faults \in 0 .. MaxFaults

JobsOf(x) == {j \in DOMAIN job : job[j].of = x}

\* A notification, or a report to export, has one job at most, and it is
\* without one only while its insert is under way or after that was lost.
\* Jobs are about rows that exist.
OneJobEach ==
  /\ \A e \in DOMAIN entry :
       /\ \A i, j \in JobsOf(e) : i = j
       /\ entry[e].kind # "report" =>
            JobsOf(e) # {} \/ e \in broken \/ \E s \in sending : s.of = e
  /\ \A j \in DOMAIN job : job[j].of \in DOMAIN entry \cup Rules

\* A rule is marked as run at most as often as jobs were queued for it, even
\* if the server dies between the two.
MarkedRunsAreQueued == \A r \in Rules : rule[r].runs <= Cardinality(JobsOf(r))

\* A job that a claim has handed out is not on the queue again: two workers
\* get the same job only if their claims overlap.
HandedOutForGood == \A w \in Workers : \A j \in had[w] : job[j].status # "QUEUED"

\* The attempts of a job count every worker it was handed to, those included
\* whose claims overlapped.
HandOutsCounted ==
  \A j \in DOMAIN job : Cardinality({w \in Workers : j \in had[w]}) <= job[j].attempts

\* A notification is read only if the user it is for asked for that.
ReadByOwner ==
  \A e \in DOMAIN entry : entry[e].read => [entry |-> e, user |-> entry[e].user] \in asked

IsQueued(j) == j \in DOMAIN job /\ job[j].status = "QUEUED"

\* The jobs and hand-outs that WorkQueue is about.
Rows == [j \in DOMAIN job |-> [of |-> job[j].of, waiting |-> IsQueued(j), attempts |-> job[j].attempts]]
Given == {g \in [job: DOMAIN job, to: Workers] : g.job \in had[g.to]}
Done == {g \in Given : g.job \notin holding[g.to]}

Queue == INSTANCE WorkQueue WITH row <- Rows, given <- Given, done <- Done, Repeated <- Rules

\* Claims that overlap, updates that come late or fail, calls that break off and
\* requests that are made again keep the promises of WorkQueue.
ImplementsQueue == Queue!Spec

\* Every job on the queue is claimed in the end, although workers, claims and
\* single updates may fail, and other jobs come in.  The first part says that
\* MaxRows is large enough for the second to be about every job.
EveryJobClaimed ==
  /\ [](Len(job) <= MaxRows)
  /\ \A j \in 1 .. MaxRows : IsQueued(j) ~> ~IsQueued(j)
=============================================================================
