----------------------------- MODULE JobsProofs -----------------------------
(***************************************************************************)
(* Theorems about the worker queue and the services that use it, for every *)
(* set of users, workers, clients and rules, however many requests, jobs   *)
(* and faults there are.                                                   *)
(***************************************************************************)
EXTENDS Jobs, FiniteSetTheorems, SequenceTheorems, TLAPS

-----------------------------------------------------------------------------
(* Workers: claims, their updates and what is handed out. *)

JobRow == [of: Refs, queue: Queues, status: Statuses, attempts: Nat]
Numbers == 1 .. Len(job)

WorkType ==
  /\ job \in Seq(JobRow)
  /\ claim \in [Workers -> SUBSET Numbers]
  /\ updating \subseteq [job: Numbers, by: Workers, awaited: BOOLEAN, after: 0 .. MaxFaults]
  /\ holding \in [Workers -> SUBSET Numbers]
  /\ had \in [Workers -> SUBSET Numbers]

\* The claim of w still waits for its update of job j.
Pending(w, j) == \E x \in updating : x.job = j /\ x.by = w /\ x.awaited

ClaimInv == \A w \in Workers : \A j \in claim[w] : Pending(w, j) \/ job[j].status # "QUEUED"

\* The workers that got j, or will get it without another update.
Takers(j) == {w \in Workers : j \in had[w] \/ (j \in claim[w] /\ ~Pending(w, j))}

TakersCounted == \A j \in DOMAIN job : Cardinality(Takers(j)) <= job[j].attempts

WorkInv == WorkType /\ ClaimInv /\ HandedOutForGood /\ TakersCounted

LEMMA RowTyped ==
  ASSUME WorkType, NEW j \in DOMAIN job
  PROVE  job[j] \in JobRow /\ job[j].attempts \in Nat /\ j \in Numbers
  <1>1. job[j] \in JobRow /\ j \in Numbers
    BY DEF WorkType, Numbers
  <1>2. QED BY <1>1 DEF JobRow

LEMMA TakersFinite ==
  ASSUME NEW j
  PROVE  IsFiniteSet(Takers(j)) /\ Cardinality(Takers(j)) \in Nat
  <1>1. IsFiniteSet(Takers(j))
    BY JobsConstantsOK, FS_Subset DEF Takers
  <1>2. QED BY <1>1, FS_CardinalityType

\* Fewer takers need no more attempts.
LEMMA FewerTakers ==
  ASSUME WorkType, TakersCounted, NEW j \in DOMAIN job, Takers(j)' \subseteq Takers(j),
         NEW n \in Nat, job[j].attempts <= n
  PROVE  Cardinality(Takers(j)') <= n
  <1>1. IsFiniteSet(Takers(j)) /\ Cardinality(Takers(j)) \in Nat
    BY TakersFinite
  <1>2. Cardinality(Takers(j)') <= Cardinality(Takers(j)) /\ Cardinality(Takers(j)') \in Nat
    BY <1>1, FS_Subset, FS_CardinalityType
  <1>3. job[j].attempts \in Nat /\ Cardinality(Takers(j)) <= job[j].attempts
    BY RowTyped DEF TakersCounted
  <1>4. QED BY <1>1, <1>2, <1>3

LEMMA EnqueueWork ==
  ASSUME WorkInv, NEW s \in sending, s.of \in Refs, Enqueue(s)
  PROVE  WorkInv'
  <1> DEFINE n == Len(job) + 1
             new == [of |-> s.of, queue |-> QueueOf(s.of), status |-> "QUEUED", attempts |-> 0]
  <1>1. job' = Append(job, new) /\ UNCHANGED claims
    BY DEF Enqueue
  <1>2. new \in JobRow
    BY DEF QueueOf, JobRow, Queues, Statuses
  <1>3. job \in Seq(JobRow) /\ Len(job) \in Nat
    BY DEF WorkInv, WorkType
  <1>4. new.attempts = 0
    OBVIOUS
  <1> HIDE DEF new
  <1>5. /\ job' \in Seq(JobRow) /\ Len(job') = n /\ job'[n] = new
        /\ \A j \in Numbers : job'[j] = job[j]
    BY <1>1, <1>2, <1>3 DEF Numbers
  <1>6. WorkType'
    BY <1>1, <1>3, <1>5 DEF WorkInv, WorkType, Numbers, claims
  <1>7. ClaimInv' /\ HandedOutForGood'
    BY <1>1, <1>5 DEF WorkInv, WorkType, ClaimInv, HandedOutForGood, Pending, claims
  <1>8. TakersCounted'
    <2>1. \A j : Takers(j)' = Takers(j)
      BY <1>1 DEF Takers, Pending, claims
    <2>2. Takers(n) = {}
      BY <1>3 DEF Takers, WorkInv, WorkType, Numbers
    <2>3. ASSUME NEW j \in DOMAIN job' PROVE Cardinality(Takers(j)) <= job'[j].attempts
      <3>1. CASE j = n
        <4>1. job'[j].attempts = 0 /\ Takers(j) = {}
          BY <1>4, <1>5, <2>2, <3>1
        <4>2. QED BY <4>1, FS_EmptySet
      <3>2. CASE j # n
        BY <1>3, <1>5, <2>3, <3>2 DEF WorkInv, TakersCounted, Numbers
      <3>3. QED BY <3>1, <3>2
    <2>4. QED BY <2>1, <2>3 DEF TakersCounted
  <1>9. QED BY <1>6, <1>7, <1>8 DEF WorkInv

LEMMA FindDueWork ==
  ASSUME WorkInv, faults \in 0 .. MaxFaults, NEW w \in Workers, FindDue(w)
  PROVE  WorkInv'
  <1> DEFINE Update(j) == [job |-> j, by |-> w, awaited |-> TRUE, after |-> faults]
  <1>0. PICK q \in Serves[w] : \E found \in Batches(Queued(q)) :
          /\ claim' = [claim EXCEPT ![w] = found]
          /\ updating' = updating \cup {Update(j) : j \in found}
    BY DEF FindDue
  <1>1. PICK found \in Batches(Queued(q)) :
          /\ claim' = [claim EXCEPT ![w] = found]
          /\ updating' = updating \cup {Update(j) : j \in found}
    BY <1>0
  <1>2. /\ claim' = [claim EXCEPT ![w] = found]
        /\ updating' = updating \cup {Update(j) : j \in found}
        /\ UNCHANGED <<job, holding, had>> /\ claim[w] = {}
    BY <1>1 DEF FindDue, tables
  <1>3. found \subseteq Numbers
    BY DEF Batches, kSubset, Queued, Numbers, WorkInv, WorkType
  <1>4. updating' \subseteq [job: Numbers, by: Workers, awaited: BOOLEAN, after: 0 .. MaxFaults]
    <2>1. ASSUME NEW j \in found
          PROVE  Update(j) \in [job: Numbers, by: Workers, awaited: BOOLEAN, after: 0 .. MaxFaults]
      BY <1>3
    <2>2. QED BY <1>2, <2>1 DEF WorkInv, WorkType
  <1>5. claim' \in [Workers -> SUBSET Numbers]
    BY <1>2, <1>3 DEF WorkInv, WorkType
  <1>6. WorkType'
    BY <1>2, <1>4, <1>5 DEF WorkInv, WorkType, Numbers
  <1>7. /\ \A v \in Workers, j \in Numbers : v # w => (Pending(v, j)' <=> Pending(v, j)) /\ claim'[v] = claim[v]
        /\ \A j \in found : Pending(w, j)'
        /\ claim'[w] = found
    <2>1. claim'[w] = found /\ \A v \in Workers : v # w => claim'[v] = claim[v]
      BY <1>2 DEF WorkInv, WorkType
    <2>2. ASSUME NEW v \in Workers, NEW j \in Numbers, v # w
          PROVE  Pending(v, j)' <=> Pending(v, j)
      BY <1>2, <2>2 DEF Pending
    <2>3. ASSUME NEW j \in found PROVE Pending(w, j)'
      <3> DEFINE x == Update(j)
      <3>1. x \in updating' /\ x.job = j /\ x.by = w /\ x.awaited
        BY <1>2
      <3>2. QED BY <3>1 DEF Pending
    <2>4. QED BY <2>1, <2>2, <2>3
  <1>8. ClaimInv'
    BY <1>2, <1>3, <1>7 DEF WorkInv, WorkType, ClaimInv
  <1>9. HandedOutForGood'
    BY <1>2 DEF WorkInv, HandedOutForGood
  <1>10. \A j \in Numbers : Takers(j)' \subseteq Takers(j)
    BY <1>2, <1>7 DEF Takers
  <1>11. TakersCounted'
    <2>1. \A j \in DOMAIN job : j \in Numbers /\ job[j].attempts \in Nat /\ job[j].attempts <= job[j].attempts
      BY RowTyped DEF WorkInv
    <2>2. \A j \in DOMAIN job : Cardinality(Takers(j)') <= job[j].attempts
      BY <1>10, <2>1, FewerTakers DEF WorkInv
    <2>3. QED BY <1>2, <2>2 DEF TakersCounted
  <1>12. QED BY <1>6, <1>8, <1>9, <1>11 DEF WorkInv

LEMMA UpdateJobWork ==
  ASSUME WorkInv, NEW x \in updating, UpdateJob(x)
  PROVE  WorkInv'
  <1>1. job' = [job EXCEPT ![x.job] = Taken(@)] /\ updating' = updating \ {x}
        /\ UNCHANGED <<claim, holding, had>>
    BY DEF UpdateJob
  <1>2. x.job \in DOMAIN job /\ x.job \in Numbers /\ x.by \in Workers
    BY DEF WorkInv, WorkType, Numbers
  <1>3. job[x.job] \in JobRow
    BY <1>2, RowTyped DEF WorkInv
  <1>4. Taken(job[x.job]) \in JobRow /\ Taken(job[x.job]).status = "PROCESSING"
        /\ Taken(job[x.job]).attempts = job[x.job].attempts + 1
    <2>1. job[x.job].attempts + 1 \in Nat /\ "PROCESSING" \in Statuses
      BY <1>3 DEF JobRow, Statuses
    <2>2. QED BY <1>3, <2>1 DEF Taken, JobRow
  <1>5. /\ job' \in Seq(JobRow) /\ Len(job') = Len(job) /\ DOMAIN job' = DOMAIN job
        /\ job'[x.job].status = "PROCESSING" /\ job'[x.job].attempts = job[x.job].attempts + 1
        /\ \A j \in DOMAIN job : j # x.job => job'[j] = job[j]
    BY <1>1, <1>2, <1>4 DEF WorkInv, WorkType
  <1>6. WorkType'
    BY <1>1, <1>5 DEF WorkInv, WorkType, Numbers
  <1>7. ASSUME NEW w \in Workers, NEW j \in Numbers, w # x.by \/ j # x.job
        PROVE  Pending(w, j)' <=> Pending(w, j)
    BY <1>1, <1>7 DEF Pending
  <1>8. ClaimInv'
    <2>1. ASSUME NEW w \in Workers, NEW j \in claim[w]
          PROVE  Pending(w, j)' \/ job'[j].status # "QUEUED"
      <3>1. j \in Numbers /\ j \in DOMAIN job
        BY DEF WorkInv, WorkType, Numbers
      <3>2. CASE j = x.job
        BY <1>5, <3>2
      <3>3. CASE j # x.job
        BY <1>5, <1>7, <3>1, <3>3 DEF WorkInv, ClaimInv
      <3>4. QED BY <3>2, <3>3
    <2>2. QED BY <1>1, <2>1 DEF ClaimInv
  <1>9. HandedOutForGood'
    <2>1. ASSUME NEW w \in Workers, NEW j \in had[w] PROVE job'[j].status # "QUEUED"
      <3>1. j \in DOMAIN job
        BY DEF WorkInv, WorkType, Numbers
      <3>2. QED BY <1>5, <3>1 DEF WorkInv, HandedOutForGood
    <2>2. QED BY <1>1, <2>1 DEF HandedOutForGood
  <1>10. ASSUME NEW j \in DOMAIN job PROVE Cardinality(Takers(j)') <= job'[j].attempts
    <2>1. j \in Numbers /\ job[j].attempts \in Nat
      BY RowTyped DEF WorkInv
    <2>2. CASE j # x.job
      <3>1. Takers(j)' \subseteq Takers(j)
        BY <1>1, <1>7, <2>1, <2>2 DEF Takers
      <3>2. job'[j].attempts = job[j].attempts
        BY <1>5, <2>2
      <3>3. QED BY <2>1, <3>1, <3>2, FewerTakers DEF WorkInv
    <2>3. CASE j = x.job
      <3>1. Takers(j)' \subseteq Takers(j) \cup {x.by}
        BY <1>1, <1>7, <2>1 DEF Takers
      <3>2. IsFiniteSet(Takers(j)) /\ Cardinality(Takers(j)) \in Nat
        BY TakersFinite
      <3>3. IsFiniteSet(Takers(j) \cup {x.by})
            /\ Cardinality(Takers(j) \cup {x.by}) \in Nat
            /\ Cardinality(Takers(j) \cup {x.by}) <= Cardinality(Takers(j)) + 1
        <4>1. IsFiniteSet(Takers(j) \cup {x.by}) /\ Cardinality(Takers(j) \cup {x.by}) =
                IF x.by \in Takers(j) THEN Cardinality(Takers(j)) ELSE Cardinality(Takers(j)) + 1
          BY <3>2, FS_AddElement
        <4>2. QED BY <3>2, <4>1
      <3>4. Cardinality(Takers(j)') <= Cardinality(Takers(j) \cup {x.by})
            /\ Cardinality(Takers(j)') \in Nat
        BY <3>1, <3>3, FS_Subset, FS_CardinalityType
      <3>5. Cardinality(Takers(j)) <= job[j].attempts
        BY DEF WorkInv, TakersCounted
      <3>6. job'[j].attempts = job[j].attempts + 1
        BY <1>5, <2>3
      <3>7. QED BY <2>1, <3>2, <3>3, <3>4, <3>5, <3>6
    <2>4. QED BY <2>2, <2>3
  <1>11. TakersCounted'
    BY <1>5, <1>10 DEF TakersCounted
  <1>12. QED BY <1>6, <1>8, <1>9, <1>11 DEF WorkInv

\* Steps that leave the jobs alone and make nobody a taker.
LEMMA SameJobs ==
  ASSUME WorkInv, job' = job, \A j \in Numbers : Takers(j)' \subseteq Takers(j)
  PROVE  TakersCounted'
  <1>1. ASSUME NEW j \in DOMAIN job PROVE Cardinality(Takers(j)') <= job[j].attempts
    <2>1. j \in Numbers /\ job[j].attempts \in Nat
      BY RowTyped DEF WorkInv
    <2>2. job[j].attempts <= job[j].attempts
      BY <2>1
    <2>3. QED BY <2>1, <2>2, FewerTakers DEF WorkInv
  <1>2. QED BY <1>1 DEF TakersCounted

LEMMA HandOutWork ==
  ASSUME WorkInv, NEW w \in Workers, HandOut(w)
  PROVE  WorkInv'
  <1>1. /\ holding' = [holding EXCEPT ![w] = @ \cup claim[w]]
        /\ had' = [had EXCEPT ![w] = @ \cup claim[w]]
        /\ claim' = [claim EXCEPT ![w] = {}]
        /\ UNCHANGED <<job, updating>>
    BY DEF HandOut, tables
  <1>2. WorkType'
    BY <1>1 DEF WorkInv, WorkType, Numbers
  <1>3. \A j : ~Pending(w, j)
    BY DEF HandOut, Updated, Pending
  <1>4. \A v, j : Pending(v, j)' <=> Pending(v, j)
    BY <1>1 DEF Pending
  <1>5. \A j \in claim[w] : job[j].status # "QUEUED"
    BY <1>3 DEF WorkInv, ClaimInv
  <1>6. ClaimInv' /\ HandedOutForGood'
    BY <1>1, <1>4, <1>5 DEF WorkInv, WorkType, ClaimInv, HandedOutForGood
  <1>7. \A j \in Numbers : Takers(j)' \subseteq Takers(j)
    BY <1>1, <1>3, <1>4 DEF Takers, WorkInv, WorkType
  <1>8. QED BY <1>1, <1>2, <1>6, <1>7, SameJobs DEF WorkInv

LEMMA FinishJobWork ==
  ASSUME WorkInv, NEW w \in Workers, NEW j \in holding[w], NEW status \in Outcomes[w],
         FinishJob(w, j, status)
  PROVE  WorkInv'
  <1>1. /\ job' = [job EXCEPT ![j].status = status]
        /\ holding' = [holding EXCEPT ![w] = @ \ {j}]
        /\ UNCHANGED <<claim, updating, had>>
    BY DEF FinishJob
  <1>2. status \in Statuses /\ status # "QUEUED"
    BY JobsConstantsOK DEF Statuses
  <1>3. j \in DOMAIN job /\ job[j] \in JobRow
    BY RowTyped DEF WorkInv, WorkType, Numbers
  <1> DEFINE new == [job[j] EXCEPT !.status = status]
  <1>4. new \in JobRow /\ new.status = status /\ new.attempts = job[j].attempts
    BY <1>2, <1>3 DEF JobRow
  <1>5. job' = [job EXCEPT ![j] = new]
    BY <1>1
  <1> HIDE DEF new
  <1>6. /\ job' \in Seq(JobRow) /\ Len(job') = Len(job) /\ DOMAIN job' = DOMAIN job
        /\ job'[j] = new /\ \A i \in DOMAIN job : i # j => job'[i] = job[i]
    BY <1>3, <1>4, <1>5 DEF WorkInv, WorkType
  <1>7. WorkType'
    BY <1>1, <1>6 DEF WorkInv, WorkType, Numbers
  <1>8. \A i \in DOMAIN job : /\ job'[i].attempts = job[i].attempts
                             /\ job[i].status # "QUEUED" => job'[i].status # "QUEUED"
    BY <1>2, <1>4, <1>6
  <1>9. \A v, i : Pending(v, i)' <=> Pending(v, i)
    BY <1>1 DEF Pending
  <1>10. ClaimInv' /\ HandedOutForGood'
    BY <1>1, <1>8, <1>9 DEF WorkInv, WorkType, Numbers, ClaimInv, HandedOutForGood
  <1>12. TakersCounted'
    <2>1. ASSUME NEW i \in DOMAIN job PROVE Cardinality(Takers(i)') <= job'[i].attempts
      <3>1. Cardinality(Takers(i)) <= job[i].attempts
        BY DEF WorkInv, TakersCounted
      <3>2. Takers(i)' = Takers(i) /\ job'[i].attempts = job[i].attempts
        BY <1>1, <1>8, <1>9 DEF Takers
      <3>3. QED BY <3>1, <3>2
    <2>2. QED BY <1>6, <2>1 DEF TakersCounted
  <1>13. QED BY <1>7, <1>10, <1>12 DEF WorkInv

\* A claim that is given up.
LEMMA DroppedWork ==
  ASSUME WorkInv, NEW w \in Workers, UNCHANGED <<job, holding, had>>,
         updating' \subseteq [job: Numbers, by: Workers, awaited: BOOLEAN, after: 0 .. MaxFaults],
         \A v \in Workers, j \in Numbers : v # w => (Pending(v, j)' <=> Pending(v, j)),
         \/ claim' = [claim EXCEPT ![w] = {}]
         \/ claim' = claim /\ \A j \in Numbers : Pending(w, j)' <=> Pending(w, j)
  PROVE  WorkInv'
  <1>1. ASSUME NEW v \in Workers, NEW j \in claim'[v]
        PROVE  j \in claim[v] /\ j \in Numbers /\ (Pending(v, j)' <=> Pending(v, j))
    <2>1. CASE claim' = [claim EXCEPT ![w] = {}]
      BY <1>1, <2>1 DEF WorkInv, WorkType
    <2>2. CASE claim' = claim /\ \A i \in Numbers : Pending(w, i)' <=> Pending(w, i)
      <3>1. j \in claim[v] /\ j \in Numbers
        BY <1>1, <2>2 DEF WorkInv, WorkType
      <3>2. QED BY <2>2, <3>1
    <2>3. QED BY <2>1, <2>2
  <1>2. WorkType'
    BY DEF WorkInv, WorkType, Numbers
  <1>3. ClaimInv' /\ HandedOutForGood'
    BY <1>1 DEF WorkInv, ClaimInv, HandedOutForGood
  <1>4. \A j \in Numbers : Takers(j)' \subseteq Takers(j)
    BY <1>1 DEF Takers
  <1>5. QED BY <1>2, <1>3, <1>4, SameJobs DEF WorkInv

LEMMA UpdateFailsWork ==
  ASSUME WorkInv, NEW x \in updating, UpdateFails(x)
  PROVE  WorkInv'
  <1>1. x.by \in Workers /\ UNCHANGED <<job, holding, had>>
    BY DEF UpdateFails, WorkInv, WorkType, tables
  <1>2. updating \subseteq [job: Numbers, by: Workers, awaited: BOOLEAN, after: 0 .. MaxFaults]
    BY DEF WorkInv, WorkType
  <1>3. CASE x.awaited
    <2>1. /\ updating' = {IF y.by = x.by THEN Unattended(y) ELSE y : y \in updating \ {x}}
          /\ claim' = [claim EXCEPT ![x.by] = {}]
      BY <1>3 DEF UpdateFails
    <2>2. \A y \in updating : Unattended(y) \in [job: Numbers, by: Workers, awaited: BOOLEAN, after: 0 .. MaxFaults]
                             /\ Unattended(y).by = y.by
      BY <1>2 DEF Unattended
    <2>3. updating' \subseteq [job: Numbers, by: Workers, awaited: BOOLEAN, after: 0 .. MaxFaults]
      BY <1>2, <2>1, <2>2
    <2>4. ASSUME NEW v \in Workers, NEW j \in Numbers, v # x.by PROVE Pending(v, j)' <=> Pending(v, j)
      <3>1. \A y : y \in updating /\ y.by = v <=> y \in updating' /\ y.by = v
        BY <2>1, <2>2, <2>4
      <3>2. QED BY <3>1 DEF Pending
    <2>5. QED BY <1>1, <2>1, <2>3, <2>4, DroppedWork
  <1>4. CASE ~x.awaited
    <2>1. updating' = updating \ {x} /\ claim' = claim
      BY <1>4 DEF UpdateFails
    <2>2. \A v \in Workers, j \in Numbers : Pending(v, j)' <=> Pending(v, j)
      BY <1>4, <2>1 DEF Pending
    <2>3. QED BY <1>1, <1>2, <2>1, <2>2, DroppedWork
  <1>5. QED BY <1>3, <1>4

LEMMA ClaimDiesWork ==
  ASSUME WorkInv, NEW w \in Workers, ClaimDies(w)
  PROVE  WorkInv'
  <1>1. /\ updating' = {x \in updating : x.by # w} /\ claim' = [claim EXCEPT ![w] = {}]
        /\ UNCHANGED <<job, holding, had>>
    BY DEF ClaimDies, tables
  <1>2. updating' \subseteq [job: Numbers, by: Workers, awaited: BOOLEAN, after: 0 .. MaxFaults]
    BY <1>1 DEF WorkInv, WorkType
  <1>3. \A v \in Workers, j \in Numbers : v # w => (Pending(v, j)' <=> Pending(v, j))
    BY <1>1 DEF Pending
  <1>4. QED BY <1>1, <1>2, <1>3, DroppedWork

LEMMA OtherWork ==
  ASSUME WorkInv, UNCHANGED <<job, claims>>
  PROVE  WorkInv'
  BY DEF claims, WorkInv, WorkType, Numbers, ClaimInv, HandedOutForGood, TakersCounted, Takers, Pending

-----------------------------------------------------------------------------
(* Requests: what they enter, what they still have to enqueue. *)

EntryRow == [kind: Kinds, user: Users, read: BOOLEAN]
RequestRow == [op: Operations, users: SUBSET Users, rule: Rules,
             pc: {"start", "enqueue", "update"}, of: 0 .. Len(entry)]

RequestType ==
  /\ entry \in Seq(EntryRow)
  /\ rule \in [Rules -> [exists: BOOLEAN, runs: Nat]]
  /\ call \in [Clients -> {NoCall} \cup RequestRow]
  /\ sending \subseteq [of: (1 .. Len(entry)) \cup Rules, call: Clients, awaited: BOOLEAN, after: 0 .. MaxFaults]
  /\ asked \subseteq [entry: Nat, user: Users]
  /\ broken \subseteq Refs

\* A client that marks a notification as read has asked for it as its owner.
ReadInv ==
  /\ ReadByOwner
  /\ \A c \in Clients : call[c].op = "read" =>
       /\ call[c].of \in DOMAIN entry
       /\ call[c].pc = "update" => [entry |-> call[c].of, user |-> entry[call[c].of].user] \in asked

\* An insert that is awaited belongs to the request its client waits for; the
\* one insert of an execution is about its rule.
SendInv ==
  \A s \in sending : s.awaited =>
    /\ call[s.call] # NoCall /\ call[s.call].pc = "enqueue"
    /\ call[s.call].op = "execute" => s.of = call[s.call].rule

\* An entry has either an insert under way or a job, and only one.
EntryInv ==
  /\ OneJobEach
  /\ \A s \in sending : s.of \in DOMAIN entry =>
       JobsOf(s.of) = {} /\ \A t \in sending : t.of = s.of => t = s

\* Executions of rule r whose job is queued and that are not yet noted.
Unmarked(r) == {c \in Clients : Is(c, "execute", "enqueue") /\ call[c].rule = r /\ ~Awaits(c)}

MarkInv ==
  \A r \in Rules : rule[r].runs + Cardinality(Unmarked(r)) <= Cardinality(JobsOf(r))

RequestInv == RequestType /\ ReadInv /\ SendInv /\ EntryInv /\ MarkInv

LEMMA SeqOfSet ==
  ASSUME NEW S, IsFiniteSet(S)
  PROVE  SetToSeq(S) \in Seq(S)
  <1> DEFINE n == Cardinality(S)
  <1>1. n \in Nat /\ \E f : f \in Bijection(1 .. n, S)
    BY FS_CardinalityType DEF ExistsBijection
  <1>2. PICK f : f \in [1 .. n -> S] /\ IsInjective(f)
    BY <1>1 DEF Bijection, Injection, Surjection, IsInjective
  <1>3. SetToSeq(S) \in [1 .. n -> S]
    BY <1>2 DEF SetToSeq
  <1>4. QED BY <1>1, <1>3

LEMMA JobsOfFinite ==
  ASSUME WorkType, NEW x
  PROVE  IsFiniteSet(JobsOf(x)) /\ Cardinality(JobsOf(x)) \in Nat
  <1>1. IsFiniteSet(1 .. Len(job)) /\ JobsOf(x) \in SUBSET (1 .. Len(job))
    BY FS_Interval DEF WorkType, JobsOf
  <1>2. QED BY <1>1, FS_Subset, FS_CardinalityType

LEMMA UnmarkedFinite ==
  ASSUME NEW r
  PROVE  IsFiniteSet(Unmarked(r)) /\ Cardinality(Unmarked(r)) \in Nat
  <1>1. IsFiniteSet(Unmarked(r))
    BY JobsConstantsOK, FS_Subset DEF Unmarked
  <1>2. QED BY <1>1, FS_CardinalityType

\* What a request at work looks like.
LEMMA RequestTyped ==
  ASSUME RequestType, NEW c \in Clients, call[c] # NoCall
  PROVE  /\ call[c] \in RequestRow /\ call[c].users \subseteq Users /\ IsFiniteSet(call[c].users)
         /\ call[c].rule \in Rules /\ call[c].of \in 0 .. Len(entry)
  <1>1. call[c] \in RequestRow
    BY DEF RequestType
  <1>2. call[c].users \subseteq Users /\ call[c].rule \in Rules /\ call[c].of \in 0 .. Len(entry)
    BY <1>1 DEF RequestRow
  <1>3. QED BY <1>1, <1>2, JobsConstantsOK, FS_Subset

\* The part of the invariant that is about jobs, for steps that keep them.
LEMMA SameEntries ==
  ASSUME EntryInv, job' = job, sending' = sending, broken' = broken,
         DOMAIN entry' = DOMAIN entry, \A e \in DOMAIN entry : entry'[e].kind = entry[e].kind
  PROVE  EntryInv'
  BY DEF EntryInv, OneJobEach, JobsOf

LEMMA SameMarks ==
  ASSUME MarkInv, WorkType, job' = job,
         \A r \in Rules : rule'[r].runs = rule[r].runs /\ Unmarked(r)' \subseteq Unmarked(r),
         RequestType
  PROVE  MarkInv'
  <1>1. ASSUME NEW r \in Rules
        PROVE  rule'[r].runs + Cardinality(Unmarked(r)') <= Cardinality(JobsOf(r))
    <2>1. IsFiniteSet(Unmarked(r)) /\ Cardinality(Unmarked(r)) \in Nat
      BY UnmarkedFinite
    <2>2. Cardinality(Unmarked(r)') <= Cardinality(Unmarked(r)) /\ Cardinality(Unmarked(r)') \in Nat
      BY <2>1, FS_Subset, FS_CardinalityType
    <2>3. rule[r].runs \in Nat
      BY DEF RequestType
    <2>4. Cardinality(JobsOf(r)) \in Nat
      BY JobsOfFinite
    <2>5. rule[r].runs + Cardinality(Unmarked(r)) <= Cardinality(JobsOf(r))
      BY DEF MarkInv
    <2>6. QED BY <2>1, <2>2, <2>3, <2>4, <2>5
  <1>2. QED BY <1>1 DEF MarkInv, JobsOf

\* A client whose request is over, or has only come to another step.  The
\* request may change what is read, as its owner asked, and the rules.
LEMMA CallKeeps ==
  ASSUME RequestInv, WorkType, NEW c \in Clients, NEW new \in {NoCall} \cup RequestRow,
         call' = [call EXCEPT ![c] = new], UNCHANGED <<job, sending, broken>>, ~Awaits(c),
         entry' \in Seq(EntryRow), DOMAIN entry' = DOMAIN entry, Len(entry') = Len(entry),
         \A e \in DOMAIN entry : entry'[e].kind = entry[e].kind /\ entry'[e].user = entry[e].user,
         \A e \in DOMAIN entry : entry'[e].read =>
           entry[e].read \/ [entry |-> e, user |-> entry[e].user] \in asked',
         rule' \in [Rules -> [exists: BOOLEAN, runs: Nat]],
         asked \subseteq asked', asked' \subseteq [entry: Nat, user: Users],
         new.op = "read" =>
           /\ new.of \in DOMAIN entry
           /\ new.pc = "update" => [entry |-> new.of, user |-> entry[new.of].user] \in asked'
  PROVE  RequestType' /\ ReadInv' /\ SendInv' /\ EntryInv'
  <1>1. call'[c] = new /\ \A d \in Clients : d # c => call'[d] = call[d]
    BY DEF RequestInv, RequestType
  <1>2. RequestType'
    BY DEF RequestInv, RequestType, RequestRow
  <1>3. ReadInv'
    <2>1. ReadByOwner'
      BY DEF RequestInv, ReadInv, ReadByOwner
    <2>2. ASSUME NEW d \in Clients, call'[d].op = "read"
          PROVE  /\ call'[d].of \in DOMAIN entry
                 /\ call'[d].pc = "update" =>
                      [entry |-> call'[d].of, user |-> entry[call'[d].of].user] \in asked'
      <3>1. CASE d = c
        BY <1>1, <2>2, <3>1
      <3>2. CASE d # c
        BY <1>1, <2>2, <3>2 DEF RequestInv, ReadInv, Is
      <3>3. QED BY <3>1, <3>2
    <2>3. QED BY <2>1, <2>2 DEF ReadInv, Is
  <1>4. SendInv'
    <2>1. \A s \in sending : s.awaited => s.call # c /\ s.call \in Clients
      BY DEF Awaits, RequestInv, RequestType
    <2>2. QED BY <1>1, <2>1 DEF RequestInv, SendInv
  <1>5. EntryInv'
    BY SameEntries DEF RequestInv
  <1>6. QED BY <1>2, <1>3, <1>4, <1>5

\* Such a step is not about the marks, unless it marks the rule it executed.
LEMMA CallUnmarked ==
  ASSUME RequestInv, NEW c \in Clients, NEW new \in {NoCall} \cup RequestRow,
         call' = [call EXCEPT ![c] = new], UNCHANGED sending,
         new = NoCall \/ new.pc # "enqueue" \/ new.op # "execute"
  PROVE  \A r \in Rules : Unmarked(r)' \subseteq Unmarked(r) \ {c}
  <1>1. call'[c] = new /\ \A d \in Clients : d # c => call'[d] = call[d]
    BY DEF RequestInv, RequestType
  <1>2. ~Is(c, "execute", "enqueue")'
    BY <1>1 DEF Is, NoCall
  <1>3. QED BY <1>1, <1>2 DEF Unmarked, Is, Awaits

LEMMA CallMoves ==
  ASSUME RequestInv, WorkType, NEW c \in Clients, NEW new \in {NoCall} \cup RequestRow,
         call' = [call EXCEPT ![c] = new], UNCHANGED <<entry, rule, job, sending, broken>>,
         ~Awaits(c),
         new = NoCall \/ new.pc # "enqueue" \/ new.op # "execute",
         asked \subseteq asked', asked' \subseteq [entry: Nat, user: Users],
         new.op = "read" =>
           /\ new.of \in DOMAIN entry
           /\ new.pc = "update" => [entry |-> new.of, user |-> entry[new.of].user] \in asked'
  PROVE  RequestInv'
  <1>1. /\ entry' \in Seq(EntryRow) /\ DOMAIN entry' = DOMAIN entry /\ Len(entry') = Len(entry)
        /\ rule' \in [Rules -> [exists: BOOLEAN, runs: Nat]]
        /\ \A e \in DOMAIN entry : entry'[e] = entry[e]
    BY DEF RequestInv, RequestType
  <1>2. RequestType' /\ ReadInv' /\ SendInv' /\ EntryInv'
    BY <1>1, CallKeeps
  <1>3. \A r \in Rules : Unmarked(r)' \subseteq Unmarked(r)
    BY CallUnmarked
  <1>4. MarkInv'
    BY <1>3, SameMarks DEF RequestInv
  <1>5. QED BY <1>2, <1>4 DEF RequestInv

\* A request that does not enqueue yet has nothing to wait for.
LEMMA NothingAwaited ==
  ASSUME RequestInv, NEW c \in Clients, call[c] = NoCall \/ call[c].pc # "enqueue"
  PROVE  ~Awaits(c)
  BY DEF RequestInv, SendInv, Awaits

LEMMA SubmitRequest ==
  ASSUME RequestInv, WorkType, NEW c \in Clients, Submit(c)
  PROVE  RequestInv'
  <1>1. PICK g \in May[c], e \in 0 .. Len(entry) :
          /\ g.op = "read" <=> e # 0
          /\ call' = [call EXCEPT ![c] = [op |-> g.op, users |-> g.users, rule |-> g.rule,
                                          pc |-> "start", of |-> e]]
    BY DEF Submit
  <1> DEFINE new == [op |-> g.op, users |-> g.users, rule |-> g.rule, pc |-> "start", of |-> e]
  <1>2. g \in Goal
    BY JobsConstantsOK
  <1>3. new \in RequestRow
    BY <1>2 DEF Goal, RequestRow
  <1>4. call[c] = NoCall /\ UNCHANGED <<entry, rule, job, sending, broken, asked>>
    BY DEF Submit, tables
  <1>5. /\ new.pc = "start" /\ asked' \subseteq [entry: Nat, user: Users]
        /\ new.op = "read" => new.of \in DOMAIN entry
    <2>1. entry \in Seq(EntryRow) /\ asked \subseteq [entry: Nat, user: Users]
      BY DEF RequestInv, RequestType
    <2>2. QED BY <1>1, <1>4, <2>1
  <1>6. call' = [call EXCEPT ![c] = new]
    BY <1>1
  <1> HIDE DEF new
  <1>7. ~Awaits(c)
    BY <1>4, NothingAwaited
  <1>8. QED BY <1>3, <1>4, <1>5, <1>6, <1>7, CallMoves

\* Rows are stored and their jobs are asked for; an execution asks for the
\* job of its rule.
LEMMA SendsRequest ==
  ASSUME RequestInv, WorkType, faults \in 0 .. MaxFaults, NEW c \in Clients, call[c] # NoCall, call[c].pc = "start",
         NEW rows \in Seq(EntryRow), \A i \in 1 .. Len(rows) : ~rows[i].read,
         NEW refs, refs \subseteq Rules \cup (Len(entry) + 1 .. Len(entry) + Len(rows)),
         \A i \in 1 .. Len(rows) : rows[i].kind # "report" => Len(entry) + i \in refs,
         call[c].op = "execute" => refs = {call[c].rule},
         entry' = entry \o rows, Send(c, refs), UNCHANGED <<rule, job, broken, asked>>
  PROVE  RequestInv'
  <1> DEFINE n == Len(entry)
             new == [call[c] EXCEPT !.pc = "enqueue"]
             Insert(x) == [of |-> x, call |-> c, awaited |-> TRUE, after |-> faults]
  <1>1. /\ n \in Nat /\ entry \in Seq(EntryRow) /\ entry' \in Seq(EntryRow)
        /\ Len(entry') = n + Len(rows) /\ Len(rows) \in Nat
        /\ \A e \in 1 .. n : entry'[e] = entry[e]
        /\ \A i \in 1 .. Len(rows) : entry'[n + i] = rows[i]
    BY DEF RequestInv, RequestType
  <1>2. call[c] \in RequestRow
    BY RequestTyped DEF RequestInv
  <1>3. /\ new \in RequestRow /\ new.pc = "enqueue" /\ new.op = call[c].op
        /\ new.rule = call[c].rule /\ new.of = call[c].of
    BY <1>2 DEF RequestRow
  <1>4. call' = [call EXCEPT ![c] = new] /\ sending' = sending \cup {Insert(x) : x \in refs}
    BY DEF Send
  <1> HIDE DEF new
  <1>5. call'[c] = new /\ \A d \in Clients : d # c => call'[d] = call[d]
    BY <1>4 DEF RequestInv, RequestType
  <1>6. ~Awaits(c)
    BY NothingAwaited
  <1>7. \A s \in sending : s.of \in (1 .. n) \cup Rules /\ s.call \in Clients /\ s.awaited \in BOOLEAN
    BY DEF RequestInv, RequestType
  <1>8. refs \subseteq (1 .. Len(entry')) \cup Rules
    BY <1>1
  <1>9. RequestType'
    <2>1. \A x \in refs : Insert(x) \in [of: (1 .. Len(entry')) \cup Rules, call: Clients, awaited: BOOLEAN, after: 0 .. MaxFaults]
      BY <1>8
    <2>2. sending \subseteq [of: (1 .. Len(entry')) \cup Rules, call: Clients, awaited: BOOLEAN, after: 0 .. MaxFaults]
      BY <1>1 DEF RequestInv, RequestType
    <2>3. sending' \subseteq [of: (1 .. Len(entry')) \cup Rules, call: Clients, awaited: BOOLEAN, after: 0 .. MaxFaults]
      BY <1>4, <2>1, <2>2
    <2>4. RequestRow \subseteq RequestRow'
      BY <1>1 DEF RequestRow
    <2>5. call' \in [Clients -> {NoCall} \cup RequestRow']
      BY <1>3, <1>4, <2>4 DEF RequestInv, RequestType
    <2>6. QED BY <1>1, <2>3, <2>5 DEF RequestInv, RequestType
  <1>10. ReadInv'
    <2>1. ASSUME NEW e \in DOMAIN entry', entry'[e].read
          PROVE  [entry |-> e, user |-> entry'[e].user] \in asked
      <3>1. CASE e \in 1 .. n
        BY <1>1, <2>1, <3>1 DEF RequestInv, ReadInv, ReadByOwner
      <3>2. CASE e \notin 1 .. n
        <4>1. e - n \in 1 .. Len(rows) /\ e = n + (e - n)
          BY <1>1, <2>1, <3>2
        <4>2. QED BY <1>1, <2>1, <4>1
      <3>3. QED BY <3>1, <3>2
    <2>2. ASSUME NEW d \in Clients, call'[d].op = "read"
          PROVE  /\ call'[d].of \in DOMAIN entry'
                 /\ call'[d].pc = "update" =>
                      [entry |-> call'[d].of, user |-> entry'[call'[d].of].user] \in asked
      <3>1. /\ call[d].op = "read" /\ call'[d].of = call[d].of
            /\ call'[d].pc = "update" => call'[d] = call[d]
        BY <1>3, <1>5, <2>2
      <3>2. /\ call[d].of \in DOMAIN entry
            /\ call[d].pc = "update" => [entry |-> call[d].of, user |-> entry[call[d].of].user] \in asked
        BY <2>2, <3>1 DEF RequestInv, ReadInv
      <3>3. entry'[call[d].of] = entry[call[d].of] /\ call[d].of \in DOMAIN entry'
        BY <1>1, <3>2
      <3>4. QED BY <3>1, <3>2, <3>3
    <2>3. QED BY <2>1, <2>2 DEF ReadInv, ReadByOwner, Is
  <1>11. SendInv'
    <2>1. ASSUME NEW s \in sending', s.awaited
          PROVE  /\ call'[s.call] # NoCall /\ call'[s.call].pc = "enqueue"
                 /\ call'[s.call].op = "execute" => s.of = call'[s.call].rule
      <3>1. CASE s \in sending
        <4>1. s.call # c /\ s.call \in Clients
          BY <1>6, <1>7, <2>1, <3>1 DEF Awaits
        <4>2. QED BY <1>5, <2>1, <3>1, <4>1 DEF RequestInv, SendInv
      <3>2. CASE s \notin sending
        <4>1. PICK x \in refs : s = Insert(x)
          BY <1>4, <2>1, <3>2
        <4>2. s.call = c /\ s.of \in refs
          BY <4>1
        <4>3. new # NoCall
          BY <1>3 DEF NoCall, RequestRow, Operations
        <4>4. QED BY <1>3, <1>5, <4>2, <4>3
      <3>3. QED BY <3>1, <3>2
    <2>2. QED BY <2>1 DEF SendInv
  <1>12. EntryInv'
    <2>1. \A x : JobsOf(x)' = JobsOf(x)
      BY DEF JobsOf
    <2>2. ASSUME NEW e \in DOMAIN entry', e \notin 1 .. n
          PROVE  /\ JobsOf(e) = {}
                 /\ entry'[e].kind # "report" => e \in refs
                 /\ \A s \in sending : s.of # e
      <3>1. e - n \in 1 .. Len(rows) /\ e = n + (e - n) /\ e \in Nat /\ e \notin Rules
        BY <1>1, <2>2, JobsConstantsOK
      <3>2. QED BY <1>1, <1>7, <2>2, <3>1 DEF JobsOf, RequestInv, EntryInv, OneJobEach
    <2>3. OneJobEach'
      <3>1. ASSUME NEW e \in DOMAIN entry'
            PROVE  /\ \A i, j \in JobsOf(e) : i = j
                   /\ entry'[e].kind # "report" =>
                        JobsOf(e) # {} \/ e \in broken \/ \E s \in sending' : s.of = e
        <4>1. CASE e \in 1 .. n
          <5>1. e \in DOMAIN entry /\ entry'[e] = entry[e] /\ sending \subseteq sending'
            BY <1>1, <1>4, <4>1
          <5>2. /\ \A i, j \in JobsOf(e) : i = j
                /\ entry[e].kind # "report" =>
                     JobsOf(e) # {} \/ e \in broken \/ \E s \in sending : s.of = e
            BY <5>1 DEF RequestInv, EntryInv, OneJobEach
          <5>3. QED BY <5>1, <5>2
        <4>2. CASE e \notin 1 .. n
          <5>1. ASSUME e \in refs PROVE \E s \in sending' : s.of = e
            <6>1. Insert(e) \in sending' /\ Insert(e).of = e
              BY <1>4, <5>1
            <6>2. QED BY <6>1
          <5>2. QED BY <2>2, <3>1, <4>2, <5>1
        <4>3. QED BY <4>1, <4>2
      <3>2. \A j \in DOMAIN job : job[j].of \in DOMAIN entry' \cup Rules
        BY <1>1 DEF RequestInv, EntryInv, OneJobEach
      <3>3. QED BY <2>1, <3>1, <3>2 DEF OneJobEach
    <2>4. ASSUME NEW s \in sending', s.of \in DOMAIN entry'
          PROVE  JobsOf(s.of) = {} /\ \A t \in sending' : t.of = s.of => t = s
      <3>1. CASE s.of \in 1 .. n
        <4>1. \A x \in refs : x \notin 1 .. n
          BY <1>1, JobsConstantsOK
        <4>2. \A t \in sending' : t.of \in 1 .. n => t \in sending
          BY <1>4, <4>1
        <4>3. s \in sending
          BY <3>1, <4>2
        <4>4. s.of \in DOMAIN entry
          BY <1>1, <3>1
        <4>5. JobsOf(s.of) = {} /\ \A t \in sending : t.of = s.of => t = s
          BY <4>3, <4>4 DEF RequestInv, EntryInv
        <4>6. QED BY <3>1, <4>2, <4>5
      <3>2. CASE s.of \notin 1 .. n
        <4>1. JobsOf(s.of) = {} /\ \A t \in sending : t.of # s.of
          BY <2>2, <2>4, <3>2
        <4>2. \A t \in sending' : t.of = s.of => t = Insert(s.of)
          BY <1>4, <4>1
        <4>3. QED BY <4>1, <4>2
      <3>3. QED BY <3>1, <3>2
    <2>5. QED BY <2>1, <2>3, <2>4 DEF EntryInv
  <1>13. MarkInv'
    <2>1. ASSUME NEW r \in Rules, NEW d \in Clients, d \in Unmarked(r)' PROVE d \in Unmarked(r)
      <3>1. CASE d = c
        <4>1. refs = {call[c].rule}
          BY <1>3, <1>5, <2>1, <3>1 DEF Unmarked, Is
        <4>2. Insert(call[c].rule) \in sending'
          BY <1>4, <4>1
        <4>3. Awaits(c)'
          BY <4>2 DEF Awaits
        <4>4. QED BY <2>1, <3>1, <4>3 DEF Unmarked
      <3>2. CASE d # c
        BY <1>4, <1>5, <2>1, <3>2 DEF Unmarked, Is, Awaits
      <3>3. QED BY <3>1, <3>2
    <2>2. \A r \in Rules : Unmarked(r)' \subseteq Unmarked(r)
      BY <2>1 DEF Unmarked
    <2>3. QED BY <2>2, SameMarks DEF RequestInv
  <1>14. QED BY <1>9, <1>10, <1>11, <1>12, <1>13 DEF RequestInv

LEMMA StoreRequest ==
  ASSUME RequestInv, WorkType, faults \in 0 .. MaxFaults, NEW c \in Clients, call[c] # NoCall, call[c].pc = "start",
         call[c].op # "execute",
         NEW rows \in Seq(EntryRow), \A i \in 1 .. Len(rows) : ~rows[i].read, Store(c, rows)
  PROVE  RequestInv'
  <1> DEFINE n == Len(entry)
             refs == {i \in n + 1 .. n + Len(rows) : NeedsJob(rows[i - n])}
  <1>1. /\ entry' = entry \o rows /\ UNCHANGED <<rule, job, broken, asked>>
        /\ Send(c, refs)
    BY DEF Store
  <1>2. refs \subseteq Rules \cup (n + 1 .. n + Len(rows))
    OBVIOUS
  <1>3. ASSUME NEW i \in 1 .. Len(rows), rows[i].kind # "report" PROVE n + i \in refs
    <2>1. rows[i] \in EntryRow /\ n \in Nat /\ Len(rows) \in Nat /\ (n + i) - n = i
          /\ n + i \in n + 1 .. n + Len(rows)
      BY DEF RequestInv, RequestType
    <2>2. NeedsJob(rows[i])
      BY <1>3, <2>1 DEF NeedsJob, EntryRow, Kinds
    <2>3. QED BY <2>1, <2>2
  <1> HIDE DEF refs
  <1>4. QED BY <1>1, <1>2, <1>3, SendsRequest

LEMMA DispatchRequest ==
  ASSUME RequestInv, WorkType, faults \in 0 .. MaxFaults, NEW c \in Clients, Dispatch(c)
  PROVE  RequestInv'
  <1> DEFINE users == SetToSeq(call[c].users)
             rows == [i \in 1 .. Len(users) |-> Row("note", users[i])]
  <1>1. call[c] # NoCall /\ call[c].pc = "start" /\ call[c].op # "execute" /\ Store(c, rows)
    BY DEF Dispatch, Is, NoCall
  <1>2. call[c].users \subseteq Users /\ IsFiniteSet(call[c].users)
    BY <1>1, RequestTyped DEF RequestInv
  <1>3. users \in Seq(Users)
    <2>1. users \in Seq(call[c].users)
      BY <1>2, SeqOfSet
    <2>2. QED BY <1>2, <2>1
  <1> HIDE DEF users
  <1>4. \A i \in 1 .. Len(users) : Row("note", users[i]) \in EntryRow /\ ~Row("note", users[i]).read
    BY <1>3 DEF Row, EntryRow, Kinds
  <1>5. rows \in Seq(EntryRow) /\ \A i \in 1 .. Len(rows) : ~rows[i].read
    BY <1>3, <1>4
  <1> HIDE DEF rows
  <1>6. QED BY <1>1, <1>5, StoreRequest

LEMMA GenerateRequest ==
  ASSUME RequestInv, WorkType, faults \in 0 .. MaxFaults, NEW c \in Clients, Generate(c)
  PROVE  RequestInv'
  <1>1. PICK kind \in {"report", "export"}, u \in call[c].users :
          Is(c, kind, "start") /\ Store(c, <<Row(kind, u)>>)
    BY DEF Generate
  <1>2. call[c] # NoCall /\ call[c].pc = "start" /\ call[c].op # "execute"
    BY <1>1 DEF Is, NoCall
  <1>3. u \in Users
    BY <1>2, RequestTyped DEF RequestInv
  <1>4. Row(kind, u) \in EntryRow /\ ~Row(kind, u).read
    BY <1>3 DEF Row, EntryRow, Kinds
  <1>5. <<Row(kind, u)>> \in Seq(EntryRow) /\ \A i \in 1 .. Len(<<Row(kind, u)>>) : ~<<Row(kind, u)>>[i].read
    BY <1>4
  <1>6. QED BY <1>1, <1>2, <1>5, StoreRequest

LEMMA SendRulesRequest ==
  ASSUME RequestInv, WorkType, faults \in 0 .. MaxFaults, NEW c \in Clients, call[c] # NoCall, call[c].pc = "start",
         NEW refs, refs \subseteq Rules, call[c].op = "execute" => refs = {call[c].rule},
         Send(c, refs), UNCHANGED <<tables, broken, asked>>
  PROVE  RequestInv'
  <1> DEFINE rows == << >>
  <1>1. entry \in Seq(EntryRow)
    BY DEF RequestInv, RequestType
  <1>2. entry \o rows = entry
    BY <1>1, ConcatEmptySeq
  <1>3. rows \in Seq(EntryRow) /\ 1 .. Len(rows) = {}
    OBVIOUS
  <1> HIDE DEF rows
  <1>4. QED BY <1>2, <1>3, SendsRequest DEF tables

LEMMA ExecuteRequest ==
  ASSUME RequestInv, WorkType, faults \in 0 .. MaxFaults, NEW c \in Clients, Execute(c)
  PROVE  RequestInv'
  <1>1. call[c] # NoCall /\ call[c].pc = "start" /\ call[c].op = "execute"
        /\ UNCHANGED <<tables, broken, asked>>
    BY DEF Execute, Is, NoCall
  <1>2. call[c].rule \in Rules
    BY <1>1, RequestTyped DEF RequestInv
  <1>3. CASE rule[call[c].rule].exists
    <2>1. Send(c, {call[c].rule})
      BY <1>3 DEF Execute
    <2>2. QED BY <1>1, <1>2, <2>1, SendRulesRequest
  <1>4. CASE ~rule[call[c].rule].exists
    <2>1. End(c) /\ UNCHANGED sending
      BY <1>4 DEF Execute
    <2>2. asked' \subseteq [entry: Nat, user: Users]
      BY <1>1 DEF RequestInv, RequestType
    <2>3. ~Awaits(c)
      BY <1>1, NothingAwaited
    <2>4. NoCall.op # "read"
      BY DEF NoCall
    <2>5. QED BY <1>1, <2>1, <2>2, <2>3, <2>4, CallMoves DEF End, tables
  <1>5. QED BY <1>3, <1>4

LEMMA ExecuteScheduledRequest ==
  ASSUME RequestInv, WorkType, faults \in 0 .. MaxFaults, NEW c \in Clients, ExecuteScheduled(c)
  PROVE  RequestInv'
  <1> DEFINE refs == {r \in Due : rule[r].exists}
  <1>1. /\ call[c] # NoCall /\ call[c].pc = "start" /\ call[c].op # "execute"
        /\ Send(c, refs) /\ UNCHANGED <<tables, broken, asked>>
    BY DEF ExecuteScheduled, Is, NoCall
  <1>2. refs \subseteq Rules
    BY JobsConstantsOK
  <1>3. QED BY <1>1, <1>2, SendRulesRequest

LEMMA EnqueueRequest ==
  ASSUME RequestInv, WorkType, NEW s \in sending, Enqueue(s)
  PROVE  RequestInv'
  <1> DEFINE n == Len(job) + 1
             new == [of |-> s.of, queue |-> QueueOf(s.of), status |-> "QUEUED", attempts |-> 0]
  <1>1. /\ job' = Append(job, new) /\ sending' = sending \ {s}
        /\ UNCHANGED <<entry, rule, call, broken, asked>>
    BY DEF Enqueue, Sent
  <1>2. new.of = s.of
    OBVIOUS
  <1> HIDE DEF new
  <1>3. /\ Len(job) \in Nat /\ DOMAIN job' = (1 .. Len(job)) \cup {n} /\ job'[n].of = s.of
        /\ DOMAIN job = 1 .. Len(job) /\ n \notin DOMAIN job
        /\ \A j \in DOMAIN job : job'[j] = job[j]
    BY <1>1, <1>2 DEF WorkType
  <1>4. /\ s.of \in DOMAIN entry \cup Rules /\ s.call \in Clients /\ s.awaited \in BOOLEAN
    BY DEF RequestInv, RequestType
  <1>5. ASSUME NEW x
        PROVE  /\ x = s.of => JobsOf(x)' = JobsOf(x) \cup {n}
               /\ x # s.of => JobsOf(x)' = JobsOf(x)
               /\ n \notin JobsOf(x)
    BY <1>3 DEF JobsOf
  <1>6. RequestType' /\ ReadInv'
    BY <1>1 DEF RequestInv, RequestType, RequestRow, ReadInv, ReadByOwner, Is
  <1>7. SendInv'
    BY <1>1 DEF RequestInv, SendInv
  <1>8. EntryInv'
    <2>1. ASSUME NEW e \in DOMAIN entry
          PROVE  /\ \A i, j \in JobsOf(e)' : i = j
                 /\ entry[e].kind # "report" =>
                      JobsOf(e)' # {} \/ e \in broken \/ \E t \in sending' : t.of = e
      <3>1. CASE e = s.of
        <4>1. JobsOf(e) = {}
          BY <2>1, <3>1 DEF RequestInv, EntryInv
        <4>2. JobsOf(e)' = {n}
          BY <1>5, <3>1, <4>1
        <4>3. QED BY <4>2
      <3>2. CASE e # s.of
        <4>1. JobsOf(e)' = JobsOf(e)
          BY <1>5, <3>2
        <4>2. QED BY <1>1, <2>1, <3>2, <4>1 DEF RequestInv, EntryInv, OneJobEach
      <3>3. QED BY <3>1, <3>2
    <2>2. \A j \in DOMAIN job' : job'[j].of \in DOMAIN entry \cup Rules
      BY <1>3, <1>4 DEF RequestInv, EntryInv, OneJobEach
    <2>3. OneJobEach'
      BY <1>1, <2>1, <2>2 DEF OneJobEach
    <2>4. ASSUME NEW t \in sending', t.of \in DOMAIN entry
          PROVE  JobsOf(t.of)' = {} /\ \A u \in sending' : u.of = t.of => u = t
      <3>1. /\ t \in sending /\ t # s
        BY <1>1
      <3>2. JobsOf(t.of) = {} /\ \A u \in sending : u.of = t.of => u = t
        BY <2>4, <3>1 DEF RequestInv, EntryInv
      <3>3. t.of # s.of
        BY <3>1, <3>2
      <3>4. QED BY <1>1, <1>5, <3>2, <3>3
    <2>5. \A t \in sending' : t.of \in DOMAIN entry' =>
            JobsOf(t.of)' = {} /\ \A u \in sending' : u.of = t.of => u = t
      BY <1>1, <2>4
    <2>6. QED BY <2>3, <2>5 DEF EntryInv, JobsOf
  <1>9. MarkInv'
    <2>1. ASSUME NEW r \in Rules
          PROVE  rule[r].runs + Cardinality(Unmarked(r)') <= Cardinality(JobsOf(r)')
      <3>1. /\ IsFiniteSet(Unmarked(r)) /\ Cardinality(Unmarked(r)) \in Nat
            /\ IsFiniteSet(JobsOf(r)) /\ Cardinality(JobsOf(r)) \in Nat
        BY UnmarkedFinite, JobsOfFinite
      <3>2. rule[r].runs \in Nat /\ rule[r].runs + Cardinality(Unmarked(r)) <= Cardinality(JobsOf(r))
        BY DEF RequestInv, RequestType, MarkInv
      <3>3. ASSUME NEW d \in Clients, d \in Unmarked(r)', d \notin Unmarked(r)
            PROVE  d = s.call /\ s.of = r
        <4>1. Is(d, "execute", "enqueue") /\ call[d].rule = r /\ ~Awaits(d)' /\ Awaits(d)
          BY <1>1, <3>3 DEF Unmarked, Is
        <4>2. s.call = d /\ s.awaited
          BY <1>1, <4>1 DEF Awaits
        <4>3. QED BY <4>1, <4>2 DEF RequestInv, SendInv, Is
      <3>4. CASE s.of # r
        <4>1. Unmarked(r)' \subseteq Unmarked(r)
          BY <3>3, <3>4 DEF Unmarked
        <4>2. Cardinality(Unmarked(r)') <= Cardinality(Unmarked(r)) /\ Cardinality(Unmarked(r)') \in Nat
          BY <3>1, <4>1, FS_Subset, FS_CardinalityType
        <4>3. JobsOf(r)' = JobsOf(r)
          BY <1>5, <3>4
        <4>4. QED BY <3>1, <3>2, <4>2, <4>3
      <3>5. CASE s.of = r
        <4> DEFINE U == Unmarked(r) \cup {s.call}
        <4>1. Unmarked(r)' \subseteq U
          BY <3>3 DEF Unmarked
        <4>2. IsFiniteSet(U) /\ Cardinality(U) =
                IF s.call \in Unmarked(r) THEN Cardinality(Unmarked(r)) ELSE Cardinality(Unmarked(r)) + 1
          BY <3>1, FS_AddElement
        <4> HIDE DEF U
        <4>3. Cardinality(Unmarked(r)') <= Cardinality(U) /\ Cardinality(Unmarked(r)') \in Nat
          BY <4>1, <4>2, FS_Subset, FS_CardinalityType
        <4>4. Cardinality(JobsOf(r) \cup {n}) = Cardinality(JobsOf(r)) + 1
          BY <1>5, <3>1, FS_AddElement
        <4>5. JobsOf(r)' = JobsOf(r) \cup {n}
          BY <1>5, <3>5
        <4>6. QED BY <3>1, <3>2, <4>2, <4>3, <4>4, <4>5
      <3>6. QED BY <3>4, <3>5
    <2>2. QED BY <1>1, <2>1 DEF MarkInv
  <1>10. QED BY <1>6, <1>7, <1>8, <1>9 DEF RequestInv

LEMMA MarkRunRequest ==
  ASSUME RequestInv, WorkType, NEW c \in Clients, MarkRun(c)
  PROVE  RequestInv'
  <1> DEFINE mine == call[c].rule
  <1>1. /\ call[c] # NoCall /\ Is(c, "execute", "enqueue") /\ ~Awaits(c)
        /\ rule' = [rule EXCEPT ![mine].runs = @ + 1]
        /\ call' = [call EXCEPT ![c] = NoCall]
        /\ UNCHANGED <<entry, job, sending, broken, asked>>
    BY DEF MarkRun, MayMark, Is, End, NoCall
  <1>2. mine \in Rules
    BY <1>1, RequestTyped DEF RequestInv
  <1>3. rule \in [Rules -> [exists: BOOLEAN, runs: Nat]]
    BY DEF RequestInv, RequestType
  <1>4. /\ rule' \in [Rules -> [exists: BOOLEAN, runs: Nat]]
        /\ rule'[mine].runs = rule[mine].runs + 1
        /\ \A r \in Rules : r # mine => rule'[r] = rule[r]
    BY <1>1, <1>2, <1>3
  <1>5. RequestType' /\ ReadInv' /\ SendInv' /\ EntryInv'
    <2>1. NoCall.op # "read"
      BY DEF NoCall
    <2>2. entry \in Seq(EntryRow) /\ asked \subseteq [entry: Nat, user: Users]
      BY DEF RequestInv, RequestType
    <2>3. QED BY <1>1, <1>4, <2>1, <2>2, CallKeeps
  <1>6. \A r \in Rules : Unmarked(r)' \subseteq Unmarked(r) \ {c}
    BY <1>1, CallUnmarked
  <1>7. MarkInv'
    <2>1. ASSUME NEW r \in Rules
          PROVE  rule'[r].runs + Cardinality(Unmarked(r)') <= Cardinality(JobsOf(r))
      <3>1. /\ IsFiniteSet(Unmarked(r)) /\ Cardinality(Unmarked(r)) \in Nat
            /\ Cardinality(JobsOf(r)) \in Nat
        BY UnmarkedFinite, JobsOfFinite
      <3>2. rule[r].runs \in Nat /\ rule[r].runs + Cardinality(Unmarked(r)) <= Cardinality(JobsOf(r))
        BY <1>3 DEF RequestInv, MarkInv
      <3>3. IsFiniteSet(Unmarked(r) \ {c}) /\ Cardinality(Unmarked(r) \ {c}) =
              IF c \in Unmarked(r) THEN Cardinality(Unmarked(r)) - 1 ELSE Cardinality(Unmarked(r))
        BY <3>1, FS_RemoveElement
      <3>4. Cardinality(Unmarked(r)') <= Cardinality(Unmarked(r) \ {c})
            /\ Cardinality(Unmarked(r)') \in Nat
        BY <1>6, <3>3, FS_Subset, FS_CardinalityType
      <3>5. r = mine => c \in Unmarked(r)
        BY <1>1 DEF Unmarked
      <3>6. rule'[r].runs = IF r = mine THEN rule[r].runs + 1 ELSE rule[r].runs
        BY <1>4
      <3>7. QED BY <3>1, <3>2, <3>3, <3>4, <3>5, <3>6
    <2>2. QED BY <1>1, <2>1 DEF MarkInv, JobsOf
  <1>8. QED BY <1>5, <1>7 DEF RequestInv

LEMMA FinishRequest ==
  ASSUME RequestInv, WorkType, NEW c \in Clients, Finish(c)
  PROVE  RequestInv'
  <1>1. /\ ~Awaits(c) /\ call' = [call EXCEPT ![c] = NoCall] /\ NoCall.op # "read"
        /\ UNCHANGED <<entry, rule, job, sending, broken, asked>>
    BY DEF Finish, End, NoCall, tables
  <1>2. asked' \subseteq [entry: Nat, user: Users]
    BY <1>1 DEF RequestInv, RequestType
  <1>3. QED BY <1>1, <1>2, CallMoves

LEMMA CreateRuleRequest ==
  ASSUME RequestInv, WorkType, NEW c \in Clients, CreateRule(c)
  PROVE  RequestInv'
  <1>1. /\ call[c] # NoCall /\ call[c].pc = "start"
        /\ rule' = [rule EXCEPT ![call[c].rule].exists = TRUE]
        /\ call' = [call EXCEPT ![c] = NoCall] /\ NoCall.op # "read"
        /\ UNCHANGED <<entry, job, sending, broken, asked>>
    BY DEF CreateRule, Is, End, NoCall
  <1>2. call[c].rule \in Rules
    BY <1>1, RequestTyped DEF RequestInv
  <1>3. /\ entry \in Seq(EntryRow) /\ asked \subseteq [entry: Nat, user: Users]
        /\ rule \in [Rules -> [exists: BOOLEAN, runs: Nat]]
    BY DEF RequestInv, RequestType
  <1>4. /\ rule' \in [Rules -> [exists: BOOLEAN, runs: Nat]]
        /\ \A r \in Rules : rule'[r].runs = rule[r].runs
    BY <1>1, <1>2, <1>3
  <1>5. ~Awaits(c)
    BY <1>1, NothingAwaited
  <1>6. RequestType' /\ ReadInv' /\ SendInv' /\ EntryInv'
    BY <1>1, <1>3, <1>4, <1>5, CallKeeps
  <1>7. \A r \in Rules : Unmarked(r)' \subseteq Unmarked(r)
    BY <1>1, CallUnmarked
  <1>8. MarkInv'
    BY <1>1, <1>4, <1>7, SameMarks DEF RequestInv
  <1>9. QED BY <1>6, <1>8 DEF RequestInv

LEMMA FindNotificationRequest ==
  ASSUME RequestInv, WorkType, NEW c \in Clients, FindNotification(c)
  PROVE  RequestInv'
  <1>1. /\ call[c] # NoCall /\ call[c].pc = "start" /\ call[c].op = "read"
        /\ UNCHANGED <<entry, rule, job, sending, broken>>
        /\ Asks(c, {call[c].of})
    BY DEF FindNotification, Is, NoCall, tables
  <1>2. /\ call[c] \in RequestRow /\ call[c].users \subseteq Users
        /\ call[c].of \in 0 .. Len(entry)
    BY <1>1, RequestTyped DEF RequestInv
  <1>3. entry \in Seq(EntryRow) /\ asked \subseteq [entry: Nat, user: Users]
    BY DEF RequestInv, RequestType
  <1> DEFINE Row_(e, u) == [entry |-> e, user |-> u]
  <1>4. asked' = asked \cup {Row_(e, u) : e \in {call[c].of}, u \in call[c].users}
    BY <1>1 DEF Asks
  <1>5. asked \subseteq asked' /\ asked' \subseteq [entry: Nat, user: Users]
    BY <1>2, <1>3, <1>4
  <1>6. ~Awaits(c)
    BY <1>1, NothingAwaited
  <1>7. CASE IsNoteOf(call[c].of, call[c].users) /\ call[c].of \in DOMAIN entry
    <2> DEFINE new == [call[c] EXCEPT !.pc = "update"]
    <2>1. call' = [call EXCEPT ![c] = new]
      BY <1>7 DEF FindNotification
    <2>2. new \in RequestRow /\ new.pc = "update" /\ new.of = call[c].of
      BY <1>2 DEF RequestRow
    <2> HIDE DEF new
    <2>3. Row_(call[c].of, entry[call[c].of].user) \in asked'
      BY <1>4, <1>7 DEF IsNoteOf
    <2>4. QED BY <1>1, <1>5, <1>6, <1>7, <2>1, <2>2, <2>3, CallMoves
  <1>8. CASE ~IsNoteOf(call[c].of, call[c].users)
    <2>1. call' = [call EXCEPT ![c] = NoCall] /\ NoCall.op # "read"
      BY <1>8 DEF FindNotification, End, NoCall
    <2>2. QED BY <1>1, <1>5, <1>6, <2>1, CallMoves
  <1>9. call[c].of \in DOMAIN entry
    BY <1>1 DEF RequestInv, ReadInv
  <1>10. QED BY <1>7, <1>8, <1>9

\* Notifications are marked as read, and the request is over.
LEMMA MarksRequest ==
  ASSUME RequestInv, WorkType, NEW c \in Clients, call[c] # NoCall, call[c].pc # "enqueue",
         NEW es, Mark(es), End(c), UNCHANGED <<rule, job, sending, broken>>,
         asked \subseteq asked', asked' \subseteq [entry: Nat, user: Users],
         \A e \in DOMAIN entry : e \in es => [entry |-> e, user |-> entry[e].user] \in asked'
  PROVE  RequestInv'
  <1> DEFINE Marked(e) == [entry[e] EXCEPT !.read = @ \/ e \in es]
  <1>1. entry \in Seq(EntryRow) /\ rule \in [Rules -> [exists: BOOLEAN, runs: Nat]]
    BY DEF RequestInv, RequestType
  <1>2. ASSUME NEW e \in DOMAIN entry
        PROVE  /\ Marked(e) \in EntryRow
               /\ Marked(e).kind = entry[e].kind /\ Marked(e).user = entry[e].user
               /\ Marked(e).read = (entry[e].read \/ e \in es)
    <2>1. entry[e] \in EntryRow
      BY <1>1
    <2>2. QED BY <2>1 DEF EntryRow
  <1>3. entry' = [e \in DOMAIN entry |-> Marked(e)]
    BY DEF Mark
  <1> HIDE DEF Marked
  <1>4. DOMAIN entry = 1 .. Len(entry) /\ Len(entry) \in Nat
    BY <1>1
  <1>5. entry' \in Seq(EntryRow) /\ DOMAIN entry' = DOMAIN entry /\ Len(entry') = Len(entry)
    BY <1>2, <1>3, <1>4
  <1>6. \A e \in DOMAIN entry : entry'[e] = Marked(e)
    BY <1>3
  <1>7. ASSUME NEW e \in DOMAIN entry, entry'[e].read
        PROVE  entry[e].read \/ [entry |-> e, user |-> entry[e].user] \in asked'
    BY <1>2, <1>6, <1>7
  <1>8. call' = [call EXCEPT ![c] = NoCall] /\ NoCall.op # "read"
    BY DEF End, NoCall
  <1>9. ~Awaits(c)
    BY NothingAwaited
  <1>10. RequestType' /\ ReadInv' /\ SendInv' /\ EntryInv'
    BY <1>1, <1>2, <1>5, <1>6, <1>7, <1>8, <1>9, CallKeeps
  <1>11. \A r \in Rules : Unmarked(r)' \subseteq Unmarked(r)
    BY <1>8, CallUnmarked
  <1>12. MarkInv'
    BY <1>11, SameMarks DEF RequestInv
  <1>13. QED BY <1>10, <1>12 DEF RequestInv

LEMMA MarkReadRequest ==
  ASSUME RequestInv, WorkType, NEW c \in Clients, MarkRead(c)
  PROVE  RequestInv'
  <1>1. /\ call[c] # NoCall /\ call[c].pc = "update" /\ call[c].op = "read"
        /\ Mark({call[c].of}) /\ End(c) /\ UNCHANGED <<rule, job, sending, broken, asked>>
    BY DEF MarkRead, Is, NoCall
  <1>2. /\ [entry |-> call[c].of, user |-> entry[call[c].of].user] \in asked
        /\ asked \subseteq [entry: Nat, user: Users]
    BY <1>1 DEF RequestInv, ReadInv, RequestType
  <1>3. QED BY <1>1, <1>2, MarksRequest

LEMMA BulkMarkReadRequest ==
  ASSUME RequestInv, WorkType, NEW c \in Clients, BulkMarkRead(c)
  PROVE  RequestInv'
  <1> DEFINE us == call[c].users
             Ask(e, u) == [entry |-> e, user |-> u]
  <1>1. /\ call[c] # NoCall /\ call[c].pc = "start" /\ call[c].op = "readAll"
        /\ End(c) /\ UNCHANGED <<rule, job, sending, broken>>
    BY DEF BulkMarkRead, Is, NoCall
  <1>0. PICK ids \in SUBSET DOMAIN entry :
          Mark(AmongThem(ids, us)) /\ asked' = asked \cup {Ask(e, u) : e \in ids, u \in us}
    BY DEF BulkMarkRead, Asks
  <1>2. us \subseteq Users
    BY <1>1, RequestTyped DEF RequestInv
  <1>3. DOMAIN entry \subseteq Nat /\ asked \subseteq [entry: Nat, user: Users]
    BY DEF RequestInv, RequestType
  <1>4. asked \subseteq asked' /\ asked' \subseteq [entry: Nat, user: Users]
    BY <1>0, <1>2, <1>3
  <1>5. ASSUME NEW e \in DOMAIN entry, e \in AmongThem(ids, us) PROVE Ask(e, entry[e].user) \in asked'
    BY <1>0, <1>5 DEF AmongThem, IsNoteOf
  <1>6. QED BY <1>0, <1>1, <1>4, <1>5, MarksRequest

\* Inserts get lost, or are no longer awaited.
LEMMA LosesRequest ==
  ASSUME RequestInv, WorkType, UNCHANGED <<tables, asked>>,
         call' \in [Clients -> {NoCall} \cup RequestRow],
         \A c \in Clients : call'[c] = call[c] \/ call'[c] = NoCall,
         \A t \in sending' : t \in sending \/ \E s \in sending : t = Unattended(s),
         \A t \in sending' : t.awaited => t \in sending /\ call'[t.call] = call[t.call],
         \A t, u \in sending' : t.of \in DOMAIN entry /\ t.of = u.of => t = u,
         broken \subseteq broken', broken' \subseteq Refs,
         \A s \in sending : s.of \in broken' \/ \E t \in sending' : t.of = s.of,
         \A c \in Clients : call'[c] = call[c] =>
           \A s \in sending : s.call = c /\ s.awaited => s \in sending'
  PROVE  RequestInv'
  <1>1. UNCHANGED <<entry, rule, job, asked>>
    BY DEF tables
  <1>2. \A s \in sending : s \in [of: (1 .. Len(entry)) \cup Rules, call: Clients, awaited: BOOLEAN, after: 0 .. MaxFaults]
    BY DEF RequestInv, RequestType
  <1>3. \A s \in sending : /\ Unattended(s) \in [of: (1 .. Len(entry)) \cup Rules, call: Clients, awaited: BOOLEAN, after: 0 .. MaxFaults]
                           /\ Unattended(s).of = s.of
    BY <1>2 DEF Unattended
  <1>4. sending' \subseteq [of: (1 .. Len(entry)) \cup Rules, call: Clients, awaited: BOOLEAN, after: 0 .. MaxFaults]
    BY <1>2, <1>3
  <1>5. RequestType'
    BY <1>1, <1>4 DEF RequestInv, RequestType, RequestRow
  <1>6. ReadInv'
    <2>1. NoCall.op # "read"
      BY DEF NoCall
    <2>2. QED BY <1>1, <2>1 DEF RequestInv, ReadInv, ReadByOwner
  <1>7. SendInv'
    BY DEF RequestInv, SendInv
  <1>8. EntryInv'
    <2>1. \A x : JobsOf(x)' = JobsOf(x)
      BY <1>1 DEF JobsOf
    <2>2. \A t \in sending' : \E s \in sending : s.of = t.of
      BY <1>3
    <2>3. OneJobEach'
      BY <1>1, <2>1 DEF RequestInv, EntryInv, OneJobEach
    <2>4. ASSUME NEW t \in sending', t.of \in DOMAIN entry PROVE JobsOf(t.of) = {}
      BY <2>2, <2>4 DEF RequestInv, EntryInv
    <2>5. QED BY <1>1, <2>1, <2>3, <2>4 DEF EntryInv
  <1>9. MarkInv'
    <2>1. ASSUME NEW r \in Rules, NEW d \in Clients, d \in Unmarked(r)' PROVE d \in Unmarked(r)
      <3>1. NoCall.op # "execute"
        BY DEF NoCall
      <3>2. call'[d] = call[d] /\ Is(d, "execute", "enqueue") /\ call[d].rule = r
        BY <2>1, <3>1 DEF Unmarked, Is
      <3>3. ~Awaits(d)
        BY <2>1, <3>2 DEF Unmarked, Awaits
      <3>4. QED BY <3>2, <3>3 DEF Unmarked
    <2>2. \A r \in Rules : Unmarked(r)' \subseteq Unmarked(r)
      BY <2>1 DEF Unmarked
    <2>3. QED BY <1>1, <2>2, SameMarks DEF RequestInv
  <1>10. QED BY <1>5, <1>6, <1>7, <1>8, <1>9 DEF RequestInv

\* What an insert is about, is a row or a rule.
LEMMA SendingTyped ==
  ASSUME RequestInv, NEW s \in sending
  PROVE  /\ s.of \in Refs /\ s.call \in Clients /\ s.awaited \in BOOLEAN
         /\ s = [of |-> s.of, call |-> s.call, awaited |-> s.awaited, after |-> s.after]
  <1>1. s \in [of: (1 .. Len(entry)) \cup Rules, call: Clients, awaited: BOOLEAN, after: 0 .. MaxFaults]
    BY DEF RequestInv, RequestType
  <1>2. QED BY <1>1 DEF Refs

LEMMA EnqueueFailsRequest ==
  ASSUME RequestInv, WorkType, NEW s \in sending, EnqueueFails(s)
  PROVE  RequestInv'
  <1>1. broken' = broken \cup {s.of} /\ UNCHANGED <<tables, asked>>
    BY DEF EnqueueFails
  <1>2. broken \subseteq Refs /\ call \in [Clients -> {NoCall} \cup RequestRow]
    BY DEF RequestInv, RequestType
  <1>3. broken \subseteq broken' /\ broken' \subseteq Refs
    BY <1>1, <1>2, SendingTyped
  <1>4. \A t, u \in sending : t.of \in DOMAIN entry /\ t.of = u.of => t = u
    BY DEF RequestInv, EntryInv
  <1>5. CASE s.awaited
    <2> DEFINE Left(x) == IF x.call = s.call THEN Unattended(x) ELSE x
    <2>1. /\ sending' = {Left(x) : x \in sending \ {s}}
          /\ call' = [call EXCEPT ![s.call] = NoCall]
      BY <1>5 DEF EnqueueFails, End
    <2>2. \A x \in sending : /\ Left(x).of = x.of /\ Left(x).call = x.call
                             /\ Left(x) = x \/ Left(x) = Unattended(x)
                             /\ x.call = s.call => ~Left(x).awaited
                             /\ x.call # s.call => Left(x) = x
      BY SendingTyped DEF Unattended
    <2> HIDE DEF Left
    <2>3. \A c \in Clients : call'[c] = IF c = s.call THEN NoCall ELSE call[c]
      BY <1>2, <2>1
    <2>4. call[s.call] # NoCall /\ s.call \in Clients
      BY <1>5, SendingTyped DEF RequestInv, SendInv
    <2>5. call' \in [Clients -> {NoCall} \cup RequestRow]
      BY <1>2, <2>1
    <2>6. \A t \in sending' : t \in sending \/ \E x \in sending : t = Unattended(x)
      BY <2>1, <2>2
    <2>7. ASSUME NEW t \in sending', t.awaited PROVE t \in sending /\ call'[t.call] = call[t.call]
      <3>1. PICK x \in sending : t = Left(x)
        BY <2>1
      <3>2. x.call # s.call /\ t = x
        BY <2>2, <2>7, <3>1
      <3>3. QED BY <2>3, <3>2, SendingTyped
    <2>8. ASSUME NEW t \in sending', NEW u \in sending', t.of \in DOMAIN entry, t.of = u.of
          PROVE  t = u
      <3>1. PICK x \in sending, y \in sending : t = Left(x) /\ u = Left(y)
        BY <2>1
      <3>2. x = y
        BY <1>4, <2>2, <2>8, <3>1
      <3>3. QED BY <3>1, <3>2
    <2>9. ASSUME NEW x \in sending PROVE x.of \in broken' \/ \E t \in sending' : t.of = x.of
      <3>1. CASE x = s
        BY <1>1, <3>1
      <3>2. CASE x # s
        BY <2>1, <2>2, <3>2
      <3>3. QED BY <3>1, <3>2
    <2>10. ASSUME NEW c \in Clients, call'[c] = call[c], NEW x \in sending, x.call = c, x.awaited
           PROVE  x \in sending'
      <3>1. c # s.call
        BY <2>3, <2>4, <2>10
      <3>2. Left(x) = x /\ x # s
        BY <2>2, <2>10, <3>1
      <3>3. QED BY <2>1, <3>2
    <2>11. QED BY <1>1, <1>3, <2>3, <2>5, <2>6, <2>7, <2>8, <2>9, <2>10, LosesRequest
  <1>6. CASE ~s.awaited
    <2>1. sending' = sending \ {s} /\ call' = call
      BY <1>6 DEF EnqueueFails
    <2>2. \A x \in sending : x.of \in broken' \/ \E t \in sending' : t.of = x.of
      BY <1>1, <2>1
    <2>3. QED BY <1>1, <1>2, <1>3, <1>4, <1>6, <2>1, <2>2, LosesRequest
  <1>7. QED BY <1>5, <1>6

LEMMA CallDiesRequest ==
  ASSUME RequestInv, WorkType, NEW c \in Clients, CallDies(c)
  PROVE  RequestInv'
  <1>1. /\ call[c] # NoCall /\ call' = [call EXCEPT ![c] = NoCall]
        /\ sending' = {s \in sending : s.call # c}
        /\ broken' = broken \cup {s.of : s \in {y \in sending : y.call = c}}
        /\ UNCHANGED <<tables, asked>>
    BY DEF CallDies, End
  <1>2. broken \subseteq Refs /\ call \in [Clients -> {NoCall} \cup RequestRow]
    BY DEF RequestInv, RequestType
  <1>3. broken \subseteq broken' /\ broken' \subseteq Refs
    BY <1>1, <1>2, SendingTyped
  <1>4. \A t, u \in sending : t.of \in DOMAIN entry /\ t.of = u.of => t = u
    BY DEF RequestInv, EntryInv
  <1>5. /\ call' \in [Clients -> {NoCall} \cup RequestRow]
        /\ \A d \in Clients : call'[d] = IF d = c THEN NoCall ELSE call[d]
    BY <1>1, <1>2
  <1>6. \A s \in sending : s.of \in broken' \/ \E t \in sending' : t.of = s.of
    BY <1>1
  <1>7. \A t \in sending' : t \in sending /\ call'[t.call] = call[t.call]
    BY <1>1, <1>5, SendingTyped
  <1>8. \A d \in Clients : call'[d] = call[d] =>
          \A s \in sending : s.call = d /\ s.awaited => s \in sending'
    BY <1>1, <1>5
  <1>9. QED BY <1>1, <1>3, <1>4, <1>5, <1>6, <1>7, <1>8, LosesRequest

\* A worker changes no more of a job than its status and its attempts.
LEMMA WorkerRequest ==
  ASSUME RequestInv, WorkType, UNCHANGED <<entry, rule, requests>>,
         DOMAIN job' = DOMAIN job, \A j \in DOMAIN job : job'[j].of = job[j].of
  PROVE  RequestInv'
  <1>1. \A x : JobsOf(x)' = JobsOf(x)
    BY DEF JobsOf
  <1>2. RequestType' /\ ReadInv' /\ SendInv'
    BY DEF requests, RequestInv, RequestType, RequestRow, ReadInv, ReadByOwner, SendInv
  <1>3. EntryInv'
    BY <1>1 DEF requests, RequestInv, EntryInv, OneJobEach
  <1>4. \A r : Unmarked(r)' = Unmarked(r)
    BY DEF requests, Unmarked, Is, Awaits
  <1>5. MarkInv'
    BY <1>1, <1>4 DEF RequestInv, MarkInv
  <1>6. QED BY <1>2, <1>3, <1>5 DEF RequestInv

-----------------------------------------------------------------------------
(* The counters that bound requests and faults. *)

CountersOK == calls \in [Clients -> 0 .. MaxCalls] /\ faults \in 0 .. MaxFaults

LEMMA JobsCounters == CountersOK /\ [Next]_vars => CountersOK'
  <1> SUFFICES ASSUME CountersOK, [Next]_vars PROVE CountersOK'
    OBVIOUS
  <1> USE DEF CountersOK
  <1>1. ASSUME UNCHANGED <<calls, faults>> PROVE CountersOK'
    BY <1>1
  <1>2. ASSUME Fault, UNCHANGED calls PROVE CountersOK'
    BY <1>2, JobsConstantsOK DEF Fault
  <1>3. ASSUME NEW c \in Clients, Submit(c) PROVE CountersOK'
    <2>1. /\ calls[c] < MaxCalls /\ calls' = [calls EXCEPT ![c] = @ + 1] /\ UNCHANGED faults
      BY <1>3 DEF Submit
    <2>2. calls[c] + 1 \in 0 .. MaxCalls
      BY <2>1, JobsConstantsOK
    <2>3. QED BY <2>1, <2>2
  <1>4. ASSUME NEW c \in Clients, Request(c) PROVE UNCHANGED <<calls, faults>>
    BY <1>4 DEF Request, Dispatch, Generate, Store, Execute, ExecuteScheduled, CreateRule,
                MarkRun, Finish, FindNotification, MarkRead, BulkMarkRead
  <1>5. ASSUME Statements PROVE UNCHANGED <<calls, faults>>
    BY <1>5 DEF Statements, Enqueue, UpdateJob
  <1>6. ASSUME NEW w \in Workers, Poll(w) PROVE UNCHANGED <<calls, faults>>
    BY <1>6 DEF Poll, FindDue, HandOut
  <1>7. ASSUME NEW w \in Workers, NEW j \in holding[w], NEW status, FinishJob(w, j, status)
        PROVE  UNCHANGED <<calls, faults>>
    BY <1>7 DEF FinishJob
  <1>8. ASSUME \/ \E c \in Clients : CallDies(c)
               \/ \E s \in sending : EnqueueFails(s)
               \/ \E x \in updating : UpdateFails(x)
               \/ \E w \in Workers : ClaimDies(w)
        PROVE  Fault /\ UNCHANGED calls
    BY <1>8 DEF CallDies, EnqueueFails, UpdateFails, ClaimDies
  <1>9. CASE UNCHANGED vars
    BY <1>1, <1>9 DEF vars
  <1>10. CASE Next
    <2>1. \/ \E c \in Clients : Submit(c)
          \/ \E c \in Clients : Request(c)
          \/ Statements
          \/ \E w \in Workers : Poll(w)
          \/ \E w \in Workers : \E j \in holding[w], status \in Outcomes[w] : FinishJob(w, j, status)
          \/ \E c \in Clients : CallDies(c)
          \/ \E s \in sending : EnqueueFails(s)
          \/ \E x \in updating : UpdateFails(x)
          \/ \E w \in Workers : ClaimDies(w)
      BY <1>10 DEF Next
    <2>2. QED BY <2>1, <1>1, <1>2, <1>3, <1>4, <1>5, <1>6, <1>7, <1>8
  <1>11. QED BY <1>9, <1>10

LEMMA JobsCounted == Spec => []CountersOK
  <1>1. Init => CountersOK
    BY JobsConstantsOK DEF Init, CountersOK
  <1>2. QED BY <1>1, JobsCounters, PTL DEF Spec

-----------------------------------------------------------------------------
(* The invariant, and what follows from it. *)

JobsInv == WorkInv /\ RequestInv

LEMMA JobsInit == Init => JobsInv
  <1> SUFFICES ASSUME Init PROVE JobsInv
    OBVIOUS
  <1> USE DEF Init
  <1>1. DOMAIN job = {} /\ DOMAIN entry = {} /\ Len(job) = 0 /\ Len(entry) = 0
    OBVIOUS
  <1>2. WorkInv
    <2>1. WorkType
      BY DEF WorkType, Numbers
    <2>2. ClaimInv /\ HandedOutForGood /\ TakersCounted
      BY <1>1 DEF ClaimInv, HandedOutForGood, TakersCounted
    <2>3. QED BY <2>1, <2>2 DEF WorkInv
  <1>3. RequestType
    BY <1>1 DEF RequestType
  <1>4. ReadInv /\ SendInv /\ EntryInv
    BY <1>1 DEF ReadInv, ReadByOwner, SendInv, EntryInv, OneJobEach, NoCall
  <1>5. MarkInv
    <2>1. \A r \in Rules : rule[r].runs = 0 /\ Unmarked(r) = {} /\ JobsOf(r) = {}
      BY <1>1 DEF Unmarked, Is, NoCall, JobsOf
    <2>2. Cardinality({}) = 0
      BY FS_EmptySet
    <2>3. ASSUME NEW r \in Rules
          PROVE  rule[r].runs + Cardinality(Unmarked(r)) <= Cardinality(JobsOf(r))
      <3>1. rule[r].runs = 0 /\ Cardinality(Unmarked(r)) = 0 /\ Cardinality(JobsOf(r)) = 0
        BY <2>1, <2>2
      <3>2. QED BY <3>1
    <2>4. QED BY <2>3 DEF MarkInv
  <1>6. QED BY <1>2, <1>3, <1>4, <1>5 DEF JobsInv, RequestInv

LEMMA JobsStep == JobsInv /\ CountersOK /\ [Next]_vars => JobsInv'
  <1> SUFFICES ASSUME JobsInv, faults \in 0 .. MaxFaults, [Next]_vars PROVE JobsInv'
    BY DEF CountersOK
  <1>1. WorkInv /\ RequestInv /\ WorkType
    BY DEF JobsInv, WorkInv
  <1>2. ASSUME NEW c \in Clients, Submit(c) \/ Request(c) \/ CallDies(c) PROVE JobsInv'
    <2>1. UNCHANGED <<job, claims>>
      BY <1>2 DEF Submit, Request, Dispatch, Generate, Store, Execute, ExecuteScheduled, CreateRule,
                  MarkRun, Finish, FindNotification, MarkRead, BulkMarkRead, CallDies, tables
    <2>2. RequestInv'
      <3>1. CASE Submit(c)
        BY <1>1, <3>1, SubmitRequest
      <3>2. CASE Dispatch(c) \/ Generate(c)
        BY <1>1, <3>2, DispatchRequest, GenerateRequest
      <3>3. CASE Execute(c) \/ ExecuteScheduled(c)
        BY <1>1, <3>3, ExecuteRequest, ExecuteScheduledRequest
      <3>4. CASE CreateRule(c) \/ MarkRun(c) \/ Finish(c)
        BY <1>1, <3>4, CreateRuleRequest, MarkRunRequest, FinishRequest
      <3>5. CASE FindNotification(c) \/ MarkRead(c) \/ BulkMarkRead(c)
        BY <1>1, <3>5, FindNotificationRequest, MarkReadRequest, BulkMarkReadRequest
      <3>6. CASE CallDies(c)
        BY <1>1, <3>6, CallDiesRequest
      <3>7. QED BY <1>2, <3>1, <3>2, <3>3, <3>4, <3>5, <3>6 DEF Request
    <2>3. QED BY <1>1, <2>1, <2>2, OtherWork DEF JobsInv
  <1>3. ASSUME NEW s \in sending, Enqueue(s) PROVE JobsInv'
    BY <1>1, <1>3, SendingTyped, EnqueueWork, EnqueueRequest DEF JobsInv
  <1>4. ASSUME NEW s \in sending, EnqueueFails(s) PROVE JobsInv'
    <2>1. UNCHANGED <<job, claims>>
      BY <1>4 DEF EnqueueFails, tables
    <2>2. QED BY <1>1, <1>4, <2>1, OtherWork, EnqueueFailsRequest DEF JobsInv
  <1>5. ASSUME NEW x \in updating, UpdateJob(x) PROVE JobsInv'
    <2>1. x.job \in DOMAIN job /\ job[x.job] \in JobRow
      BY <1>1, RowTyped DEF WorkType, Numbers
    <2>2. Taken(job[x.job]).of = job[x.job].of
      BY <2>1 DEF Taken, JobRow
    <2>3. job' = [job EXCEPT ![x.job] = Taken(@)] /\ UNCHANGED <<entry, rule, requests>>
      BY <1>5 DEF UpdateJob
    <2>4. DOMAIN job' = DOMAIN job /\ \A j \in DOMAIN job : job'[j].of = job[j].of
      BY <2>1, <2>2, <2>3
    <2>5. QED BY <1>1, <1>5, <2>3, <2>4, UpdateJobWork, WorkerRequest DEF JobsInv
  <1>6. ASSUME NEW x \in updating, UpdateFails(x) PROVE JobsInv'
    <2>1. UNCHANGED <<entry, rule, requests, job>>
      BY <1>6 DEF UpdateFails, tables
    <2>2. QED BY <1>1, <1>6, <2>1, UpdateFailsWork, WorkerRequest DEF JobsInv
  <1>7. ASSUME NEW w \in Workers, Poll(w) \/ ClaimDies(w) PROVE JobsInv'
    <2>1. UNCHANGED <<entry, rule, requests, job>>
      BY <1>7 DEF Poll, FindDue, HandOut, ClaimDies, tables
    <2>2. WorkInv'
      BY <1>1, <1>7, FindDueWork, HandOutWork, ClaimDiesWork DEF Poll
    <2>3. QED BY <1>1, <2>1, <2>2, WorkerRequest DEF JobsInv
  <1>8. ASSUME NEW w \in Workers, NEW j \in holding[w], NEW status \in Outcomes[w],
               FinishJob(w, j, status)
        PROVE  JobsInv'
    <2>1. job' = [job EXCEPT ![j].status = status] /\ UNCHANGED <<entry, rule, requests>>
      BY <1>8 DEF FinishJob
    <2>2. j \in DOMAIN job /\ job[j] \in JobRow
      BY <1>1, RowTyped DEF WorkType, Numbers
    <2>3. [job[j] EXCEPT !.status = status].of = job[j].of
      BY <2>2 DEF JobRow
    <2>4. DOMAIN job' = DOMAIN job /\ \A i \in DOMAIN job : job'[i].of = job[i].of
      BY <2>1, <2>2, <2>3
    <2>5. QED BY <1>1, <1>8, <2>1, <2>4, FinishJobWork, WorkerRequest DEF JobsInv
  <1>9. CASE UNCHANGED vars
    <2>1. UNCHANGED <<entry, rule, requests, job, claims>>
      BY <1>9 DEF vars, tables
    <2>2. QED BY <1>1, <2>1, OtherWork, WorkerRequest DEF JobsInv
  <1>10. QED BY <1>2, <1>3, <1>4, <1>5, <1>6, <1>7, <1>8, <1>9 DEF Next, Statements

THEOREM JobsInvariant == Spec => []JobsInv
  BY JobsInit, JobsStep, JobsCounted, PTL DEF Spec

\* The tables and what requests and claims have under way keep their types:
\* jobs are about rows that exist, claims and updates about jobs that exist.
THEOREM JobsTypeCorrect == Spec => []TypeOK
  <1>1. JobsInv /\ CountersOK => TypeOK
    BY DEF JobsInv, WorkInv, WorkType, RequestInv, RequestType, JobRow, Numbers, EntryRow,
           RequestRow, CountersOK, TypeOK
  <1>2. QED BY <1>1, JobsCounted, JobsInvariant, PTL

\* claimDue never hands out a job that can be claimed once more: the job it
\* answers with has left the queue, whatever claims overlap, whatever updates
\* fail, and it stays off the queue.
THEOREM JobsHandedOutForGood == Spec => []HandedOutForGood
  <1>1. JobsInv => HandedOutForGood
    BY DEF JobsInv, WorkInv
  <1>2. QED BY <1>1, JobsInvariant, PTL

\* attempts counts every worker a job was handed to: the database increments
\* it for each claim, those included that read the same row.
THEOREM JobsHandOutsCounted == Spec => []HandOutsCounted
  <1>1. JobsInv => HandOutsCounted
    <2> SUFFICES ASSUME WorkInv, NEW j \in DOMAIN job
                 PROVE  Cardinality({w \in Workers : j \in had[w]}) <= job[j].attempts
      BY DEF JobsInv, HandOutsCounted
    <2> DEFINE H == {w \in Workers : j \in had[w]}
    <2>1. IsFiniteSet(Takers(j)) /\ Cardinality(Takers(j)) \in Nat /\ H \subseteq Takers(j)
      BY TakersFinite DEF Takers
    <2>2. Cardinality(H) <= Cardinality(Takers(j)) /\ Cardinality(H) \in Nat
      BY <2>1, FS_Subset, FS_CardinalityType
    <2>3. Cardinality(Takers(j)) <= job[j].attempts /\ job[j].attempts \in Nat
      BY RowTyped DEF WorkInv, TakersCounted
    <2>4. QED BY <2>1, <2>2, <2>3
  <1>2. QED BY <1>1, JobsInvariant, PTL

\* A notification is marked read only after its own user asked: markRead looks
\* up the owner first, bulkMarkRead has the owner in its condition.
THEOREM JobsReadByOwner == Spec => []ReadByOwner
  <1>1. JobsInv => ReadByOwner
    BY DEF JobsInv, RequestInv, ReadInv
  <1>2. QED BY <1>1, JobsInvariant, PTL

\* dispatch and generate queue one job for a row at most, and a row is without
\* one only while its insert is under way or after that was lost.
THEOREM JobsOneJobEach == Spec => []OneJobEach
  <1>1. JobsInv => OneJobEach
    BY DEF JobsInv, RequestInv, EntryInv
  <1>2. QED BY <1>1, JobsInvariant, PTL

\* execute notes lastRunAt only for a job that is on the queue.
THEOREM JobsMarkedQueued == Spec => []MarkedRunsAreQueued
  <1>1. JobsInv => MarkedRunsAreQueued
    <2> SUFFICES ASSUME JobsInv, NEW r \in Rules PROVE rule[r].runs <= Cardinality(JobsOf(r))
      BY DEF MarkedRunsAreQueued
    <2>1. Cardinality(Unmarked(r)) \in Nat /\ Cardinality(JobsOf(r)) \in Nat
      BY UnmarkedFinite, JobsOfFinite DEF JobsInv, WorkInv
    <2>2. rule[r].runs \in Nat /\ rule[r].runs + Cardinality(Unmarked(r)) <= Cardinality(JobsOf(r))
      BY DEF JobsInv, RequestInv, RequestType, MarkInv
    <2>3. QED BY <2>1, <2>2
  <1>2. QED BY <1>1, JobsInvariant, PTL

-----------------------------------------------------------------------------
(* The queue keeps the promises of WorkQueue. *)

\* A claim finds nothing that its worker had, and what a worker holds it had.
HandInv == \A w \in Workers : claim[w] \cap had[w] = {} /\ holding[w] \subseteq had[w]

LEMMA HandStep == WorkInv /\ HandInv /\ [Next]_vars => HandInv'
  <1> SUFFICES ASSUME WorkInv, HandInv, [Next]_vars PROVE HandInv'
    OBVIOUS
  <1>1. /\ claim \in [Workers -> SUBSET Numbers] /\ holding \in [Workers -> SUBSET Numbers]
        /\ had \in [Workers -> SUBSET Numbers]
    BY DEF WorkInv, WorkType
  <1>2. ASSUME UNCHANGED <<claim, holding, had>> PROVE HandInv'
    BY <1>2 DEF HandInv
  <1>3. ASSUME NEW w \in Workers, claim' = [claim EXCEPT ![w] = {}], UNCHANGED <<holding, had>> PROVE HandInv'
    BY <1>1, <1>3 DEF HandInv
  <1>4. ASSUME NEW w \in Workers, FindDue(w) PROVE HandInv'
    <2>0. PICK q \in Serves[w] : \E found \in Batches(Queued(q)) :
            claim' = [claim EXCEPT ![w] = found] /\ UNCHANGED <<holding, had>>
      BY <1>4 DEF FindDue
    <2>1. PICK found \in Batches(Queued(q)) :
            claim' = [claim EXCEPT ![w] = found] /\ UNCHANGED <<holding, had>>
      BY <2>0
    <2>2. \A j \in found : j \in DOMAIN job /\ job[j].status = "QUEUED"
      BY DEF Batches, kSubset, Queued
    <2>3. found \cap had[w] = {}
      BY <2>2 DEF WorkInv, HandedOutForGood
    <2>4. QED BY <1>1, <2>1, <2>3 DEF HandInv
  <1>5. ASSUME NEW w \in Workers, HandOut(w) PROVE HandInv'
    BY <1>1, <1>5 DEF HandOut, HandInv
  <1>6. ASSUME NEW w \in Workers, NEW j \in holding[w], NEW status, FinishJob(w, j, status) PROVE HandInv'
    BY <1>1, <1>6 DEF FinishJob, HandInv
  <1>7. ASSUME NEW x \in updating, UpdateFails(x) PROVE HandInv'
    <2>1. x.by \in Workers
      BY DEF WorkInv, WorkType
    <2>2. QED BY <1>2, <1>3, <1>7, <2>1 DEF UpdateFails
  <1>8. ASSUME NEW w \in Workers, ClaimDies(w) PROVE HandInv'
    BY <1>3, <1>8 DEF ClaimDies
  <1>9. ASSUME \/ \E c \in Clients : Submit(c) \/ Request(c) \/ CallDies(c)
               \/ Statements \/ \E s \in sending : EnqueueFails(s)
               \/ UNCHANGED vars
        PROVE  UNCHANGED <<claim, holding, had>>
    BY <1>9 DEF Submit, Request, Dispatch, Generate, Store, Execute, ExecuteScheduled, CreateRule,
                MarkRun, Finish, FindNotification, MarkRead, BulkMarkRead, CallDies, Statements, Enqueue,
                UpdateJob, EnqueueFails, vars, claims
  <1>10. QED BY <1>2, <1>4, <1>5, <1>6, <1>7, <1>8, <1>9 DEF Next, Poll

\* WorkQueue counts as this module does.
LEMMA QueueCounts == \A S : Queue!Cardinality(S) = Cardinality(S)
  BY DEF Queue!Cardinality, Cardinality

QueueRow == [of: Refs, waiting: BOOLEAN, attempts: Nat]
RowOf(j) == [of |-> job[j].of, waiting |-> job[j].status = "QUEUED", attempts |-> job[j].attempts]

LEMMA RowsTyped ==
  ASSUME WorkType
  PROVE  /\ Rows = [j \in DOMAIN job |-> RowOf(j)] /\ DOMAIN job = 1 .. Len(job) /\ Len(job) \in Nat
         /\ Rows \in Seq(QueueRow) /\ Len(Rows) = Len(job) /\ DOMAIN Rows = DOMAIN job
  <1>1. DOMAIN job = 1 .. Len(job) /\ Len(job) \in Nat
    BY DEF WorkType
  <1>2. \A j \in DOMAIN job : IsQueued(j) = (job[j].status = "QUEUED")
    BY DEF IsQueued
  <1>3. Rows = [j \in DOMAIN job |-> RowOf(j)]
    BY <1>2 DEF Rows, RowOf
  <1>4. ASSUME NEW j \in DOMAIN job PROVE RowOf(j) \in QueueRow
    <2>1. job[j].of \in Refs /\ job[j].attempts \in Nat
      BY RowTyped DEF JobRow
    <2>2. (job[j].status = "QUEUED") \in BOOLEAN
      OBVIOUS
    <2>3. QED BY <2>1, <2>2 DEF RowOf, QueueRow
  <1>5. Rows \in [1 .. Len(job) -> QueueRow]
    BY <1>1, <1>3, <1>4
  <1>6. QED BY <1>1, <1>3, <1>5, SeqDef, LenProperties

\* The hand-outs, by what the workers had and hold.
LEMMA SameHands ==
  ASSUME WorkType, DOMAIN job \subseteq DOMAIN job', UNCHANGED <<had, holding>>
  PROVE  UNCHANGED <<Given, Done>>
  <1>1. Given' = Given
    BY DEF Given, WorkType, Numbers
  <1>2. QED BY <1>1 DEF Done

LEMMA SameQueue ==
  ASSUME WorkType, UNCHANGED <<job, had, holding>>
  PROVE  UNCHANGED Queue!vars
  <1>1. Rows' = Rows
    BY DEF Rows, IsQueued
  <1>2. QED BY <1>1, SameHands DEF Queue!vars

LEMMA EnqueueOfQueue ==
  ASSUME JobsInv, JobsInv', NEW s \in sending, Enqueue(s)
  PROVE  Queue!Post
  <1>0. PICK n : n = Len(job) + 1
    OBVIOUS
  <1> DEFINE new == [of |-> s.of, queue |-> QueueOf(s.of), status |-> "QUEUED", attempts |-> 0]
             r == [of |-> s.of, waiting |-> TRUE, attempts |-> 0]
  <1>1. job' = Append(job, new) /\ UNCHANGED <<entry, had, holding>>
    BY DEF Enqueue, claims
  <1>2. WorkType /\ WorkType'
    BY DEF JobsInv, WorkInv
  <1>3. /\ DOMAIN job = 1 .. Len(job) /\ Len(job) \in Nat /\ job \in Seq(JobRow)
    BY <1>2, RowsTyped DEF WorkType
  <1>4. new.of = s.of /\ new.status = "QUEUED" /\ new.attempts = 0
    OBVIOUS
  <1> HIDE DEF new
  <1>5. DOMAIN job' = 1 .. n /\ job'[n] = new /\ \A j \in DOMAIN job : job'[j] = job[j]
    BY <1>0, <1>1, <1>3
  <1>6. Rows' = [j \in DOMAIN job' |-> RowOf(j)'] /\ Rows = [j \in DOMAIN job |-> RowOf(j)]
    <2>1. Rows = [j \in DOMAIN job |-> RowOf(j)]
      BY <1>2, RowsTyped
    <2>2. \A j \in DOMAIN job' : IsQueued(j)' = (job'[j].status = "QUEUED")
      BY DEF IsQueued
    <2>3. QED BY <2>1, <2>2 DEF Rows, RowOf
  <1>7. Rows'[n] = r /\ \A j \in DOMAIN job : Rows'[j] = Rows[j]
    <2>1. RowOf(n)' = r
      <3>1. (job'[n].status = "QUEUED") = TRUE
        BY <1>4, <1>5
      <3>2. job'[n].of = s.of /\ job'[n].attempts = 0
        BY <1>4, <1>5
      <3>3. RowOf(n)' = [of |-> job'[n].of, waiting |-> job'[n].status = "QUEUED", attempts |-> job'[n].attempts]
        BY DEF RowOf
      <3>4. QED BY <3>1, <3>2, <3>3, Zenon
    <2>2. n \in DOMAIN job' /\ \A j \in DOMAIN job : j \in DOMAIN job' /\ RowOf(j)' = RowOf(j)
      BY <1>0, <1>3, <1>5 DEF RowOf
    <2>3. Rows'[n] = RowOf(n)'
      BY <1>6, <2>2
    <2>4. \A j \in DOMAIN job : Rows'[j] = RowOf(j)' /\ Rows[j] = RowOf(j)
      BY <1>6, <2>2
    <2>5. QED BY <2>1, <2>2, <2>3, <2>4
  <1>8. Rows' = Append(Rows, r)
    <2>1. Len(Rows) = Len(job) /\ Rows \in Seq(QueueRow) /\ DOMAIN Rows = DOMAIN job
      BY <1>2, RowsTyped
    <2>2. Append(Rows, r) = [j \in 1 .. n |-> IF j = n THEN r ELSE Rows[j]]
      BY <1>0, <1>3, <2>1
    <2>3. Rows' = [j \in 1 .. n |-> Rows'[j]]
      BY <1>5, <1>6
    <2>4. \A j \in 1 .. n : Rows'[j] = IF j = n THEN r ELSE Rows[j]
      BY <1>0, <1>3, <1>7
    <2>5. QED BY <2>2, <2>3, <2>4
  <1>9. s.of \in Rules \/ \A j \in DOMAIN Rows : Rows[j].of # s.of
    <2> SUFFICES ASSUME s.of \notin Rules, NEW j \in DOMAIN job, job[j].of = s.of PROVE FALSE
      BY <1>6 DEF RowOf
    <2>1. s.of \in DOMAIN entry'
      BY <1>1, <1>2 DEF JobsInv, RequestInv, RequestType
    <2>2. j \in JobsOf(s.of)' /\ n \in JobsOf(s.of)' /\ j # n
      BY <1>0, <1>3, <1>4, <1>5 DEF JobsOf
    <2>3. \A i, k \in JobsOf(s.of)' : i = k
      BY <2>1 DEF JobsInv, RequestInv, EntryInv, OneJobEach
    <2>4. QED BY <2>2, <2>3
  <1>10. UNCHANGED <<Given, Done>>
    BY <1>0, <1>1, <1>2, <1>3, <1>5, SameHands
  <1>11. r \in Queue!Added /\ r.of = s.of
    <2>1. n \in DOMAIN Rows' \ DOMAIN Rows
      BY <1>0, <1>3, <1>5, <1>6
    <2>2. QED BY <1>7, <2>1 DEF Queue!Added
  <1>12. QED BY <1>8, <1>9, <1>10, <1>11 DEF Queue!Post

LEMMA UpdateJobOfQueue ==
  ASSUME JobsInv, NEW x \in updating, UpdateJob(x)
  PROVE  Queue!Attempt
  <1>1. PICK j, t : j = x.job /\ t = Taken(job[j])
    OBVIOUS
  <1>2. WorkType
    BY DEF JobsInv, WorkInv
  <1>3. j \in DOMAIN job /\ job[j] \in JobRow
    BY <1>1, <1>2, RowTyped DEF WorkType, Numbers
  <1>4. t.of = job[j].of /\ t.status = "PROCESSING" /\ t.attempts = job[j].attempts + 1
    BY <1>1, <1>3 DEF Taken, JobRow
  <1>5. job' = [job EXCEPT ![j] = t] /\ UNCHANGED <<had, holding>>
    BY <1>1 DEF UpdateJob
  <1>6. DOMAIN job' = DOMAIN job /\ job'[j] = t /\ \A i \in DOMAIN job \ {j} : job'[i] = job[i]
    BY <1>3, <1>5
  <1>7. Rows = [i \in DOMAIN job |-> RowOf(i)] /\ Rows' = [i \in DOMAIN job |-> RowOf(i)']
    <2>1. Rows = [i \in DOMAIN job |-> RowOf(i)]
      BY <1>2, RowsTyped
    <2>2. \A i \in DOMAIN job' : IsQueued(i)' = (job'[i].status = "QUEUED")
      BY DEF IsQueued
    <2>3. QED BY <1>6, <2>1, <2>2 DEF Rows, RowOf
  <1>8. \A i \in DOMAIN job \ {j} : RowOf(i)' = RowOf(i)
    BY <1>6 DEF RowOf
  <1> DEFINE new == [of |-> job[j].of, waiting |-> FALSE, attempts |-> job[j].attempts + 1]
  <1>9. RowOf(j)' = new
    <2>1. (job'[j].status = "QUEUED") = FALSE /\ job'[j].of = job[j].of
          /\ job'[j].attempts = job[j].attempts + 1
      BY <1>4, <1>6
    <2>2. RowOf(j)' = [of |-> job'[j].of, waiting |-> job'[j].status = "QUEUED", attempts |-> job'[j].attempts]
      BY DEF RowOf
    <2>3. QED BY <2>1, <2>2, Zenon
  <1>10. [Rows EXCEPT ![j] = [of |-> @.of, waiting |-> FALSE, attempts |-> @.attempts + 1]]
           = [Rows EXCEPT ![j] = new]
    <2>1. Rows[j].of = job[j].of /\ Rows[j].attempts = job[j].attempts
      BY <1>3, <1>7 DEF RowOf
    <2>2. QED BY <2>1, Zenon
  <1>11. Rows' = [Rows EXCEPT ![j] = new]
    <2> HIDE DEF new
    <2>1. RowOf(j)' = new
      BY <1>9 DEF new
    <2>2. QED BY <1>3, <1>7, <1>8, <2>1
  <1>12. j \in DOMAIN Rows
    BY <1>3, <1>7
  <1>13. UNCHANGED <<Given, Done>>
    BY <1>2, <1>5, <1>6, SameHands
  <1>14. QED BY <1>10, <1>11, <1>12, <1>13 DEF Queue!Attempt

LEMMA HandOutOfQueue ==
  ASSUME JobsInv, HandInv, NEW w \in Workers, HandOut(w)
  PROVE  Queue!HandOut
  <1>1. PICK js : js = claim[w]
    OBVIOUS
  <1>2. WorkInv /\ WorkType
    BY DEF JobsInv, WorkInv
  <1>3. /\ holding' = [holding EXCEPT ![w] = @ \cup js] /\ had' = [had EXCEPT ![w] = @ \cup js]
        /\ UNCHANGED job
    BY <1>1 DEF HandOut, tables
  <1>4. /\ Rows = [j \in DOMAIN job |-> RowOf(j)] /\ DOMAIN Rows = DOMAIN job /\ DOMAIN job = Numbers
        /\ Rows' = Rows /\ js \subseteq DOMAIN job
    <2>1. Rows' = Rows
      BY <1>3 DEF Rows, IsQueued
    <2>2. QED BY <1>1, <1>2, <2>1, RowsTyped DEF WorkType, Numbers
  <1>5. ASSUME NEW j \in js
        PROVE  /\ ~Queue!Waiting(j) /\ w \notin Queue!Holders(j)
               /\ Queue!Cardinality(Queue!Holders(j)) < Rows[j].attempts
    <2>1. ~Pending(w, j)
      BY DEF HandOut, Updated, Pending
    <2>2. job[j].status # "QUEUED" /\ j \in DOMAIN job /\ j \notin had[w]
      BY <1>1, <1>2, <1>4, <2>1 DEF WorkInv, ClaimInv, HandInv
    <2>3. Queue!Holders(j) = {v \in Workers : j \in had[v]}
      BY <2>2 DEF Queue!Holders, Given
    <2> DEFINE H == Queue!Holders(j)
    <2>4. w \notin H /\ H \cup {w} \subseteq Takers(j)
      BY <1>1, <2>1, <2>2, <2>3 DEF Takers
    <2>5. /\ IsFiniteSet(Takers(j)) /\ Cardinality(Takers(j)) \in Nat
      BY TakersFinite
    <2> HIDE DEF H
    <2>6. IsFiniteSet(H) /\ Cardinality(H) \in Nat /\ Cardinality(H \cup {w}) = Cardinality(H) + 1
      BY <2>4, <2>5, FS_Subset, FS_AddElement, FS_CardinalityType
    <2>7. Cardinality(H \cup {w}) <= Cardinality(Takers(j))
      BY <2>4, <2>5, FS_Subset
    <2>8. Cardinality(Takers(j)) <= job[j].attempts /\ job[j].attempts \in Nat
      BY <1>2, <2>2, RowTyped DEF WorkInv, TakersCounted
    <2>9. Cardinality(H) < job[j].attempts
      BY <2>5, <2>6, <2>7, <2>8
    <2>10. Rows[j] = RowOf(j) /\ RowOf(j).attempts = job[j].attempts
      BY <1>4, <2>2 DEF RowOf
    <2>11. ~Queue!Waiting(j)
      <3>1. RowOf(j).waiting = (job[j].status = "QUEUED")
        BY Zenon DEF RowOf
      <3>2. ~RowOf(j).waiting
        BY <2>2, <3>1
      <3>3. QED BY <2>10, <3>2 DEF Queue!Waiting
    <2>12. QED BY <2>4, <2>9, <2>10, <2>11, QueueCounts DEF H
  <1>6. Given' = Given \cup {[job |-> j, to |-> w] : j \in js}
    BY <1>2, <1>3, <1>4 DEF Given, WorkType
  <1>7. Done' = Done
    <2>1. js \cap had[w] = {}
      BY <1>1 DEF HandInv
    <2>2. \A v \in Workers : \A j : j \in had'[v] /\ j \notin holding'[v] <=> j \in had[v] /\ j \notin holding[v]
      BY <1>2, <1>3, <2>1 DEF WorkType
    <2>3. QED BY <1>3, <2>2 DEF Done, Given
  <1>8. js \in SUBSET DOMAIN Rows
    BY <1>4
  <1>9. QED BY <1>4, <1>5, <1>6, <1>7, <1>8 DEF Queue!HandOut

LEMMA FinishJobOfQueue ==
  ASSUME JobsInv, HandInv, NEW w \in Workers, NEW j \in holding[w], NEW status \in Outcomes[w],
         FinishJob(w, j, status)
  PROVE  Queue!End
  <1>1. WorkType
    BY DEF JobsInv, WorkInv
  <1>2. /\ job' = [job EXCEPT ![j].status = status]
        /\ holding' = [holding EXCEPT ![w] = @ \ {j}] /\ UNCHANGED had
    BY DEF FinishJob
  <1>3. j \in DOMAIN job /\ job[j] \in JobRow /\ j \in had[w] /\ job[j].status # "QUEUED"
    BY <1>1, RowTyped DEF WorkType, Numbers, HandInv, JobsInv, WorkInv, HandedOutForGood
  <1>4. status # "QUEUED"
    BY JobsConstantsOK
  <1> DEFINE new == [job[j] EXCEPT !.status = status]
             g == [job |-> j, to |-> w]
  <1>5. new.status = status /\ new.attempts = job[j].attempts /\ new.of = job[j].of
    BY <1>3 DEF JobRow
  <1>6. job' = [job EXCEPT ![j] = new]
    BY <1>2
  <1> HIDE DEF new
  <1>7. DOMAIN job' = DOMAIN job /\ \A i \in DOMAIN job : job'[i].of = job[i].of
          /\ job'[i].attempts = job[i].attempts /\ (job'[i].status = "QUEUED") = (job[i].status = "QUEUED")
    BY <1>3, <1>4, <1>5, <1>6
  <1>8. Rows' = Rows
    <2>1. \A i \in DOMAIN job : IsQueued(i)' = IsQueued(i)
      BY <1>7 DEF IsQueued
    <2>2. QED BY <1>7, <2>1 DEF Rows
  <1>9. Given' = Given
    BY <1>2, <1>7 DEF Given
  <1>10. g \in Given \ Done
    BY <1>3 DEF Given, Done
  <1>11. Done' = Done \cup {g}
    <2>1. \A v \in Workers : \A i : i \notin holding'[v] <=> (i \notin holding[v] \/ (i = j /\ v = w))
      BY <1>1, <1>2 DEF WorkType
    <2>2. ASSUME NEW h \in Given PROVE h \in Done' <=> h \in Done \cup {g}
      <3>1. h.to \in Workers /\ h = [job |-> h.job, to |-> h.to]
        BY DEF Given
      <3>2. h.job \notin holding'[h.to] <=> (h.job \notin holding[h.to] \/ (h.job = j /\ h.to = w))
        BY <2>1, <3>1
      <3>3. h = g <=> h.job = j /\ h.to = w
        BY <3>1
      <3>4. QED BY <1>9, <3>2, <3>3 DEF Done
    <2>3. Done' \subseteq Given /\ Done \cup {g} \subseteq Given
      BY <1>9, <1>10 DEF Done
    <2>4. QED BY <2>2, <2>3
  <1>12. QED BY <1>8, <1>9, <1>10, <1>11 DEF Queue!End

LEMMA QueueStep == JobsInv /\ JobsInv' /\ HandInv /\ [Next]_vars => [Queue!Next]_Queue!vars
  <1> SUFFICES ASSUME JobsInv, JobsInv', HandInv, [Next]_vars PROVE [Queue!Next]_Queue!vars
    OBVIOUS
  <1>1. ASSUME UNCHANGED <<job, had, holding>> PROVE UNCHANGED Queue!vars
    BY <1>1, SameQueue DEF JobsInv, WorkInv
  <1>2. ASSUME \/ \E c \in Clients : Submit(c) \/ Request(c) \/ CallDies(c)
               \/ \E s \in sending : EnqueueFails(s)
               \/ \E x \in updating : UpdateFails(x)
               \/ \E w \in Workers : FindDue(w) \/ ClaimDies(w)
               \/ UNCHANGED vars
        PROVE  UNCHANGED <<job, had, holding>>
    BY <1>2 DEF Submit, Request, Dispatch, Generate, Store, Execute, ExecuteScheduled, CreateRule,
                MarkRun, Finish, FindNotification, MarkRead, BulkMarkRead, CallDies, EnqueueFails,
                UpdateFails, FindDue, ClaimDies, vars, claims, tables
  <1>3. ASSUME NEW s \in sending, Enqueue(s) PROVE Queue!Next
    BY <1>3, EnqueueOfQueue DEF Queue!Next
  <1>4. ASSUME NEW x \in updating, UpdateJob(x) PROVE Queue!Next
    BY <1>4, UpdateJobOfQueue DEF Queue!Next
  <1>5. ASSUME NEW w \in Workers, HandOut(w) PROVE Queue!Next
    BY <1>5, HandOutOfQueue DEF Queue!Next
  <1>6. ASSUME NEW w \in Workers, NEW j \in holding[w], NEW status \in Outcomes[w], FinishJob(w, j, status)
        PROVE  Queue!Next
    BY <1>6, FinishJobOfQueue DEF Queue!Next
  <1>7. QED BY <1>1, <1>2, <1>3, <1>4, <1>5, <1>6 DEF Next, Statements, Poll

\* The services and the workers keep the promises of WorkQueue: one job for a
\* row (dispatch, generate), no job back on the queue, none to a worker twice,
\* each hand-out among the attempts (claimDue), and only what was handed out
\* ends (complete, fail).
THEOREM JobsImplementQueue == Spec => ImplementsQueue
  <1>1. Init => HandInv /\ Queue!Init
    <2> SUFFICES ASSUME Init PROVE HandInv /\ Queue!Init
      OBVIOUS
    <2>1. job = <<>> /\ DOMAIN job = {}
      BY DEF Init
    <2>2. HandInv
      BY DEF Init, HandInv
    <2>3. Rows = <<>> /\ Given = {} /\ Done = {}
      BY <2>1 DEF Rows, Given, Done
    <2>4. QED BY <2>2, <2>3 DEF Queue!Init
  <1>2. JobsInv /\ HandInv /\ [Next]_vars => HandInv'
    BY HandStep DEF JobsInv
  <1>3. QED BY <1>1, <1>2, QueueStep, JobsInvariant, PTL DEF Spec, ImplementsQueue, Queue!Spec
=============================================================================
