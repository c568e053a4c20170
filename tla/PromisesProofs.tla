--------------------------- MODULE PromisesProofs ---------------------------
(***************************************************************************)
(* What the five abstract specifications promise follows from the steps    *)
(* they allow.  Ledger, Assignments, Sync, Jobs and Sessions implement     *)
(* them, so that the promises hold of the tables those keep.               *)
(***************************************************************************)
EXTENDS Integers, Sequences, FiniteSets, SequenceTheorems, FiniteSetTheorems, TLAPS

CONSTANTS Claims, Amounts, Ids, Events, Resources,
          Mutations, Protected, Pushes, Verdicts, Workers, Repeated,
          Users, Invitations, AddressOf, Clerks
VARIABLES recognised, paid, live, over, entered, recorded, cases, settled, row, given, done,
          members, joined, invited, accepted, appointed, tickets, issued

TheBooks == INSTANCE Books WITH settled <- paid
TheTable == INSTANCE Reservations
TheBox == INSTANCE Outbox
TheQueue == INSTANCE WorkQueue
TheAccess == INSTANCE Access

-----------------------------------------------------------------------------
(* The books. *)

BooksInv == recognised \subseteq TheBooks!Entry /\ TheBooks!Sound

\* A claim is recognised at most once, with one amount, and settled only when
\* it is recognised, whatever the claims and the amounts (Books, of the
\* ledger's entries and the claims they are for).
THEOREM BooksAreSound == TheBooks!Spec => []TheBooks!Sound
  <1> USE DEF BooksInv, TheBooks!Sound, TheBooks!IsRecognised
  <1>1. TheBooks!Init => BooksInv
    BY DEF TheBooks!Init
  <1>2. ASSUME BooksInv, [TheBooks!Next]_TheBooks!vars
        PROVE  BooksInv'
    <2>1. CASE TheBooks!Recognise
      BY <1>2, <2>1 DEF TheBooks!Recognise
    <2>2. CASE TheBooks!Pay
      BY <1>2, <2>2 DEF TheBooks!Pay
    <2>3. CASE TheBooks!Settle
      BY <1>2, <2>3 DEF TheBooks!Settle
    <2>4. CASE UNCHANGED TheBooks!vars
      BY <1>2, <2>4 DEF TheBooks!vars
    <2>5. QED BY <1>2, <2>1, <2>2, <2>3, <2>4 DEF TheBooks!Next
  <1>3. BooksInv => TheBooks!Sound
    OBVIOUS
  <1>4. QED BY <1>1, <1>2, <1>3, PTL DEF TheBooks!Spec

-----------------------------------------------------------------------------
(* The table of reservations. *)

\* To clash is symmetric.
LEMMA ClashSymmetric == \A b, c : TheTable!Clash(b, c) <=> TheTable!Clash(c, b)
  BY DEF TheTable!Clash

\* A booking that fits a table with no double booking leaves it so.
LEMMA FitsKeeps ==
  ASSUME NEW others, NEW b, TheTable!Fits(b, others),
         \A x, y \in others : x # y => ~TheTable!Clash(x, y)
  PROVE  \A x, y \in others \cup {b} : x # y => ~TheTable!Clash(x, y)
  <1>1. \A c \in others : ~TheTable!Clash(b, c) /\ ~TheTable!Clash(c, b)
    BY ClashSymmetric DEF TheTable!Fits
  <1>2. QED BY <1>1

\* No two live bookings of one resource ever cover a common instant, for any
\* bookings, events, resources and times (Reservations, of the assignments
\* that createAssignment, release and reassign leave).
THEOREM ReservationsNeverClash == TheTable!Spec => []TheTable!NoDoubleBooking
  <1> USE DEF TheTable!NoDoubleBooking, TheTable!Clash
  <1>1. TheTable!Init => TheTable!NoDoubleBooking
    BY DEF TheTable!Init
  <1>2. ASSUME TheTable!NoDoubleBooking, [TheTable!Next]_<<live, over>>
        PROVE  TheTable!NoDoubleBooking'
    <2>1. CASE TheTable!Book
      <3>1. PICK b \in TheTable!Added : TheTable!Fits(b, live) /\ live' = live \cup {b}
        BY <2>1 DEF TheTable!Book
      <3>2. \A x, y \in live \cup {b} : x # y => ~TheTable!Clash(x, y)
        BY <1>2, <3>1, FitsKeeps
      <3>3. QED BY <3>1, <3>2
    <2>2. CASE TheTable!Record \/ UNCHANGED <<live, over>>
      BY <1>2, <2>2 DEF TheTable!Record
    <2>3. CASE TheTable!End
      BY <1>2, <2>3 DEF TheTable!End
    <2>4. CASE TheTable!Replace
      <3>1. PICK old \in live, new \in TheTable!Added :
              /\ TheTable!Fits(new, live \ {old})
              /\ live' = (live \ {old}) \cup {new}
        BY <2>4 DEF TheTable!Replace
      <3>2. \A x, y \in live \ {old} : x # y => ~TheTable!Clash(x, y)
        BY <1>2
      <3>3. \A x, y \in (live \ {old}) \cup {new} : x # y => ~TheTable!Clash(x, y)
        BY <3>1, <3>2, FitsKeeps
      <3>4. QED BY <3>1, <3>3
    <2>5. QED BY <1>2, <2>1, <2>2, <2>3, <2>4 DEF TheTable!Next
  <1>3. QED BY <1>1, <1>2, PTL DEF TheTable!Spec

-----------------------------------------------------------------------------
(* The outbox. *)

Case == [case: Nat, of: Mutations, outcome: Verdicts \cup {TheBox!Undecided}]

OutboxInv ==
  /\ entered \subseteq Mutations /\ cases \subseteq Case /\ TheBox!Sound
  /\ \A o \in recorded : o.mutation \in entered
  /\ \A c \in cases : c.of \in entered

\* A mutation is recorded at most once, only what was entered is recorded or
\* disputed, nobody is through with what the server neither has nor disputes,
\* and a protected row is never merged, whatever the mutations, pushes and
\* verdicts (Outbox, of push, resolveConflict and the desktop's flush).
THEOREM OutboxIsSound == TheBox!Spec => []TheBox!Sound
  <1> USE DEF OutboxInv, TheBox!Sound, TheBox!IsRecorded, TheBox!IsDisputed
  <1>1. TheBox!Init => OutboxInv
    BY DEF TheBox!Init
  <1>2. ASSUME OutboxInv, [TheBox!Next]_TheBox!vars
        PROVE  OutboxInv'
    <2>1. CASE TheBox!Enter
      BY <1>2, <2>1 DEF TheBox!Enter
    <2>2. CASE TheBox!Record
      BY <1>2, <2>2 DEF TheBox!Record
    <2>3. CASE TheBox!Dispute
      <3>1. PICK new : /\ new \in [case: Nat, of: entered, outcome: {TheBox!Undecided}]
                       /\ \A c \in cases : c.case # new.case
                       /\ cases' = cases \cup {new}
                       /\ UNCHANGED <<entered, recorded, settled>>
        BY <2>3 DEF TheBox!Dispute
      <3>2. new \in Case /\ new.of \in entered /\ new.outcome # "MERGE_SAFE_FIELDS"
        BY <1>2, <3>1 DEF Case, TheBox!Undecided
      <3>3. QED BY <1>2, <3>1, <3>2
    <2>4. CASE TheBox!Decide
      <3>1. PICK old \in cases, v \in Verdicts :
              /\ v = "MERGE_SAFE_FIELDS" => old.of \notin Protected
              /\ cases' = (cases \ {old}) \cup {[old EXCEPT !.outcome = v]}
              /\ UNCHANGED <<entered, recorded, settled>>
        BY <2>4 DEF TheBox!Decide
      <3> DEFINE new == [old EXCEPT !.outcome = v]
      <3>2. new \in Case /\ new.case = old.case /\ new.of = old.of /\ new.outcome = v
        BY <1>2 DEF Case
      <3> HIDE DEF new
      <3>3. cases' = (cases \ {old}) \cup {new}
        BY <3>1 DEF new
      <3>4. \A m : TheBox!IsDisputed(m)' <=> TheBox!IsDisputed(m)
        BY <3>2, <3>3
      <3>5. QED BY <1>2, <3>1, <3>2, <3>3, <3>4
    <2>5. CASE TheBox!Settle
      BY <1>2, <2>5 DEF TheBox!Settle
    <2>6. CASE UNCHANGED TheBox!vars
      BY <1>2, <2>6 DEF TheBox!vars
    <2>7. QED BY <1>2, <2>1, <2>2, <2>3, <2>4, <2>5, <2>6 DEF TheBox!Next
  <1>3. OutboxInv => TheBox!Sound
    OBVIOUS
  <1>4. QED BY <1>1, <1>2, <1>3, PTL DEF TheBox!Spec

-----------------------------------------------------------------------------
(* The worker queue. *)

LEMMA QueueCounts == \A S : TheQueue!Cardinality(S) = Cardinality(S)
  BY DEF TheQueue!Cardinality, Cardinality

HandOuts == [job: DOMAIN row, to: Workers]

QueueInv ==
  /\ \E S : row \in Seq(S)
  /\ \A j \in DOMAIN row : row[j].attempts \in Nat
  /\ given \subseteq HandOuts
  /\ TheQueue!Sound

\* Those who were handed a job can be counted.
LEMMA HoldersFinite ==
  ASSUME IsFiniteSet(Workers)
  PROVE  \A j : IsFiniteSet(TheQueue!Holders(j)) /\ Cardinality(TheQueue!Holders(j)) \in Nat
  <1> TAKE j
  <1>1. TheQueue!Holders(j) \in SUBSET Workers
    BY DEF TheQueue!Holders
  <1>2. QED BY <1>1, FS_Subset, FS_CardinalityType

\* Without a hand-out the holders of a job stay the same.
LEMMA HoldersKept ==
  ASSUME given' = given
  PROVE  \A j : TheQueue!Holders(j)' = TheQueue!Holders(j)
  BY DEF TheQueue!Holders

\* The new job has a place of its own at the end, and nobody was handed it.
LEMMA PostKeeps ==
  ASSUME QueueInv, TheQueue!Post
  PROVE  QueueInv'
  <1>1. PICK of : /\ of \in Repeated \/ \A j \in DOMAIN row : row[j].of # of
                  /\ row' = Append(row, [of |-> of, waiting |-> TRUE, attempts |-> 0])
                  /\ UNCHANGED <<given, done>>
    BY DEF TheQueue!Post
  <1> DEFINE r == [of |-> of, waiting |-> TRUE, attempts |-> 0]
             n == Len(row) + 1
  <1>2. PICK S : row \in Seq(S)
    BY DEF QueueInv
  <1>3. row \in Seq(S \cup {r}) /\ r \in S \cup {r}
    BY <1>2, SeqMonotonic
  <1>4. r.of = of /\ r.waiting = TRUE /\ r.attempts = 0
    OBVIOUS
  <1> HIDE DEF r
  <1>5. /\ row' \in Seq(S \cup {r}) /\ Len(row') = n /\ row'[n] = r
        /\ \A j \in 1 .. Len(row) : row'[j] = row[j]
    BY <1>1, <1>3, AppendProperties DEF r
  <1>6. Len(row) \in Nat /\ DOMAIN row = 1 .. Len(row) /\ DOMAIN row' = 1 .. n /\ DOMAIN row' = DOMAIN row \cup {n}
    BY <1>3, <1>5, LenProperties
  <1>7. given' \subseteq HandOuts' /\ \A g \in given : g.job \in DOMAIN row /\ g.job # n
    BY <1>1, <1>6 DEF QueueInv, HandOuts
  <1>8. \A i, j \in DOMAIN row' : row'[i].of = row'[j].of => i = j \/ row'[i].of \in Repeated
    BY <1>1, <1>4, <1>5, <1>6 DEF QueueInv, TheQueue!Sound
  <1>9. \A g \in given' : g.job \in DOMAIN row' /\ ~TheQueue!Waiting(g.job)'
    BY <1>1, <1>5, <1>6, <1>7 DEF QueueInv, TheQueue!Sound, TheQueue!Waiting
  <1>10. \A j \in DOMAIN row' : TheQueue!Cardinality(TheQueue!Holders(j)') <= row'[j].attempts
    <2>1. TheQueue!Holders(n) = {}
      BY <1>7 DEF TheQueue!Holders
    <2>2. Cardinality({}) = 0
      BY FS_EmptySet
    <2>3. \A j : TheQueue!Holders(j)' = TheQueue!Holders(j)
      BY <1>1, HoldersKept
    <2>4. \A j \in DOMAIN row : TheQueue!Cardinality(TheQueue!Holders(j)) <= row[j].attempts
      BY DEF QueueInv, TheQueue!Sound
    <2>5. TAKE j \in DOMAIN row'
    <2>6. CASE j = n
      <3>1. TheQueue!Holders(j)' = {}
        BY <2>1, <2>3, <2>6
      <3>2. TheQueue!Cardinality(TheQueue!Holders(j)') = 0
        BY <2>2, <3>1, QueueCounts, Zenon
      <3>3. QED BY <1>4, <1>5, <2>6, <3>2
    <2>7. CASE j \in DOMAIN row
      BY <1>5, <1>6, <2>3, <2>4, <2>7
    <2>8. QED BY <1>6, <2>5, <2>6, <2>7
  <1>11. \A j \in DOMAIN row' : row'[j].attempts \in Nat
    BY <1>4, <1>5, <1>6 DEF QueueInv
  <1>12. done' \subseteq given'
    BY <1>1 DEF QueueInv, TheQueue!Sound
  <1>13. QED BY <1>5, <1>7, <1>8, <1>9, <1>10, <1>11, <1>12, QueueCounts DEF QueueInv, TheQueue!Sound

\* An attempt at a job leaves what it is about, and only adds to its attempts.
LEMMA AttemptKeeps ==
  ASSUME QueueInv, TheQueue!Attempt, IsFiniteSet(Workers)
  PROVE  QueueInv'
  <1>1. PICK i \in DOMAIN row :
          /\ row' = [row EXCEPT ![i] = [of |-> row[i].of, waiting |-> FALSE, attempts |-> row[i].attempts + 1]]
          /\ UNCHANGED <<given, done>>
    BY DEF TheQueue!Attempt
  <1> DEFINE r == [of |-> row[i].of, waiting |-> FALSE, attempts |-> row[i].attempts + 1]
  <1>2. r.of = row[i].of /\ r.waiting = FALSE /\ r.attempts = row[i].attempts + 1
    OBVIOUS
  <1>3. PICK S : row \in Seq(S)
    BY DEF QueueInv
  <1>4. row \in Seq(S \cup {r}) /\ r \in S \cup {r}
    BY <1>3, SeqMonotonic
  <1> HIDE DEF r
  <1>5. /\ row' \in Seq(S \cup {r}) /\ DOMAIN row' = DOMAIN row
        /\ row'[i] = r /\ \A j \in DOMAIN row : j # i => row'[j] = row[j]
    BY <1>1, <1>4, ExceptSeq, LenProperties DEF r
  <1>6. \A j \in DOMAIN row : row'[j].of = row[j].of /\ (row'[j].waiting => row[j].waiting)
    BY <1>2, <1>5
  <1>7. \A j \in DOMAIN row : row'[j].attempts \in Nat /\ row[j].attempts \in Nat
                               /\ row[j].attempts <= row'[j].attempts
    BY <1>2, <1>5 DEF QueueInv
  <1>8. given' \subseteq HandOuts'
    BY <1>1, <1>5 DEF QueueInv, HandOuts
  <1>9. \A j \in DOMAIN row' : Cardinality(TheQueue!Holders(j)') <= row'[j].attempts
    <2> TAKE j \in DOMAIN row'
    <2>1. TheQueue!Holders(j)' = TheQueue!Holders(j)
      BY <1>1, HoldersKept
    <2>2. Cardinality(TheQueue!Holders(j)) <= row[j].attempts /\ Cardinality(TheQueue!Holders(j)) \in Nat
      BY <1>5, QueueCounts, HoldersFinite DEF QueueInv, TheQueue!Sound
    <2>3. QED BY <1>5, <1>7, <2>1, <2>2
  <1>10. TheQueue!Sound'
    <2>1. \A k, j \in DOMAIN row' : row'[k].of = row'[j].of => k = j \/ row'[k].of \in Repeated
      BY <1>5, <1>6 DEF QueueInv, TheQueue!Sound
    <2>2. \A g \in given' : g.job \in DOMAIN row' /\ ~TheQueue!Waiting(g.job)'
      BY <1>1, <1>5, <1>6 DEF QueueInv, TheQueue!Sound, TheQueue!Waiting
    <2>3. done' \subseteq given'
      BY <1>1 DEF QueueInv, TheQueue!Sound
    <2>4. QED BY <1>9, <2>1, <2>2, <2>3, QueueCounts DEF TheQueue!Sound
  <1>11. QED BY <1>5, <1>7, <1>8, <1>10 DEF QueueInv

\* A worker is handed only jobs it did not have, and of each there is an attempt
\* to spare for it.
LEMMA HandOutKeeps ==
  ASSUME QueueInv, TheQueue!HandOut, IsFiniteSet(Workers)
  PROVE  QueueInv'
  <1>1. PICK w \in Workers, js \in SUBSET DOMAIN row :
          /\ \A j \in js : /\ ~TheQueue!Waiting(j) /\ w \notin TheQueue!Holders(j)
                           /\ TheQueue!Cardinality(TheQueue!Holders(j)) < row[j].attempts
          /\ given' = given \cup {[job |-> j, to |-> w] : j \in js}
          /\ UNCHANGED <<row, done>>
    BY DEF TheQueue!HandOut
  <1>2. \A j : TheQueue!Holders(j)' = IF j \in js THEN TheQueue!Holders(j) \cup {w} ELSE TheQueue!Holders(j)
    BY <1>1 DEF TheQueue!Holders
  <1>3. \A j \in DOMAIN row' : Cardinality(TheQueue!Holders(j)') <= row'[j].attempts
    <2> TAKE j \in DOMAIN row'
    <2>1. row[j].attempts \in Nat /\ row' = row /\ j \in DOMAIN row
      BY <1>1 DEF QueueInv
    <2>2. Cardinality(TheQueue!Holders(j)) <= row[j].attempts /\ Cardinality(TheQueue!Holders(j)) \in Nat
      BY <2>1, QueueCounts, HoldersFinite DEF QueueInv, TheQueue!Sound
    <2>3. CASE j \in js
      <3>1. Cardinality(TheQueue!Holders(j) \cup {w}) = Cardinality(TheQueue!Holders(j)) + 1
        BY <1>1, <2>3, FS_AddElement, HoldersFinite
      <3>2. Cardinality(TheQueue!Holders(j)) < row[j].attempts
        BY <1>1, <2>3, QueueCounts
      <3>3. TheQueue!Holders(j)' = TheQueue!Holders(j) \cup {w}
        BY <1>2, <2>3
      <3>4. Cardinality(TheQueue!Holders(j)') = Cardinality(TheQueue!Holders(j)) + 1
        BY <3>1, <3>3, Zenon
      <3>5. QED BY <2>1, <2>2, <3>2, <3>4
    <2>4. CASE j \notin js
      BY <1>2, <2>1, <2>2, <2>4
    <2>5. QED BY <2>3, <2>4
  <1>4. given' \subseteq HandOuts'
    BY <1>1 DEF QueueInv, HandOuts
  <1>5. \A g \in given' : g.job \in DOMAIN row' /\ ~TheQueue!Waiting(g.job)'
    BY <1>1 DEF QueueInv, TheQueue!Sound, TheQueue!Waiting
  <1>6. TheQueue!Sound'
    BY <1>1, <1>3, <1>5, QueueCounts DEF QueueInv, TheQueue!Sound
  <1>7. QED BY <1>1, <1>4, <1>6 DEF QueueInv

\* Every piece of work has one job unless it may be asked for again, a job that
\* was handed out is not on the queue, its attempts count those who got it, and
\* only what was handed out is ended, for any work and any finite set of workers
\* (WorkQueue, of enqueue, claimDue, complete and fail).
THEOREM QueueIsSound ==
  ASSUME IsFiniteSet(Workers)
  PROVE  TheQueue!Spec => []TheQueue!Sound
  <1>1. TheQueue!Init => QueueInv
    BY EmptySeq DEF TheQueue!Init, QueueInv, TheQueue!Sound
  <1>2. ASSUME QueueInv, [TheQueue!Next]_TheQueue!vars
        PROVE  QueueInv'
    <2>1. CASE TheQueue!Post
      BY <1>2, <2>1, PostKeeps
    <2>2. CASE TheQueue!Attempt
      BY <1>2, <2>2, AttemptKeeps
    <2>3. CASE TheQueue!HandOut
      BY <1>2, <2>3, HandOutKeeps
    <2>4. CASE TheQueue!End
      BY <1>2, <2>4, HoldersKept DEF TheQueue!End, QueueInv, TheQueue!Sound, TheQueue!Waiting, HandOuts
    <2>5. CASE UNCHANGED TheQueue!vars
      BY <1>2, <2>5, HoldersKept DEF TheQueue!vars, QueueInv, TheQueue!Sound, TheQueue!Waiting, HandOuts
    <2>6. QED BY <1>2, <2>1, <2>2, <2>3, <2>4, <2>5 DEF TheQueue!Next
  <1>3. QueueInv => TheQueue!Sound
    BY DEF QueueInv
  <1>4. QED BY <1>1, <1>2, <1>3, PTL DEF TheQueue!Spec

-----------------------------------------------------------------------------
(* Accounts and sessions. *)

AccountsSound ==
  /\ accepted = {j.by : j \in joined}
  /\ \A j, k \in joined : j.user = k.user \/ AddressOf[j.by] = AddressOf[k.by] => j = k
  /\ \A j \in joined : j.user \in members

AppointmentsSound ==
  /\ \A a \in appointed : a.user \in members
  /\ \A a, b \in appointed : a.user = b.user => a = b

\* Tickets that differ still do when one of them gets a token nobody had.
LEMMA RenewKeeps ==
  ASSUME TheAccess!TicketsSound, TheAccess!Renew
  PROVE  TheAccess!TicketsSound'
  <1>1. PICK s \in tickets, t \in tickets' \ tickets :
          /\ t.id = s.id /\ t.user = s.user /\ t.ended = s.ended
          /\ t.token \notin issued /\ issued' = issued \cup {t.token}
          /\ tickets' = (tickets \ {s}) \cup {[s EXCEPT !.token = t.token]}
          /\ UNCHANGED members
    BY DEF TheAccess!Renew, TheAccess!HandsOut
  <1>2. PICK n : n = t.token
    OBVIOUS
  <1>3. PICK new : new = [s EXCEPT !.token = n]
    OBVIOUS
  <1>4. tickets \subseteq [id: Nat, user: members, token: issued, ended: BOOLEAN]
    BY DEF TheAccess!TicketsSound, TheAccess!Ticket
  <1>5. /\ new \in [id: Nat, user: members, token: issued', ended: BOOLEAN]
        /\ new.id = s.id /\ new.token = n
    BY <1>1, <1>2, <1>3, <1>4
  <1>6. tickets' = (tickets \ {s}) \cup {new}
    BY <1>1, <1>2, <1>3
  <1>7. \A x \in tickets : x \in [id: Nat, user: members', token: issued', ended: BOOLEAN]
    BY <1>1, <1>4
  <1>8. \A x \in tickets \ {s} : x.id # new.id /\ x.token # new.token
    BY <1>1, <1>2, <1>4, <1>5 DEF TheAccess!TicketsSound
  <1>9. \A x, y \in tickets \ {s} : x.id = y.id \/ x.token = y.token => x = y
    BY DEF TheAccess!TicketsSound
  <1>10. tickets' \subseteq [id: Nat, user: members', token: issued', ended: BOOLEAN]
    BY <1>1, <1>5, <1>6, <1>7
  <1>11. \A x, y \in tickets' : x.id = y.id \/ x.token = y.token => x = y
    BY <1>6, <1>8, <1>9
  <1>12. QED BY <1>10, <1>11 DEF TheAccess!TicketsSound, TheAccess!Ticket

LEMMA OpenKeeps ==
  ASSUME TheAccess!TicketsSound, TheAccess!Open
  PROVE  TheAccess!TicketsSound'
  <1>1. PICK t \in tickets' \ tickets :
          /\ t \in [id: Nat, user: members, token: issued', ended: {FALSE}]
          /\ \A s \in tickets : s.id # t.id
          /\ t.token \notin issued /\ issued' = issued \cup {t.token}
          /\ tickets' = tickets \cup {t}
          /\ UNCHANGED members
    BY DEF TheAccess!Open, TheAccess!HandsOut
  <1>2. tickets \subseteq [id: Nat, user: members, token: issued, ended: BOOLEAN]
    BY DEF TheAccess!TicketsSound, TheAccess!Ticket
  <1>3. \A x \in tickets : x \in [id: Nat, user: members', token: issued', ended: BOOLEAN]
    BY <1>1, <1>2
  <1>4. t \in [id: Nat, user: members', token: issued', ended: BOOLEAN]
    BY <1>1
  <1>5. \A x \in tickets : x.token # t.token
    BY <1>1, <1>2
  <1>6. \A x, y \in tickets' : x.id = y.id \/ x.token = y.token => x = y
    BY <1>1, <1>5 DEF TheAccess!TicketsSound
  <1>7. tickets' \subseteq [id: Nat, user: members', token: issued', ended: BOOLEAN]
    BY <1>1, <1>3, <1>4
  <1>8. QED BY <1>6, <1>7 DEF TheAccess!TicketsSound, TheAccess!Ticket

LEMMA EndKeeps ==
  ASSUME TheAccess!TicketsSound, TheAccess!End
  PROVE  TheAccess!TicketsSound'
  <1>1. PICK scope : tickets' = TheAccess!Ended(scope)
    BY DEF TheAccess!End
  <1>2. UNCHANGED <<members, issued>>
    BY DEF TheAccess!End
  <1> DEFINE T == [id: Nat, user: members, token: issued, ended: BOOLEAN]
             after(t) == [t EXCEPT !.ended = @ \/ t \in scope]
  <1>3. tickets \subseteq T
    BY DEF TheAccess!TicketsSound, TheAccess!Ticket
  <1>4. ASSUME NEW t \in tickets
        PROVE  after(t) \in T /\ after(t).id = t.id /\ after(t).token = t.token
    <2>1. t \in T
      BY <1>3
    <2>2. PICK e \in BOOLEAN : e = (t.ended \/ t \in scope)
      OBVIOUS
    <2>3. after(t) = [t EXCEPT !.ended = e]
      BY <2>2
    <2>4. QED BY <2>1, <2>3
  <1>5. tickets' = {after(t) : t \in tickets}
    BY <1>1 DEF TheAccess!Ended
  <1> HIDE DEF after, T
  <1>6. tickets' \subseteq T
    BY <1>4, <1>5
  <1>7. \A x, y \in tickets' : x.id = y.id \/ x.token = y.token => x = y
    BY <1>4, <1>5 DEF TheAccess!TicketsSound
  <1>8. QED BY <1>2, <1>6, <1>7 DEF TheAccess!TicketsSound, TheAccess!Ticket, T

\* A new account keeps the accounts sound.
LEMMA JoinKeeps ==
  ASSUME AccountsSound, TheAccess!Join
  PROVE  AccountsSound'
  <1>1. PICK u \in Users \ members, i \in invited \ accepted :
          /\ \A j \in joined : AddressOf[j.by] # AddressOf[i]
          /\ members' = members \cup {u}
          /\ joined' = joined \cup {[user |-> u, by |-> i]}
          /\ accepted' = accepted \cup {i}
    BY DEF TheAccess!Join
  <1>2. PICK new : new = [user |-> u, by |-> i]
    OBVIOUS
  <1>3. new.user = u /\ new.by = i /\ joined' = joined \cup {new}
    BY <1>1, <1>2
  <1>4. \A j \in joined : j.user # new.user /\ AddressOf[j.by] # AddressOf[new.by]
    BY <1>1, <1>3 DEF AccountsSound
  <1>5. \A j, k \in joined' : j.user = k.user \/ AddressOf[j.by] = AddressOf[k.by] => j = k
    BY <1>3, <1>4 DEF AccountsSound
  <1>6. \A j \in joined' : j.user \in members'
    BY <1>1, <1>3 DEF AccountsSound
  <1>7. accepted' = {j.by : j \in joined'}
    BY <1>1, <1>3 DEF AccountsSound
  <1>8. QED BY <1>5, <1>6, <1>7 DEF AccountsSound

\* Sessions have numbers, users and tokens of their own, every account that was
\* asked for has its own accepted invitation and address, and nobody who is no
\* member is an operator, nor anybody twice (Access, of the tables that login,
\* refresh, logout, acceptInvite and operators.create write).
THEOREM AccessIsSound == TheAccess!Spec => []TheAccess!Sound
  <1> DEFINE Inv == TheAccess!TicketsSound /\ AccountsSound /\ AppointmentsSound
  <1>1. TheAccess!Init => Inv
    BY DEF TheAccess!Init, AccountsSound, AppointmentsSound
  <1>2. ASSUME Inv, [TheAccess!Next]_TheAccess!vars
        PROVE  Inv'
    <2>1. CASE TheAccess!Invite
      BY <1>2, <2>1 DEF TheAccess!Invite, AccountsSound, AppointmentsSound,
                        TheAccess!TicketsSound, TheAccess!Ticket
    <2>2. CASE TheAccess!Join
      <3>1. members \subseteq members' /\ UNCHANGED <<appointed, tickets, issued>>
        BY <2>2 DEF TheAccess!Join
      <3>2. AppointmentsSound'
        BY <1>2, <3>1 DEF AppointmentsSound
      <3>3. TheAccess!TicketsSound'
        BY <1>2, <3>1 DEF TheAccess!TicketsSound, TheAccess!Ticket
      <3>4. QED BY <1>2, <2>2, <3>2, <3>3, JoinKeeps
    <2>3. CASE TheAccess!Appoint
      <3>1. UNCHANGED <<members, joined, accepted, tickets, issued>>
        BY <2>3 DEF TheAccess!Appoint
      <3>2. AppointmentsSound'
        BY <1>2, <2>3 DEF TheAccess!Appoint, AppointmentsSound
      <3>3. QED BY <1>2, <3>1, <3>2 DEF AccountsSound, TheAccess!TicketsSound, TheAccess!Ticket
    <2>4. CASE TheAccess!Open
      BY <1>2, <2>4, OpenKeeps DEF TheAccess!Open, AccountsSound, AppointmentsSound
    <2>5. CASE TheAccess!Renew
      BY <1>2, <2>5, RenewKeeps DEF TheAccess!Renew, AccountsSound, AppointmentsSound
    <2>6. CASE TheAccess!End
      BY <1>2, <2>6, EndKeeps DEF TheAccess!End, AccountsSound, AppointmentsSound
    <2>7. CASE UNCHANGED TheAccess!vars
      BY <1>2, <2>7 DEF TheAccess!vars, AccountsSound, AppointmentsSound,
                        TheAccess!TicketsSound, TheAccess!Ticket
    <2>8. QED BY <1>2, <2>1, <2>2, <2>3, <2>4, <2>5, <2>6, <2>7 DEF TheAccess!Next
  <1>3. Inv => TheAccess!Sound
    BY DEF TheAccess!Sound, AccountsSound, AppointmentsSound
  <1>4. QED BY <1>1, <1>2, <1>3, PTL DEF TheAccess!Spec
=============================================================================
