---------------------------- MODULE LedgerProofs ----------------------------
(***************************************************************************)
(* Theorems about the ledger, for every set of clients, expenses, payouts, *)
(* adjustments, events, periods and amounts.                               *)
(***************************************************************************)
EXTENDS Ledger, TLAPS

Creators == {"createExpense", "createPayout", "advance", "deduct"}
Workers  == {"update", "submit", "review", "reject", "approve", "reimburse", "pay"}

\* What the request of q carries fits the step it is at: the row it read
\* exists, a payout is still worth what was read, an expense read as APPROVED
\* has been posted, and the lock of a scope was looked for after arrival.
CallOK(q) ==
  pc[q] # "idle" =>
    /\ call[q].op \in Creators \cup Workers
    /\ call[q].amount \in Amounts
    /\ call[q].op \in Creators => pc[q] = "write" /\ ~call[q].late
    /\ call[q].op \in Workers =>
         /\ call[q].of \in IF call[q].op = "pay" THEN Payouts ELSE Expenses
         /\ claim[call[q].of] # NoRow
         /\ call[q].op = "pay" => call[q].amount = claim[call[q].of].amount
         /\ call[q].op = "reimburse" => Posted(call[q].of, {"EXPENSE"})
    /\ pc[q] = "lock" => /\ call[q].op \in {"reimburse", "pay"}
                         /\ call[q].late => call[q].scope \in locked
    /\ pc[q] = "write" /\ call[q].late => call[q].op \notin {"reimburse", "pay"}

CallInv == \A q \in Clients : CallOK(q)

\* Transactions are posted for claims of the table their type speaks of, a
\* reimbursement only for an expense posted before, and both only for rows
\* that exist.
KindInv ==
  /\ \A i \in DOMAIN journal :
       /\ journal[i].type \in {"EXPENSE", "REIMBURSEMENT"} <=> journal[i].of \in Expenses
       /\ journal[i].type = "PAYROLL_PAYOUT" <=> journal[i].of \in Payouts
  /\ \A c \in Expenses : Posted(c, {"REIMBURSEMENT"}) => Posted(c, {"EXPENSE"})
  /\ \A c \in Claims : Posted(c, {"EXPENSE"}) => claim[c] # NoRow

BooksInv == KindInv /\ PostedOnce /\ RowsMatchJournal /\ NotReimbursableAgain

LedgerInv == TypeOK /\ CallInv /\ BooksInv

USE LedgerConstantsOK, LedgerSentinels

-----------------------------------------------------------------------------
(* What a step does to the rows and the journal. *)

\* A creator other than an adjustment enters a draft.
Inserts(c, row) ==
  /\ c \in Expenses \cup Payouts
  /\ claim[c] = NoRow
  /\ row.status = "DRAFT"
  /\ claim' = [claim EXCEPT ![c] = row]
  /\ journal' = journal

\* An update, a submit, a review or a reject rewrites an expense.
Rewrites(c, row) ==
  /\ c \in Expenses
  /\ claim[c] # NoRow
  /\ row.status \in {claim[c].status, "SUBMITTED", "UNDER_REVIEW", "REJECTED"}
  /\ claim' = [claim EXCEPT ![c] = row]
  /\ journal' = journal

\* An approval, a reimbursement, a payment or an adjustment posts p.
Enters(p, row) ==
  /\ p \in Posting
  /\ ~Duplicate(p)
  /\ claim' = [claim EXCEPT ![p.of] = row]
  /\ journal' = Append(journal, p)
  /\ \/ /\ p.type = "EXPENSE" /\ p.of \in Expenses
        /\ claim[p.of] # NoRow /\ row.status = "APPROVED"
     \/ /\ p.type = "REIMBURSEMENT" /\ p.of \in Expenses
        /\ claim[p.of] # NoRow /\ Posted(p.of, {"EXPENSE"})
        /\ row.status = "REIMBURSED"
     \/ /\ p.type = "PAYROLL_PAYOUT" /\ p.of \in Payouts
        /\ claim[p.of] # NoRow /\ row.status = "PAID"
        /\ row.amount = claim[p.of].amount /\ p.amount = row.amount
     \/ /\ p.type \in {"ADVANCE", "DEDUCTION"} /\ p.of \in Adjustments
        /\ claim[p.of] = NoRow /\ row.status = "POSTED"
        /\ p.amount = row.amount

Moves ==
  \/ UNCHANGED <<claim, journal>>
  \/ \E c \in Claims, row \in Row : Inserts(c, row) \/ Rewrites(c, row)
  \/ \E p \in Posting, row \in Row : Enters(p, row)

\* What the request of q writes when it commits.
LEMMA NewRowType ==
  ASSUME TypeOK, CallInv, NEW q \in Clients, pc[q] = "write",
         call[q].op \in Creators
  PROVE  /\ NewRow(q) \in Row
         /\ NewRow(q).amount = call[q].amount
         /\ NewRow(q).status = Becomes[call[q].op]
  <1>1. call[q].scope \in Scopes /\ call[q].amount \in Amounts
    BY DEF TypeOK, Call, CallInv, CallOK
  <1>2. Becomes[call[q].op] \in {"DRAFT", "POSTED"}
    BY DEF Creators, Becomes
  <1>3. QED BY <1>1, <1>2 DEF NewRow, Row, ExpenseStatus, AdjustmentStatus

\* The rewritten row of a request that found one.
LEMMA SetType ==
  ASSUME TypeOK, CallInv, NEW q \in Clients, pc[q] = "write",
         call[q].op \in Workers
  PROVE  /\ call[q].of \in Claims
         /\ claim[call[q].of] \in Row
         /\ [claim[call[q].of] EXCEPT !.amount = call[q].amount] \in Row
         /\ call[q].op # "update" =>
              [claim[call[q].of] EXCEPT !.status = Becomes[call[q].op]] \in Row
  <1> DEFINE c == call[q].of
  <1>1. c \in Claims /\ claim[c] # NoRow /\ call[q].amount \in Amounts
    BY DEF CallInv, CallOK, Claims
  <1>2. claim[c] \in Row
    BY <1>1 DEF TypeOK
  <1>3. call[q].op # "update" =>
          Becomes[call[q].op] \in ExpenseStatus \cup PayoutStatus
    BY DEF Workers, Becomes, ExpenseStatus, PayoutStatus
  <1>4. [claim[c] EXCEPT !.amount = call[q].amount] \in Row
    BY <1>1, <1>2 DEF Row
  <1>5. call[q].op # "update" =>
          [claim[c] EXCEPT !.status = Becomes[call[q].op]] \in Row
    BY <1>2, <1>3 DEF Row
  <1>6. QED BY <1>1, <1>2, <1>4, <1>5

\* Every step that writes is an insert, a rewrite or a posting.
LEMMA InsertMoves ==
  ASSUME TypeOK, CallInv, NEW q \in Clients, Insert(q)
  PROVE  Moves
  <1>1. PICK c \in IF call[q].op = "createExpense" THEN Expenses ELSE Payouts :
          claim[c] = NoRow /\ claim' = [claim EXCEPT ![c] = NewRow(q)]
    BY DEF Insert
  <1>2. NewRow(q) \in Row /\ NewRow(q).status = "DRAFT"
    BY NewRowType DEF Insert, Creators, Becomes
  <1>3. c \in Claims /\ Inserts(c, NewRow(q))
    BY <1>1, <1>2 DEF Inserts, Insert, Claims
  <1>4. QED BY <1>2, <1>3 DEF Moves

\* An edit, a submit, a review or a reject rewrites the expense it read.
LEMMA RewriteMoves ==
  ASSUME TypeOK, CallInv, NEW q \in Clients, WriteAmount(q) \/ WriteStatus(q)
  PROVE  Moves
  <1> DEFINE c == call[q].of
  <1>1. call[q].op \in Workers /\ call[q].op # "pay" /\ pc[q] = "write"
    BY DEF WriteAmount, WriteStatus, Workers
  <1>2. c \in Expenses /\ claim[c] # NoRow
    BY <1>1 DEF CallInv, CallOK
  <1>3. CASE WriteAmount(q)
    <2>1. Rewrites(c, [claim[c] EXCEPT !.amount = call[q].amount])
      BY <1>1, <1>2, <1>3, SetType DEF Rewrites, WriteAmount, Row, TypeOK
    <2>2. QED BY <1>1, <2>1, SetType DEF Moves
  <1>4. CASE WriteStatus(q)
    <2>1. Becomes[call[q].op] \in {"SUBMITTED", "UNDER_REVIEW", "REJECTED"}
      BY <1>4 DEF WriteStatus, Becomes
    <2>2. Rewrites(c, [claim[c] EXCEPT !.status = Becomes[call[q].op]])
      BY <1>1, <1>2, <1>4, <2>1, SetType DEF Rewrites, WriteStatus, Row, TypeOK
    <2>3. call[q].op # "update"
      BY <1>4 DEF WriteStatus
    <2>4. QED BY <1>1, <2>2, <2>3, SetType DEF Moves
  <1>5. QED BY <1>3, <1>4

\* The posting of a request that changes the status of its row.
LEMMA PostStatusMoves ==
  ASSUME TypeOK, CallInv, NEW q \in Clients, PostStatus(q)
  PROVE  Moves
  <1> DEFINE c == call[q].of
             row == [claim[c] EXCEPT !.status = Becomes[call[q].op]]
             p == [type |-> Posts[call[q].op], of |-> c, amount |-> call[q].amount]
  <1>1. /\ pc[q] = "write"
        /\ call[q].op \in {"approve", "reimburse", "pay"}
        /\ call[q].op \in Workers /\ call[q].op # "update"
    BY DEF PostStatus, Workers
  <1>2. c \in Claims /\ claim[c] \in Row /\ row \in Row
    BY <1>1, SetType
  <1>3. /\ claim[c] # NoRow /\ call[q].amount \in Amounts
        /\ c \in IF call[q].op = "pay" THEN Payouts ELSE Expenses
        /\ call[q].op = "pay" => call[q].amount = claim[c].amount
        /\ call[q].op = "reimburse" => Posted(c, {"EXPENSE"})
    BY <1>1 DEF CallInv, CallOK
  <1>4. row.status = Becomes[call[q].op] /\ row.amount = claim[c].amount
    BY <1>2 DEF Row
  <1>5. /\ call[q].op = "approve" =>
             p.type = "EXPENSE" /\ row.status = "APPROVED"
        /\ call[q].op = "reimburse" =>
             p.type = "REIMBURSEMENT" /\ row.status = "REIMBURSED"
        /\ call[q].op = "pay" =>
             p.type = "PAYROLL_PAYOUT" /\ row.status = "PAID"
    BY <1>4 DEF Posts, Becomes
  <1>6. p \in Posting /\ p.of = c /\ p.amount = call[q].amount
    BY <1>1, <1>2, <1>3, <1>5 DEF Posting
  <1>7. CASE Duplicate(p)
    BY <1>7 DEF PostStatus, Post, Moves
  <1>8. CASE ~Duplicate(p)
    <2>1. claim' = [claim EXCEPT ![c] = row] /\ journal' = Append(journal, p)
      BY <1>8 DEF PostStatus, Post
    <2>2. Enters(p, row)
      BY <2>1, <1>8, <1>1, <1>3, <1>4, <1>5, <1>6 DEF Enters
    <2>3. QED BY <2>2, <1>2, <1>6 DEF Moves
  <1>9. QED BY <1>7, <1>8

\* The posting of an adjustment, with the row it creates.
LEMMA PostAdjustmentMoves ==
  ASSUME TypeOK, CallInv, NEW q \in Clients, PostAdjustment(q)
  PROVE  Moves
  <1>1. PICK c \in Adjustments : claim[c] = NoRow /\ Post(q, c, NewRow(q))
    BY DEF PostAdjustment
  <1> DEFINE p == [type |-> Posts[call[q].op], of |-> c, amount |-> call[q].amount]
  <1>2. /\ pc[q] = "write" /\ call[q].op \in {"advance", "deduct"}
        /\ call[q].op \in Creators
    BY DEF PostAdjustment, Creators
  <1>3. /\ NewRow(q) \in Row /\ NewRow(q).amount = call[q].amount
        /\ NewRow(q).status = "POSTED"
    BY <1>2, NewRowType DEF Becomes
  <1>4. call[q].amount \in Amounts
    BY <1>2 DEF CallInv, CallOK
  <1>5. Posts[call[q].op] \in {"ADVANCE", "DEDUCTION"}
    BY <1>2 DEF Posts
  <1>6. /\ p \in Posting /\ p.of = c /\ p.amount = call[q].amount
        /\ p.type \in {"ADVANCE", "DEDUCTION"}
    BY <1>4, <1>5 DEF Posting, Claims
  <1>7. CASE Duplicate(p)
    BY <1>1, <1>7 DEF Post, Moves
  <1>8. CASE ~Duplicate(p)
    <2>1. claim' = [claim EXCEPT ![c] = NewRow(q)] /\ journal' = Append(journal, p)
      BY <1>1, <1>8 DEF Post
    <2>2. Enters(p, NewRow(q))
      BY <2>1, <1>8, <1>1, <1>3, <1>6 DEF Enters
    <2>3. QED BY <2>2, <1>3, <1>6 DEF Moves
  <1>9. QED BY <1>7, <1>8

\* Whatever the step, the rows and the journal make one of these moves.
LEMMA NextMoves ==
  ASSUME TypeOK, CallInv, [Next]_vars
  PROVE  Moves
  <1>1. CASE UNCHANGED <<claim, journal>>
    BY <1>1 DEF Moves
  <1>2. ASSUME NEW q \in Clients, Arrive(q)
        PROVE  UNCHANGED <<claim, journal>>
    BY <1>2 DEF Arrive, CreateExpense, CreatePayout, CreateAdjustment, Create, Update,
                Submit, Review, Reject, Approve, Reimburse, PayPayout, Read, Begin
  <1>3. ASSUME NEW q \in Clients, Advance(q)
        PROVE  Moves
    <2>1. CASE AssertUnlocked(q)
      BY <2>1 DEF AssertUnlocked, Moves
    <2>2. CASE Insert(q)
      BY <2>2, InsertMoves
    <2>3. CASE WriteAmount(q) \/ WriteStatus(q)
      BY <2>3, RewriteMoves
    <2>4. CASE PostStatus(q)
      BY <2>4, PostStatusMoves
    <2>5. CASE PostAdjustment(q)
      BY <2>5, PostAdjustmentMoves
    <2>6. QED BY <1>3, <2>1, <2>2, <2>3, <2>4, <2>5 DEF Advance
  <1>4. ASSUME NEW q \in Clients, Abandon(q)
        PROVE  UNCHANGED <<claim, journal>>
    BY <1>4 DEF Abandon
  <1>5. ASSUME NEW s \in Events \cup Periods, Lock(s)
        PROVE  UNCHANGED <<claim, journal>>
    BY <1>5 DEF Lock
  <1>6. CASE UNCHANGED vars
    BY <1>6 DEF vars, Moves
  <1>7. QED BY <1>1, <1>2, <1>3, <1>4, <1>5, <1>6 DEF Next

-----------------------------------------------------------------------------
(* What every step keeps. *)

\* A move appends to the journal or leaves it alone.
LEMMA AppendFacts ==
  ASSUME TypeOK, NEW p \in Posting, journal' = Append(journal, p)
  PROVE  /\ journal' \in Seq(Posting)
         /\ DOMAIN journal' = DOMAIN journal \cup {Len(journal) + 1}
         /\ Len(journal) + 1 \notin DOMAIN journal
         /\ \A i \in DOMAIN journal : journal'[i] = journal[i]
         /\ journal'[Len(journal) + 1] = p
  BY DEF TypeOK

\* What is posted after an append: what was posted before, and p.
LEMMA PostedAfter ==
  ASSUME TypeOK, NEW p \in Posting, journal' = Append(journal, p),
         NEW c, NEW types
  PROVE  Posted(c, types)' <=> Posted(c, types) \/ (p.of = c /\ p.type \in types)
  BY AppendFacts DEF Posted

\* The domain of a journal is where its elements are postings.
LEMMA JournalFacts ==
  ASSUME TypeOK
  PROVE  /\ DOMAIN journal = 1 .. Len(journal)
         /\ \A i \in DOMAIN journal : journal[i] \in Posting
  BY DEF TypeOK

\* Rows are never deleted, a payout keeps its amount, a posting stays.
LEMMA MovesKeep ==
  ASSUME TypeOK, Moves
  PROVE  /\ \A c \in Claims : claim[c] # NoRow => claim'[c] # NoRow
         /\ \A c \in Payouts : claim[c] # NoRow => claim'[c].amount = claim[c].amount
         /\ \A c, types : Posted(c, types) => Posted(c, types)'
  <1> SUFFICES ASSUME \/ UNCHANGED <<claim, journal>>
                      \/ \E c \in Claims, row \in Row : Inserts(c, row) \/ Rewrites(c, row)
                      \/ \E p \in Posting, row \in Row : Enters(p, row)
               PROVE  /\ \A c \in Claims : claim[c] # NoRow => claim'[c] # NoRow
                      /\ \A c \in Payouts : claim[c] # NoRow =>
                           claim'[c].amount = claim[c].amount
                      /\ \A c, types : Posted(c, types) => Posted(c, types)'
    BY DEF Moves
  <1>1. CASE UNCHANGED <<claim, journal>>
    BY <1>1 DEF Posted
  <1>2. ASSUME NEW c \in Claims, NEW row \in Row, Inserts(c, row) \/ Rewrites(c, row)
        PROVE  /\ \A d \in Claims : claim[d] # NoRow => claim'[d] # NoRow
               /\ \A d \in Payouts : claim[d] # NoRow => claim'[d].amount = claim[d].amount
               /\ \A d, types : Posted(d, types) => Posted(d, types)'
    <2>1. \A d \in Claims : claim'[d] = IF d = c THEN row ELSE claim[d]
      BY <1>2 DEF Inserts, Rewrites, TypeOK
    <2>2. journal' = journal
      BY <1>2 DEF Inserts, Rewrites
    <2>3. c \in Expenses \/ claim[c] = NoRow
      BY <1>2 DEF Inserts, Rewrites
    <2>4. QED BY <2>1, <2>2, <2>3 DEF Posted, Claims
  <1>3. ASSUME NEW p \in Posting, NEW row \in Row, Enters(p, row)
        PROVE  /\ \A d \in Claims : claim[d] # NoRow => claim'[d] # NoRow
               /\ \A d \in Payouts : claim[d] # NoRow => claim'[d].amount = claim[d].amount
               /\ \A d, types : Posted(d, types) => Posted(d, types)'
    <2>1. \A d \in Claims : claim'[d] = IF d = p.of THEN row ELSE claim[d]
      BY <1>3 DEF Enters, TypeOK
    <2>2. p.of \in Payouts => claim[p.of] = NoRow \/ row.amount = claim[p.of].amount
      BY <1>3 DEF Enters
    <2>3. \A d, types : Posted(d, types) => Posted(d, types)'
      BY <1>3, PostedAfter DEF Enters
    <2>4. QED BY <2>1, <2>2, <2>3 DEF Claims
  <1>4. QED BY <1>1, <1>2, <1>3

\* Rows and postings keep their types.
LEMMA MovesType ==
  ASSUME TypeOK, Moves
  PROVE  /\ claim' \in [Claims -> Row \cup {NoRow}]
         /\ \A c \in Claims : claim'[c] # NoRow => claim'[c].status \in StatusOf(c)
         /\ journal' \in Seq(Posting)
  <1> DEFINE Good == /\ claim' \in [Claims -> Row \cup {NoRow}]
                     /\ \A c \in Claims : claim'[c] # NoRow =>
                                            claim'[c].status \in StatusOf(c)
                     /\ journal' \in Seq(Posting)
  <1>1. ASSUME UNCHANGED <<claim, journal>>
        PROVE  Good
    BY <1>1 DEF TypeOK
  <1>2. ASSUME NEW c \in Claims, NEW row \in Row, Inserts(c, row) \/ Rewrites(c, row)
        PROVE  Good
    <2>1. claim' = [claim EXCEPT ![c] = row] /\ journal' = journal
      BY <1>2 DEF Inserts, Rewrites
    <2>2. row.status \in StatusOf(c)
      BY <1>2 DEF Inserts, Rewrites, StatusOf, ExpenseStatus, PayoutStatus, TypeOK
    <2>3. QED BY <2>1, <2>2 DEF TypeOK
  <1>3. ASSUME NEW p \in Posting, NEW row \in Row, Enters(p, row)
        PROVE  Good
    <2>1. claim' = [claim EXCEPT ![p.of] = row]
      BY <1>3 DEF Enters
    <2>2. row.status \in StatusOf(p.of)
      BY <1>3 DEF Enters, StatusOf, ExpenseStatus, PayoutStatus, AdjustmentStatus
    <2>3. journal' \in Seq(Posting)
      BY <1>3, AppendFacts DEF Enters
    <2>4. QED BY <2>1, <2>2, <2>3 DEF TypeOK
  <1> HIDE DEF Good
  <1>4. Good
    BY <1>1, <1>2, <1>3 DEF Moves
  <1>5. QED BY <1>4 DEF Good

-----------------------------------------------------------------------------
(* Types, and what requests carry. *)

\* A call that begins carries what its type says.
LEMMA BeginType ==
  ASSUME TypeOK, NEW q \in Clients, NEW op \in Operations,
         NEW c \in Claims \cup {NoClaim}, NEW s \in Scopes, NEW a \in Amounts,
         NEW step \in {"lock", "write"}, Begin(q, op, c, s, a, step)
  PROVE  /\ pc' \in [Clients -> {"idle", "lock", "write"}]
         /\ call' \in [Clients -> Call]
         /\ calls' \in 0 .. MaxCalls
         /\ locked' = locked
         /\ pc' = [pc EXCEPT ![q] = step]
         /\ call' = [call EXCEPT ![q] = [op |-> op, of |-> c, scope |-> s,
                                         amount |-> a, late |-> s \in locked]]
  BY DEF Begin, TypeOK, Call

\* The operations of both kinds are operations.
LEMMA OperationsOK == Creators \cup Workers \subseteq Operations
  BY DEF Creators, Workers, Operations, Requires, Becomes

\* A request that creates a row begins with an amount and an open scope; any
\* other with a row it has read.
Creates(q, op, s, a) ==
  /\ op \in Creators /\ s \in Scopes \ locked /\ a \in Amounts
  /\ Begin(q, op, NoClaim, s, a, "write")

Reads(q, op, c, a, step) ==
  /\ op \in Workers /\ a \in Amounts
  /\ c \in IF op = "pay" THEN Payouts ELSE Expenses
  /\ claim[c] # NoRow
  /\ claim[c].status \in Requires[op]
  /\ op = "pay" => a = claim[c].amount
  /\ step = IF op \in {"reimburse", "pay"} THEN "lock" ELSE "write"
  /\ Begin(q, op, c, claim[c].scope, a, step)

\* The ten operations begin in one of the two ways.
LEMMA ArriveShape ==
  ASSUME TypeOK, NEW q \in Clients, Arrive(q)
  PROVE  \/ \E op \in Creators, s \in Scopes, a \in Amounts : Creates(q, op, s, a)
         \/ \E op \in Workers, c \in Claims, a \in Amounts, step \in {"lock", "write"} :
              Reads(q, op, c, a, step)
  <1> DEFINE C == \E op \in Creators, s \in Scopes, a \in Amounts : Creates(q, op, s, a)
             R == \E op \in Workers, c \in Claims, a \in Amounts,
                     step \in {"lock", "write"} : Reads(q, op, c, a, step)
  <1>1. ASSUME NEW op \in Creators, NEW scopes \in SUBSET Scopes, Create(q, op, scopes)
        PROVE  C
    BY <1>1 DEF Create, Creates
  <1>2. ASSUME NEW op \in Workers, op # "pay", NEW c \in Expenses, NEW a \in Amounts,
               Read(q, op, c, a, IF op = "reimburse" THEN "lock" ELSE "write")
        PROVE  R
    <2>1. Reads(q, op, c, a, IF op = "reimburse" THEN "lock" ELSE "write")
      BY <1>2 DEF Read, Reads
    <2>2. QED BY <2>1 DEF Claims
  <1>3. ASSUME NEW c \in Payouts, Read(q, "pay", c, claim[c].amount, "lock")
        PROVE  R
    <2>1. claim[c].amount \in Amounts
      BY <1>3 DEF Read, TypeOK, Claims, Row
    <2>2. Reads(q, "pay", c, claim[c].amount, "lock")
      BY <1>3, <2>1 DEF Read, Reads, Workers
    <2>3. QED BY <2>1, <2>2 DEF Claims, Workers
  <1>4. \A c \in Expenses : claim[c] # NoRow => claim[c].amount \in Amounts
    BY DEF TypeOK, Claims, Row
  <1>5. CASE CreateExpense(q) \/ CreatePayout(q) \/ CreateAdjustment(q)
    BY <1>5, <1>1 DEF CreateExpense, CreatePayout, CreateAdjustment, Creators, Scopes
  <1>6. CASE Update(q)
    BY <1>6, <1>2 DEF Update, Workers
  <1>7. CASE Submit(q) \/ Review(q) \/ Reject(q) \/ Approve(q) \/ Reimburse(q)
    <2>1. PICK c \in Expenses, op \in Workers :
            /\ op # "pay"
            /\ Read(q, op, c, claim[c].amount, IF op = "reimburse" THEN "lock" ELSE "write")
      BY <1>7 DEF Submit, Review, Reject, Approve, Reimburse, Workers
    <2>2. claim[c].amount \in Amounts
      BY <2>1, <1>4 DEF Read
    <2>3. QED BY <2>1, <2>2, <1>2
  <1>8. CASE PayPayout(q)
    BY <1>8, <1>3 DEF PayPayout
  <1>9. QED BY <1>5, <1>6, <1>7, <1>8 DEF Arrive

\* Types are kept by every step.
LEMMA NextType ==
  ASSUME TypeOK, CallInv, [Next]_vars
  PROVE  TypeOK'
  <1> DEFINE Rest == /\ locked' \subseteq Events \cup Periods
                     /\ pc' \in [Clients -> {"idle", "lock", "write"}]
                     /\ call' \in [Clients -> Call]
                     /\ calls' \in 0 .. MaxCalls
  <1>1. ASSUME NEW q \in Clients, Finish(q), locked' = locked, calls' = calls
        PROVE  Rest
    <2>1. NoCall \in Call
      BY DEF NoCall, Call, Scopes
    <2>2. QED BY <1>1, <2>1 DEF Finish, TypeOK
  <1>2. ASSUME NEW q \in Clients, Arrive(q)
        PROVE  Rest
    <2>1. CASE \E op \in Creators, s \in Scopes, a \in Amounts : Creates(q, op, s, a)
      <3>1. PICK op \in Creators, s \in Scopes, a \in Amounts : Creates(q, op, s, a)
        BY <2>1
      <3>2. QED BY <3>1, BeginType, OperationsOK DEF Creates, TypeOK
    <2>2. CASE \E op \in Workers, c \in Claims, a \in Amounts, step \in {"lock", "write"} :
                 Reads(q, op, c, a, step)
      <3>1. PICK op \in Workers, c \in Claims, a \in Amounts, step \in {"lock", "write"} :
              Reads(q, op, c, a, step)
        BY <2>2
      <3>2. claim[c].scope \in Scopes
        BY <3>1 DEF Reads, TypeOK, Row
      <3>3. Begin(q, op, c, claim[c].scope, a, step)
        BY <3>1 DEF Reads
      <3>4. QED BY <3>2, <3>3, BeginType, OperationsOK DEF TypeOK
    <2>3. QED BY <1>2, <2>1, <2>2, ArriveShape
  <1>3. ASSUME NEW q \in Clients, Advance(q)
        PROVE  Rest
    <2>1. CASE Finish(q)
      BY <1>1, <1>3, <2>1 DEF Advance, AssertUnlocked, Insert, WriteAmount, WriteStatus,
                              PostStatus, PostAdjustment
    <2>2. CASE AssertUnlocked(q) /\ pc' = [pc EXCEPT ![q] = "write"] /\ UNCHANGED call
      BY <2>2 DEF AssertUnlocked, TypeOK
    <2>3. QED
      BY <1>3, <2>1, <2>2 DEF Advance, AssertUnlocked, Insert, WriteAmount, WriteStatus,
                              PostStatus, PostAdjustment
  <1>4. ASSUME NEW q \in Clients, Abandon(q)
        PROVE  Rest
    BY <1>1, <1>4 DEF Abandon
  <1>5. ASSUME NEW s \in Events \cup Periods, Lock(s)
        PROVE  Rest
    BY <1>5 DEF Lock, TypeOK
  <1>6. ASSUME UNCHANGED vars
        PROVE  Rest
    BY <1>6 DEF vars, TypeOK
  <1> HIDE DEF Rest
  <1>7. Rest
    BY <1>2, <1>3, <1>4, <1>5, <1>6 DEF Next
  <1>8. QED BY <1>7, NextMoves, MovesType DEF Rest, TypeOK

\* What a waiting request read stays true while others move.
LEMMA CallKept ==
  ASSUME TypeOK, Moves, locked \subseteq locked', NEW q \in Clients, CallOK(q),
         pc'[q] = pc[q], call'[q] = call[q]
  PROVE  CallOK(q)'
  <1>1. \A c \in Claims : claim[c] # NoRow => claim'[c] # NoRow
    BY MovesKeep
  <1>2. \A c \in Payouts : claim[c] # NoRow => claim'[c].amount = claim[c].amount
    BY MovesKeep
  <1>3. \A c \in Claims : Posted(c, {"EXPENSE"}) => Posted(c, {"EXPENSE"})'
    BY MovesKeep
  <1>4. pc[q] # "idle" /\ call[q].op = "reimburse" => Posted(call[q].of, {"EXPENSE"})'
    <2>1. SUFFICES ASSUME pc[q] # "idle", call[q].op = "reimburse"
                   PROVE  Posted(call[q].of, {"EXPENSE"})'
      OBVIOUS
    <2>2. call[q].of \in Claims /\ Posted(call[q].of, {"EXPENSE"})
      BY <2>1 DEF CallOK, Workers, Claims
    <2>3. PICK c \in Claims : c = call[q].of
      BY <2>2
    <2>4. Posted(c, {"EXPENSE"})'
      BY <1>3, <2>2, <2>3
    <2>5. QED BY <2>3, <2>4 DEF Posted
  <1>5. QED BY <1>1, <1>2, <1>4 DEF CallOK, Claims

\* A request that has just arrived carries what it read.
LEMMA CallBegins ==
  ASSUME TypeOK, RowsMatchJournal, NEW q \in Clients, Arrive(q)
  PROVE  CallOK(q)'
  <1>1. UNCHANGED <<claim, journal, locked>>
    BY DEF Arrive, CreateExpense, CreatePayout, CreateAdjustment, Create, Update,
           Submit, Review, Reject, Approve, Reimburse, PayPayout, Read, Begin
  <1>2. \A c, types : Posted(c, types)' <=> Posted(c, types)
    BY <1>1 DEF Posted
  <1>3. ASSUME NEW op \in Creators, NEW s \in Scopes, NEW a \in Amounts,
               Creates(q, op, s, a)
        PROVE  CallOK(q)'
    <2>1. /\ pc' = [pc EXCEPT ![q] = "write"]
          /\ call' = [call EXCEPT ![q] = [op |-> op, of |-> NoClaim, scope |-> s,
                                          amount |-> a, late |-> s \in locked]]
      BY <1>3 DEF Creates, Begin
    <2>2. /\ pc'[q] = "write"
          /\ call'[q].op = op
          /\ call'[q].amount = a
          /\ ~call'[q].late
      BY <1>3, <2>1 DEF Creates, TypeOK
    <2>3. op \notin Workers
      BY <1>3 DEF Creators, Workers
    <2>4. QED BY <1>3, <2>2, <2>3 DEF CallOK, Creates
  <1>4. ASSUME NEW op \in Workers, NEW c \in Claims, NEW a \in Amounts,
               NEW step \in {"lock", "write"}, Reads(q, op, c, a, step)
        PROVE  CallOK(q)'
    <2>1. claim[c].scope \in Scopes
      BY <1>4 DEF Reads, TypeOK, Row
    <2>2. /\ pc' = [pc EXCEPT ![q] = step]
           /\ call' = [call EXCEPT ![q] =
                          [op |-> op, of |-> c, scope |-> claim[c].scope,
                           amount |-> a, late |-> claim[c].scope \in locked]]
      BY <1>4 DEF Reads, Begin
    <2>3. /\ pc'[q] = step
          /\ call'[q].op = op /\ call'[q].of = c
          /\ call'[q].amount = a /\ call'[q].scope = claim[c].scope
          /\ call'[q].late <=> claim[c].scope \in locked
      BY <2>2 DEF TypeOK
    <2>4. op \notin Creators
      BY <1>4 DEF Creators, Workers
    <2>5. op = "reimburse" => Posted(c, {"EXPENSE"})'
      <3>1. SUFFICES ASSUME op = "reimburse"
                     PROVE  Posted(c, {"EXPENSE"})
        BY <1>2
      <3>2. c \in Expenses /\ claim[c] # NoRow /\ claim[c].status = "APPROVED"
        BY <1>4, <3>1 DEF Reads, Requires
      <3>3. QED BY <3>2 DEF RowsMatchJournal
    <2>6. op = "reimburse" => Posted(call[q].of, {"EXPENSE"})'
      BY <2>3, <2>5 DEF Posted
    <2>7. QED BY <1>1, <1>4, <2>3, <2>4, <2>5, <2>6 DEF CallOK, Reads
  <1>5. QED BY <1>3, <1>4, ArriveShape

\* Every step leaves every request with what it needs.
LEMMA NextCalls ==
  ASSUME TypeOK, CallInv, RowsMatchJournal, [Next]_vars
  PROVE  CallInv'
  <1>1. Moves
    BY NextMoves
  <1>2. ASSUME NEW q \in Clients, CallOK(q), locked' = locked,
               \/ pc'[q] = pc[q] /\ call'[q] = call[q]
               \/ pc'[q] = "idle"
        PROVE  CallOK(q)'
    BY <1>1, <1>2, CallKept DEF CallOK
  <1>3. ASSUME NEW r \in Clients, Finish(r), locked' = locked
        PROVE  CallInv'
    BY <1>2, <1>3 DEF Finish, CallInv, TypeOK
  <1>4. ASSUME NEW r \in Clients, Arrive(r)
        PROVE  CallInv'
    <2>1. CallOK(r)'
      BY <1>4, CallBegins
    <2>2. /\ locked' = locked
          /\ \A q \in Clients \ {r} : pc'[q] = pc[q] /\ call'[q] = call[q]
      BY <1>4 DEF Arrive, CreateExpense, CreatePayout, CreateAdjustment, Create, Update,
                  Submit, Review, Reject, Approve, Reimburse, PayPayout, Read, Begin, TypeOK
    <2>3. QED BY <2>1, <2>2, <1>2 DEF CallInv
  <1>5. ASSUME NEW r \in Clients, AssertUnlocked(r)
        PROVE  CallInv'
    <2>1. CASE Finish(r)
      BY <1>3, <1>5, <2>1 DEF AssertUnlocked
    <2>2. CASE Unlocked(r) /\ pc' = [pc EXCEPT ![r] = "write"] /\ UNCHANGED call
      <3>1. UNCHANGED <<claim, journal, locked>> /\ pc[r] = "lock"
        BY <1>5 DEF AssertUnlocked
      <3>2. CallOK(r)'
        <4>1. pc'[r] = "write" /\ CallOK(r) /\ call' = call
          BY <2>2 DEF TypeOK, CallInv
        <4>2. call[r].op \in Workers /\ call[r].op \notin Creators
          BY <3>1, <4>1 DEF CallOK, Workers, Creators
        <4>3. ~call[r].late
          BY <2>2, <3>1, <4>1 DEF CallOK, Unlocked
        <4>4. call[r].op = "reimburse" => Posted(call[r].of, {"EXPENSE"})'
          BY <3>1, <4>1, <4>2 DEF CallOK, Posted
        <4>5. QED BY <3>1, <4>1, <4>2, <4>3, <4>4 DEF CallOK
      <3>3. \A q \in Clients \ {r} : pc'[q] = pc[q] /\ call'[q] = call[q]
        BY <2>2 DEF TypeOK
      <3>4. QED BY <1>2, <3>1, <3>2, <3>3 DEF CallInv
    <2>3. QED BY <1>5, <2>1, <2>2 DEF AssertUnlocked
  <1>6. ASSUME NEW r \in Clients, Advance(r)
        PROVE  CallInv'
    BY <1>3, <1>5, <1>6 DEF Advance, Insert, WriteAmount, WriteStatus, PostStatus,
                            PostAdjustment
  <1>7. ASSUME NEW r \in Clients, Abandon(r)
        PROVE  CallInv'
    BY <1>3, <1>7 DEF Abandon
  <1>8. ASSUME NEW s \in Events \cup Periods, Lock(s)
        PROVE  CallInv'
    <2>1. locked \subseteq locked' /\ pc' = pc /\ call' = call
      BY <1>8 DEF Lock
    <2>2. QED BY <1>1, <2>1, CallKept DEF CallInv
  <1>9. CASE UNCHANGED vars
    BY <1>2, <1>9 DEF vars, CallInv
  <1>10. QED BY <1>4, <1>6, <1>7, <1>8, <1>9 DEF Next

-----------------------------------------------------------------------------
(* The books. *)

\* The tables are apart.
LEMMA Apart ==
  /\ \A c \in Expenses : c \in Claims /\ c \notin Payouts /\ c \notin Adjustments
  /\ \A c \in Payouts : c \in Claims /\ c \notin Expenses /\ c \notin Adjustments
  /\ \A c \in Adjustments : c \in Claims /\ c \notin Expenses /\ c \notin Payouts
  BY DEF Claims

\* A claim that is posted as something keyed cannot be posted so again.
LEMMA NoDuplicate ==
  ASSUME TypeOK, NEW p \in Posting, ~Duplicate(p), p.type # "REIMBURSEMENT",
         NEW i \in DOMAIN journal, journal[i].of = p.of
  PROVE  journal[i].type = "REIMBURSEMENT"
  BY DEF Duplicate, Keyed

\* Inserts and rewrites leave the books consistent.
LEMMA RowsKeepBooks ==
  ASSUME TypeOK, BooksInv, NEW c \in Claims, NEW row \in Row,
         Inserts(c, row) \/ Rewrites(c, row)
  PROVE  BooksInv'
  <1>1. /\ journal' = journal
        /\ \A d \in Claims : claim'[d] = IF d = c THEN row ELSE claim[d]
    BY DEF Inserts, Rewrites, TypeOK
  <1>2. \A d, types : Posted(d, types)' <=> Posted(d, types)
    BY <1>1 DEF Posted
  <1>3. PostedOnce'
    BY <1>1 DEF BooksInv, PostedOnce
  <1>4. KindInv'
    BY <1>1, <1>2 DEF BooksInv, KindInv
  <1>5. NotReimbursableAgain'
    <2>1. SUFFICES ASSUME NEW d \in Expenses, claim'[d] # NoRow,
                          Posted(d, {"REIMBURSEMENT"})
                   PROVE  claim'[d].status # "APPROVED"
      BY <1>2 DEF NotReimbursableAgain
    <2>2. QED BY <1>1, <2>1, Apart DEF BooksInv, NotReimbursableAgain, Inserts, Rewrites
  <1>6. RowsMatchJournal'
    <2>1. c \in Payouts => Inserts(c, row)
      BY Apart DEF Rewrites
    <2>2. c \notin Adjustments
      BY Apart DEF Inserts, Rewrites
    <2>3. Inserts(c, row) => claim[c] = NoRow /\ row.status = "DRAFT"
      BY DEF Inserts
    <2>4. \A d \in Expenses : claim'[d] # NoRow =>
            /\ claim'[d].status = "APPROVED" => Posted(d, {"EXPENSE"})
            /\ claim'[d].status = "REIMBURSED" => Posted(d, {"REIMBURSEMENT"})
      BY <1>1, Apart DEF BooksInv, RowsMatchJournal, Inserts, Rewrites
    <2>5. \A i \in DOMAIN journal : journal[i].of \notin Expenses =>
            journal[i].of \in Claims /\ journal[i].of # c
      BY <2>1, <2>3, JournalFacts DEF BooksInv, RowsMatchJournal, Inserts, Rewrites, Posting
    <2>6. \A d \in Payouts : claim'[d] # NoRow =>
            (claim'[d].status = "PAID" <=> Posted(d, {"PAYROLL_PAYOUT"}))
      BY <1>1, <2>1, <2>3, <2>5, Apart DEF BooksInv, RowsMatchJournal, Posted
    <2>7. \A d \in Adjustments :
            claim'[d] # NoRow <=> Posted(d, {"ADVANCE", "DEDUCTION"})
      BY <1>1, <2>2, Apart DEF BooksInv, RowsMatchJournal
    <2>8. \A i \in DOMAIN journal : journal[i].of \notin Expenses =>
            claim'[journal[i].of] # NoRow /\ journal[i].amount = claim'[journal[i].of].amount
      BY <1>1, <2>5 DEF BooksInv, RowsMatchJournal
    <2>9. QED BY <1>1, <1>2, <2>4, <2>6, <2>7, <2>8 DEF RowsMatchJournal
  <1>7. QED BY <1>3, <1>4, <1>5, <1>6 DEF BooksInv

\* A posting leaves each claim recognised at most once.
LEMMA EntersPostsOnce ==
  ASSUME TypeOK, BooksInv, NEW p \in Posting, NEW row \in Row, Enters(p, row)
  PROVE  PostedOnce'
  <1>1. /\ journal' \in Seq(Posting)
        /\ DOMAIN journal' = DOMAIN journal \cup {Len(journal) + 1}
        /\ \A i \in DOMAIN journal : journal'[i] = journal[i]
        /\ journal'[Len(journal) + 1] = p
    BY AppendFacts DEF Enters
  <1>2. SUFFICES ASSUME NEW i \in DOMAIN journal', NEW j \in DOMAIN journal',
                        journal'[i].of = journal'[j].of,
                        journal'[i].type \in Recognising, journal'[j].type \in Recognising
                 PROVE  i = j
    BY DEF PostedOnce
  <1>3. p.type \in Recognising =>
          \A k \in DOMAIN journal : journal[k].of = p.of => journal[k].type \notin Recognising
    BY NoDuplicate DEF Recognising, Enters
  <1>4. CASE i \in DOMAIN journal /\ j \in DOMAIN journal
    BY <1>1, <1>2, <1>4 DEF BooksInv, PostedOnce
  <1>5. CASE i = Len(journal) + 1 \/ j = Len(journal) + 1
    BY <1>1, <1>2, <1>3, <1>5
  <1>6. QED BY <1>1, <1>4, <1>5

\* A posting is of the kind its claim calls for.
LEMMA EntersKeepsKinds ==
  ASSUME TypeOK, BooksInv, NEW p \in Posting, NEW row \in Row, Enters(p, row)
  PROVE  KindInv'
  <1>1. /\ DOMAIN journal' = DOMAIN journal \cup {Len(journal) + 1}
        /\ \A i \in DOMAIN journal : journal'[i] = journal[i]
        /\ journal'[Len(journal) + 1] = p
    BY AppendFacts DEF Enters
  <1>2. \A c \in Claims : claim'[c] = IF c = p.of THEN row ELSE claim[c]
    BY DEF Enters, TypeOK
  <1>3. \A c, types : Posted(c, types)' <=> Posted(c, types) \/ (p.of = c /\ p.type \in types)
    BY PostedAfter DEF Enters
  <1>4. /\ p.type \in {"EXPENSE", "REIMBURSEMENT"} <=> p.of \in Expenses
        /\ p.type = "PAYROLL_PAYOUT" <=> p.of \in Payouts
        /\ p.type = "REIMBURSEMENT" => Posted(p.of, {"EXPENSE"})
    BY Apart DEF Enters
  <1>5. \A i \in DOMAIN journal' :
          /\ journal'[i].type \in {"EXPENSE", "REIMBURSEMENT"} <=> journal'[i].of \in Expenses
          /\ journal'[i].type = "PAYROLL_PAYOUT" <=> journal'[i].of \in Payouts
    BY <1>1, <1>4 DEF BooksInv, KindInv
  <1>6. \A c \in Expenses : Posted(c, {"REIMBURSEMENT"})' => Posted(c, {"EXPENSE"})'
    BY <1>3, <1>4 DEF BooksInv, KindInv
  <1>7. \A c \in Claims : Posted(c, {"EXPENSE"})' => claim'[c] # NoRow
    BY <1>2, <1>3 DEF BooksInv, KindInv
  <1>8. QED BY <1>5, <1>6, <1>7 DEF KindInv

\* An approval is refused once the expense has been posted, and so once it has
\* been reimbursed.
LEMMA EntersNeverReapproves ==
  ASSUME TypeOK, BooksInv, NEW p \in Posting, NEW row \in Row, Enters(p, row)
  PROVE  NotReimbursableAgain'
  <1>1. \A c \in Claims : claim'[c] = IF c = p.of THEN row ELSE claim[c]
    BY DEF Enters, TypeOK
  <1>2. SUFFICES ASSUME NEW c \in Expenses, claim'[c] # NoRow,
                        Posted(c, {"REIMBURSEMENT"})'
                 PROVE  claim'[c].status # "APPROVED"
    BY DEF NotReimbursableAgain
  <1>3. Posted(c, {"REIMBURSEMENT"}) \/ (p.of = c /\ p.type = "REIMBURSEMENT")
    BY <1>2, PostedAfter DEF Enters
  <1>4. CASE p.of = c
    <2>1. CASE p.type = "EXPENSE"
      <3>1. Posted(c, {"EXPENSE"})
        BY <1>3, <2>1 DEF BooksInv, KindInv
      <3>2. Duplicate(p)
        BY <1>4, <2>1, <3>1 DEF Posted, Duplicate, Keyed
      <3>3. QED BY <3>2 DEF Enters
    <2>2. CASE p.type # "EXPENSE"
      BY <1>1, <1>4, <2>2, Apart DEF Enters
    <2>3. QED BY <2>1, <2>2
  <1>5. CASE p.of # c
    BY <1>1, <1>2, <1>3, <1>5, Apart DEF BooksInv, NotReimbursableAgain
  <1>6. QED BY <1>4, <1>5

\* A posting and the row it comes with tell one story.
LEMMA EntersMatches ==
  ASSUME TypeOK, BooksInv, NEW p \in Posting, NEW row \in Row, Enters(p, row)
  PROVE  RowsMatchJournal'
  <1>1. /\ DOMAIN journal' = DOMAIN journal \cup {Len(journal) + 1}
        /\ \A i \in DOMAIN journal : journal'[i] = journal[i]
        /\ journal'[Len(journal) + 1] = p
    BY AppendFacts DEF Enters
  <1>2. \A c \in Claims : claim'[c] = IF c = p.of THEN row ELSE claim[c]
    BY DEF Enters, TypeOK
  <1>3. \A c, types : Posted(c, types)' <=> Posted(c, types) \/ (p.of = c /\ p.type \in types)
    BY PostedAfter DEF Enters
  <1>4. row # NoRow
    BY DEF Row
  <1>5. \A c \in Expenses : claim'[c] # NoRow =>
          /\ claim'[c].status = "APPROVED" => Posted(c, {"EXPENSE"})'
          /\ claim'[c].status = "REIMBURSED" => Posted(c, {"REIMBURSEMENT"})'
    <2>1. SUFFICES ASSUME NEW c \in Expenses, claim'[c] # NoRow
                   PROVE  /\ claim'[c].status = "APPROVED" => Posted(c, {"EXPENSE"})'
                          /\ claim'[c].status = "REIMBURSED" =>
                               Posted(c, {"REIMBURSEMENT"})'
      OBVIOUS
    <2>2. CASE p.of = c
      <3>1. /\ row.status = "APPROVED" => p.type = "EXPENSE"
            /\ row.status = "REIMBURSED" => p.type = "REIMBURSEMENT"
        BY DEF Enters
      <3>2. QED BY <1>2, <1>3, <2>2, <3>1, Apart
    <2>3. CASE p.of # c
      BY <1>2, <1>3, <2>1, <2>3, Apart DEF BooksInv, RowsMatchJournal
    <2>4. QED BY <2>2, <2>3
  <1>6. \A c \in Payouts : claim'[c] # NoRow =>
          (claim'[c].status = "PAID" <=> Posted(c, {"PAYROLL_PAYOUT"})')
    <2>1. p.of \in Payouts => p.type = "PAYROLL_PAYOUT" /\ row.status = "PAID"
      BY Apart DEF Enters
    <2>2. QED BY <1>2, <1>3, <2>1, Apart DEF BooksInv, RowsMatchJournal
  <1>7. \A c \in Adjustments : claim'[c] # NoRow <=> Posted(c, {"ADVANCE", "DEDUCTION"})'
    <2>1. p.of \in Adjustments => p.type \in {"ADVANCE", "DEDUCTION"}
      BY Apart DEF Enters
    <2>2. QED BY <1>2, <1>3, <1>4, <2>1, Apart DEF BooksInv, RowsMatchJournal
  <1>8. \A i \in DOMAIN journal' : journal'[i].of \notin Expenses =>
          claim'[journal'[i].of] # NoRow /\ journal'[i].amount = claim'[journal'[i].of].amount
    <2>1. SUFFICES ASSUME NEW i \in DOMAIN journal', journal'[i].of \notin Expenses
                   PROVE  /\ claim'[journal'[i].of] # NoRow
                          /\ journal'[i].amount = claim'[journal'[i].of].amount
      OBVIOUS
    <2>2. CASE i \notin DOMAIN journal
      <3>1. journal'[i] = p
        BY <1>1, <2>2
      <3>2. p.of \in Claims /\ p.amount = row.amount
        BY <2>1, <3>1 DEF Enters, Posting
      <3>3. QED BY <1>2, <1>4, <3>1, <3>2
    <2>3. CASE i \in DOMAIN journal
      <3>1. journal'[i] = journal[i] /\ journal[i].of \in Claims
        BY <1>1, <2>3, JournalFacts DEF Posting
      <3>2. /\ claim[journal[i].of] # NoRow
            /\ journal[i].amount = claim[journal[i].of].amount
        BY <2>1, <2>3, <3>1 DEF BooksInv, RowsMatchJournal
      <3>3. journal[i].of = p.of => row.amount = claim[p.of].amount
        BY <2>1, <3>1, <3>2 DEF Enters
      <3>4. QED BY <1>2, <1>4, <3>1, <3>2, <3>3
    <2>4. QED BY <2>2, <2>3
  <1>9. QED BY <1>5, <1>6, <1>7, <1>8 DEF RowsMatchJournal

\* The books stay consistent through every step.
LEMMA NextBooks ==
  ASSUME TypeOK, CallInv, BooksInv, [Next]_vars
  PROVE  BooksInv'
  <1>1. CASE UNCHANGED <<claim, journal>>
    <2>1. \A c, types : Posted(c, types)' <=> Posted(c, types)
      BY <1>1 DEF Posted
    <2>2. QED BY <1>1, <2>1 DEF BooksInv, KindInv, PostedOnce, RowsMatchJournal,
                                NotReimbursableAgain
  <1>2. ASSUME NEW p \in Posting, NEW row \in Row, Enters(p, row)
        PROVE  BooksInv'
    BY <1>2, EntersPostsOnce, EntersKeepsKinds, EntersNeverReapproves, EntersMatches
       DEF BooksInv
  <1>3. QED BY <1>1, <1>2, NextMoves, RowsKeepBooks DEF Moves

\* Everything the theorems need holds initially: no rows, no transactions.
LEMMA InitInv ==
  ASSUME Init
  PROVE  LedgerInv
  <1>1. NoCall \in Call
    BY DEF NoCall, Call, Scopes
  <1>2. TypeOK
    BY <1>1 DEF Init, TypeOK
  <1>3. CallInv
    BY DEF Init, CallInv, CallOK
  <1>4. DOMAIN journal = {}
    BY DEF Init
  <1>5. \A c, types : ~Posted(c, types)
    BY <1>4 DEF Posted
  <1>6. BooksInv
    BY <1>4, <1>5, Apart DEF Init, BooksInv, KindInv, PostedOnce, RowsMatchJournal,
                             NotReimbursableAgain
  <1>7. QED BY <1>2, <1>3, <1>6 DEF LedgerInv

\* LedgerInv is inductive.
LEMMA LedgerInvariant == Spec => []LedgerInv
  <1>1. LedgerInv /\ [Next]_vars => LedgerInv'
    BY NextType, NextCalls, NextBooks DEF LedgerInv, BooksInv
  <1>2. QED BY InitInv, <1>1, PTL DEF Spec

-----------------------------------------------------------------------------
\* Every variable keeps its type, every row the statuses of its own table.
THEOREM LedgerTypeCorrect == Spec => []TypeOK
  <1>1. LedgerInv => TypeOK
    BY DEF LedgerInv
  <1>2. QED BY <1>1, LedgerInvariant, PTL

\* No expense, payout or adjustment is recognised twice, however requests race.
THEOREM ClaimsPostedOnce == Spec => []PostedOnce
  <1>1. LedgerInv => PostedOnce
    BY DEF LedgerInv, BooksInv
  <1>2. QED BY <1>1, LedgerInvariant, PTL

\* Rows and ledger tell one story, through races, refusals and crashes.
THEOREM RowsMatch == Spec => []RowsMatchJournal
  <1>1. LedgerInv => RowsMatchJournal
    BY DEF LedgerInv, BooksInv
  <1>2. QED BY <1>1, LedgerInvariant, PTL

\* A reimbursed expense is never approved again.
THEOREM NoReapproval == Spec => []NotReimbursableAgain
  <1>1. LedgerInv => NotReimbursableAgain
    BY DEF LedgerInv, BooksInv
  <1>2. QED BY <1>1, LedgerInvariant, PTL

\* A request that arrives at a lock posts nothing, unless it is an approval.
THEOREM LocksAreHeld == Spec => LocksHold
  <1> DEFINE Held == \A q \in Clients :
                       /\ pc[q] = "write" /\ pc'[q] = "idle"
                       /\ call[q].late /\ call[q].op # "approve"
                       => journal' = journal
  <1>1. ASSUME LedgerInv, Next
        PROVE  Held
    <2>1. SUFFICES ASSUME NEW q \in Clients, pc[q] = "write", pc'[q] = "idle",
                          call[q].late, call[q].op # "approve"
                   PROVE  journal' = journal
      OBVIOUS
    <2>2. call[q].op \in Workers \ {"approve", "reimburse", "pay"}
      BY <1>1, <2>1 DEF LedgerInv, CallInv, CallOK
    <2>3. ASSUME NEW r \in Clients, Finish(r)
          PROVE  r = q
      BY <1>1, <2>1, <2>3 DEF Finish, LedgerInv, TypeOK
    <2>4. ASSUME NEW r \in Clients, PostStatus(r) \/ PostAdjustment(r)
          PROVE  FALSE
      BY <2>2, <2>3, <2>4 DEF PostStatus, PostAdjustment, Workers
    <2>5. ASSUME NEW r \in Clients, Arrive(r)
          PROVE  journal' = journal
      BY <2>5 DEF Arrive, CreateExpense, CreatePayout, CreateAdjustment, Create, Update,
                  Submit, Review, Reject, Approve, Reimburse, PayPayout, Read, Begin
    <2>6. ASSUME NEW r \in Clients, Advance(r)
          PROVE  journal' = journal
      BY <2>4, <2>6 DEF Advance, AssertUnlocked, Insert, WriteAmount, WriteStatus
    <2>7. QED BY <1>1, <2>5, <2>6 DEF Next, Abandon, Lock
  <1>2. ASSUME LedgerInv, [Next]_vars
        PROVE  [Held]_vars
    BY <1>1, <1>2
  <1> HIDE DEF Held
  <1>3. Spec => [][Held]_vars
    BY <1>2, LedgerInvariant, PTL DEF Spec
  <1>4. QED BY <1>3 DEF Held, LocksHold

-----------------------------------------------------------------------------
(* When the amount of an expense is final. *)

\* An expense that was posted has left its draft for good.
NoDraftPosted == \A c \in Expenses : Posted(c, {"EXPENSE"}) => claim[c].status # "DRAFT"

LEMMA NoDraftStep ==
  ASSUME LedgerInv, NoDraftPosted, [Next]_vars
  PROVE  NoDraftPosted'
  <1>0. TypeOK /\ Moves /\ KindInv
    BY NextMoves DEF LedgerInv, BooksInv
  <1>1. CASE UNCHANGED <<claim, journal>>
    BY <1>1 DEF NoDraftPosted, Posted
  <1>2. ASSUME NEW c \in Claims, NEW row \in Row, Inserts(c, row) \/ Rewrites(c, row)
        PROVE  NoDraftPosted'
    <2>1. \A d, types : Posted(d, types)' <=> Posted(d, types)
      BY <1>2 DEF Inserts, Rewrites, Posted
    <2>2. \A d \in Claims : claim'[d] = IF d = c THEN row ELSE claim[d]
      BY <1>0, <1>2 DEF Inserts, Rewrites, TypeOK
    <2>3. ASSUME NEW d \in Expenses, Posted(d, {"EXPENSE"})
          PROVE  claim'[d].status # "DRAFT"
      <3>1. claim[d] # NoRow /\ claim[d].status # "DRAFT" /\ d \in Claims
        BY <1>0, <2>3, Apart DEF KindInv, NoDraftPosted
      <3>2. CASE d # c
        BY <2>2, <3>1, <3>2
      <3>3. CASE d = c
        BY <1>2, <2>2, <3>1, <3>3 DEF Inserts, Rewrites
      <3>4. QED BY <3>2, <3>3
    <2>4. QED BY <2>1, <2>3 DEF NoDraftPosted
  <1>3. ASSUME NEW p \in Posting, NEW row \in Row, Enters(p, row)
        PROVE  NoDraftPosted'
    <2>1. journal' = Append(journal, p) /\ p.of \in Claims
      BY <1>3 DEF Enters, Posting
    <2>2. \A d \in Claims : claim'[d] = IF d = p.of THEN row ELSE claim[d]
      BY <1>0, <1>3 DEF Enters, TypeOK
    <2>3. ASSUME NEW d \in Expenses, Posted(d, {"EXPENSE"})'
          PROVE  claim'[d].status # "DRAFT"
      <3>1. CASE d = p.of
        BY <1>3, <2>2, <3>1, Apart DEF Enters
      <3>2. CASE d # p.of
        <4>1. Posted(d, {"EXPENSE"})
          BY <1>0, <2>1, <2>3, <3>2, PostedAfter
        <4>2. QED BY <2>2, <3>2, <4>1, Apart DEF NoDraftPosted
      <3>3. QED BY <3>1, <3>2
    <2>4. QED BY <2>3 DEF NoDraftPosted
  <1>4. QED BY <1>0, <1>1, <1>2, <1>3 DEF Moves

LEMMA NoDraftInvariant == Spec => []NoDraftPosted
  <1>1. Init => NoDraftPosted
    BY DEF Init, NoDraftPosted, Posted
  <1>2. LedgerInv /\ NoDraftPosted /\ [Next]_vars => NoDraftPosted'
    BY NoDraftStep
  <1>3. QED BY <1>1, <1>2, LedgerInvariant, PTL DEF Spec

\* A request keeps its call until it is over, so one that is new has just read
\* the expense in a status it insists on.
LEMMA BeginsWithRead ==
  ASSUME TypeOK, Next, NEW op \in Workers, NEW c \in Expenses, ~UnderWay(op, c), UnderWay(op, c)'
  PROVE  claim[c] # NoRow /\ claim[c].status \in Requires[op]
  <1>1. PICK q \in Clients : pc'[q] # "idle" /\ call'[q].op = op /\ call'[q].of = c
    BY DEF UnderWay
  <1>2. pc \in [Clients -> {"idle", "lock", "write"}] /\ call \in [Clients -> Call]
    BY DEF TypeOK
  <1>3. pc[q] = "idle" \/ call'[q] # call[q]
    BY <1>1 DEF UnderWay
  <1>4. ASSUME NEW r \in Clients, Advance(r) \/ Abandon(r) PROVE FALSE
    <2>1. /\ \A x \in Clients \ {r} : pc'[x] = pc[x] /\ call'[x] = call[x]
          /\ pc[r] # "idle"
          /\ pc'[r] = "idle" \/ call' = call
      BY <1>2, <1>4 DEF Advance, Abandon, AssertUnlocked, Insert, WriteAmount, WriteStatus,
                        PostStatus, PostAdjustment, Finish
    <2>2. QED BY <1>1, <1>3, <2>1
  <1>5. ASSUME NEW r \in Clients, Arrive(r)
        PROVE  claim[c] # NoRow /\ claim[c].status \in Requires[op]
    <2>1. ASSUME NEW o, NEW d, NEW s, NEW a, NEW step, Begin(r, o, d, s, a, step)
          PROVE  o = op /\ d = c
      <3>1. /\ \A x \in Clients \ {r} : pc'[x] = pc[x] /\ call'[x] = call[x]
            /\ call'[r] = [op |-> o, of |-> d, scope |-> s, amount |-> a, late |-> s \in locked]
        BY <1>2, <2>1 DEF Begin
      <3>2. QED BY <1>1, <1>3, <3>1
    <2>2. ASSUME NEW o \in Creators, NEW s \in Scopes, NEW a \in Amounts, Creates(r, o, s, a)
          PROVE  FALSE
      BY <2>1, <2>2 DEF Creates, Creators, Workers
    <2>3. ASSUME NEW o \in Workers, NEW d \in Claims, NEW a \in Amounts, NEW step \in {"lock", "write"},
                 Reads(r, o, d, a, step)
          PROVE  claim[c] # NoRow /\ claim[c].status \in Requires[op]
      <3>1. o = op /\ d = c
        BY <2>1, <2>3 DEF Reads
      <3>2. QED BY <2>3, <3>1 DEF Reads
    <2>4. QED BY <1>5, <2>2, <2>3, ArriveShape
  <1>6. ASSUME NEW s \in Events \cup Periods, Lock(s) PROVE FALSE
    BY <1>1, <1>3, <1>6 DEF Lock
  <1>7. QED BY <1>4, <1>5, <1>6 DEF Next

\* Only an edit writes another amount to a row that is there.
LEMMA AmountKept ==
  ASSUME LedgerInv, Next, NEW c \in Expenses, Posted(c, {"EXPENSE"}), ~UnderWay("update", c)
  PROVE  claim'[c].amount = claim[c].amount
  <1>1. /\ TypeOK /\ CallInv /\ claim[c] # NoRow /\ c \in Claims /\ claim[c] \in Row
    BY Apart DEF LedgerInv, BooksInv, KindInv, TypeOK
  <1>2. CASE claim' = claim
    BY <1>2
  <1>3. ASSUME NEW q \in Clients, Insert(q) PROVE claim'[c] = claim[c]
    BY <1>1, <1>3 DEF Insert
  <1>4. ASSUME NEW q \in Clients, WriteAmount(q) PROVE claim'[c] = claim[c]
    <2>1. call[q].of # c
      BY <1>4 DEF WriteAmount, UnderWay
    <2>2. QED BY <1>1, <1>4, <2>1 DEF WriteAmount, TypeOK
  <1>5. ASSUME NEW q \in Clients, WriteStatus(q) PROVE claim'[c].amount = claim[c].amount
    <2>1. CASE call[q].of # c
      BY <1>1, <1>5, <2>1 DEF WriteStatus, TypeOK
    <2>2. CASE call[q].of = c
      <3>1. claim'[c] = [claim[c] EXCEPT !.status = Becomes[call[q].op]]
        BY <1>1, <1>5, <2>2 DEF WriteStatus, TypeOK
      <3>2. QED BY <1>1, <3>1 DEF Row
    <2>3. QED BY <2>1, <2>2
  <1>6. ASSUME NEW q \in Clients, PostStatus(q) PROVE claim'[c].amount = claim[c].amount
    <2>1. \/ claim' = claim
          \/ claim' = [claim EXCEPT ![call[q].of] =
                         [claim[call[q].of] EXCEPT !.status = Becomes[call[q].op]]]
      BY <1>6 DEF PostStatus, Post
    <2>2. CASE call[q].of # c
      BY <1>1, <2>1, <2>2 DEF TypeOK
    <2>3. CASE call[q].of = c /\ claim' # claim
      <3>1. claim'[c] = [claim[c] EXCEPT !.status = Becomes[call[q].op]]
        BY <1>1, <2>1, <2>3 DEF TypeOK
      <3>2. QED BY <1>1, <3>1 DEF Row
    <2>4. QED BY <2>2, <2>3
  <1>7. ASSUME NEW q \in Clients, PostAdjustment(q) PROVE claim'[c] = claim[c]
    <2>1. PICK d \in Adjustments : claim' = claim \/ claim' = [claim EXCEPT ![d] = NewRow(q)]
      BY <1>7 DEF PostAdjustment, Post
    <2>2. QED BY <1>1, <2>1, Apart DEF TypeOK
  <1>8. ASSUME NEW q \in Clients, Arrive(q) \/ AssertUnlocked(q) \/ Abandon(q) PROVE claim' = claim
    BY <1>8 DEF Arrive, CreateExpense, CreatePayout, CreateAdjustment, Create, Update, Submit, Review,
                Reject, Approve, Reimburse, PayPayout, Read, Begin, AssertUnlocked, Abandon
  <1>9. QED BY <1>2, <1>3, <1>4, <1>5, <1>6, <1>7, <1>8 DEF Next, Advance, Lock

\* The amount of an expense that was posted is final as soon as no edit that
\* read its draft is under way: no draft is ever made of a posted expense.
THEOREM AmountsAreFinal == Spec => AmountFinal
  <1> DEFINE Final == \A c \in Expenses : Posted(c, {"EXPENSE"}) /\ ~UnderWay("update", c) =>
                         ~UnderWay("update", c)' /\ claim'[c].amount = claim[c].amount
  <1>1. ASSUME LedgerInv, NoDraftPosted, Next
        PROVE  Final
    <2> SUFFICES ASSUME NEW c \in Expenses, Posted(c, {"EXPENSE"}), ~UnderWay("update", c)
                 PROVE  ~UnderWay("update", c)' /\ claim'[c].amount = claim[c].amount
      OBVIOUS
    <2>1. claim[c].status \notin Requires["update"] /\ "update" \in Workers
      BY <1>1 DEF NoDraftPosted, Requires, Workers
    <2>2. ~UnderWay("update", c)'
      BY <1>1, <2>1, BeginsWithRead DEF LedgerInv
    <2>3. QED BY <1>1, <2>2, AmountKept
  <1>2. LedgerInv /\ NoDraftPosted /\ [Next]_vars => [Final]_vars
    BY <1>1
  <1> HIDE DEF Final
  <1>3. Spec => [][Final]_vars
    BY <1>2, LedgerInvariant, NoDraftInvariant, PTL DEF Spec
  <1>4. QED BY <1>3 DEF Final, AmountFinal

-----------------------------------------------------------------------------
(* When the payment of an expense is final. *)

LEMMA PaymentsAfter ==
  ASSUME TypeOK, NEW p \in Posting, journal' = Append(journal, p), NEW c,
         p.type = "REIMBURSEMENT" => p.of # c
  PROVE  Payments(c)' = Payments(c)
  BY AppendFacts DEF Payments

\* Only a reimbursement pays, and only the expense it read.
LEMMA PaymentsKept ==
  ASSUME LedgerInv, Next, NEW c \in Expenses, ~UnderWay("reimburse", c)
  PROVE  Payments(c)' = Payments(c)
  <1>1. TypeOK /\ CallInv
    BY DEF LedgerInv
  <1>2. ASSUME journal' = journal PROVE Payments(c)' = Payments(c)
    BY <1>2 DEF Payments
  <1>3. ASSUME NEW q \in Clients, PostStatus(q) PROVE Payments(c)' = Payments(c)
    <2> DEFINE p == [type |-> Posts[call[q].op], of |-> call[q].of, amount |-> call[q].amount]
    <2>1. /\ pc[q] = "write" /\ call[q].op \in {"approve", "reimburse", "pay"}
          /\ call[q].op \in Workers /\ call[q].op # "update"
      BY <1>3 DEF PostStatus, Workers
    <2>2. call[q].of \in Claims /\ call[q].amount \in Amounts
      BY <1>1, <2>1, SetType DEF CallInv, CallOK
    <2>3. p \in Posting /\ p.of = call[q].of /\ (p.type = "REIMBURSEMENT" => call[q].op = "reimburse")
      BY <2>1, <2>2 DEF Posts, Posting
    <2>4. call[q].op = "reimburse" => call[q].of # c
      BY <2>1 DEF UnderWay
    <2>5. journal' = journal \/ journal' = Append(journal, p)
      BY <1>3 DEF PostStatus, Post
    <2> HIDE DEF p
    <2>6. QED BY <1>1, <1>2, <2>3, <2>4, <2>5, PaymentsAfter
  <1>4. ASSUME NEW q \in Clients, PostAdjustment(q) PROVE Payments(c)' = Payments(c)
    <2>1. PICK d \in Adjustments : Post(q, d, NewRow(q))
      BY <1>4 DEF PostAdjustment
    <2> DEFINE p == [type |-> Posts[call[q].op], of |-> d, amount |-> call[q].amount]
    <2>2. pc[q] = "write" /\ call[q].op \in {"advance", "deduct"}
      BY <1>4 DEF PostAdjustment
    <2>3. call[q].amount \in Amounts
      BY <1>1, <2>2 DEF CallInv, CallOK
    <2>4. p \in Posting /\ p.type # "REIMBURSEMENT"
      BY <2>2, <2>3 DEF Posts, Posting, Claims
    <2>5. journal' = journal \/ journal' = Append(journal, p)
      BY <2>1 DEF Post
    <2> HIDE DEF p
    <2>6. QED BY <1>1, <1>2, <2>4, <2>5, PaymentsAfter
  <1>5. ASSUME NEW q \in Clients, \/ Arrive(q) \/ AssertUnlocked(q) \/ Insert(q) \/ WriteAmount(q)
                                  \/ WriteStatus(q) \/ Abandon(q)
        PROVE  journal' = journal
    BY <1>5 DEF Arrive, CreateExpense, CreatePayout, CreateAdjustment, Create, Update, Submit, Review,
                Reject, Approve, Reimburse, PayPayout, Read, Begin, AssertUnlocked, Insert, WriteAmount,
                WriteStatus, Abandon
  <1>6. ASSUME NEW s \in Events \cup Periods, Lock(s) PROVE journal' = journal
    BY <1>6 DEF Lock
  <1>7. QED BY <1>2, <1>3, <1>4, <1>5, <1>6 DEF Next, Advance

\* An expense is paid again only by a reimbursement that read it before it was
\* paid: a paid expense is never APPROVED again, so no other can begin.
THEOREM PaymentsAreFinal == Spec => PaymentFinal
  <1> DEFINE Final == \A c \in Expenses : Payments(c) # {} /\ ~UnderWay("reimburse", c) =>
                         ~UnderWay("reimburse", c)' /\ Payments(c)' = Payments(c)
  <1>1. ASSUME LedgerInv, Next
        PROVE  Final
    <2> SUFFICES ASSUME NEW c \in Expenses, Payments(c) # {}, ~UnderWay("reimburse", c)
                 PROVE  ~UnderWay("reimburse", c)' /\ Payments(c)' = Payments(c)
      OBVIOUS
    <2>1. Posted(c, {"REIMBURSEMENT"}) /\ "reimburse" \in Workers
      BY DEF Payments, Posted, Workers
    <2>2. claim[c] # NoRow => claim[c].status \notin Requires["reimburse"]
      BY <1>1, <2>1 DEF LedgerInv, BooksInv, NotReimbursableAgain, Requires
    <2>3. ~UnderWay("reimburse", c)'
      BY <1>1, <2>1, <2>2, BeginsWithRead DEF LedgerInv
    <2>4. QED BY <1>1, <2>3, PaymentsKept
  <1>2. LedgerInv /\ [Next]_vars => [Final]_vars
    BY <1>1
  <1> HIDE DEF Final
  <1>3. Spec => [][Final]_vars
    BY <1>2, LedgerInvariant, PTL DEF Spec
  <1>4. QED BY <1>3 DEF Final, PaymentFinal

-----------------------------------------------------------------------------
(* The refinement of the abstract books. *)

Recognised == {EntryOf(journal[i]) : i \in PostedAs(Recognising)}
Settled == {journal[i].of : i \in PostedAs({"REIMBURSEMENT", "PAYROLL_PAYOUT", "ADVANCE"})}

\* What an append adds to the books.
LEMMA BooksAfter ==
  ASSUME TypeOK, NEW p \in Posting, journal' = Append(journal, p)
  PROVE  /\ Recognised' = IF p.type \in Recognising
                          THEN Recognised \cup {EntryOf(p)} ELSE Recognised
         /\ Settled' = IF p.type \in {"REIMBURSEMENT", "PAYROLL_PAYOUT", "ADVANCE"}
                       THEN Settled \cup {p.of} ELSE Settled
  <1>1. /\ DOMAIN journal' = DOMAIN journal \cup {Len(journal) + 1}
        /\ \A i \in DOMAIN journal : journal'[i] = journal[i]
        /\ journal'[Len(journal) + 1] = p
        /\ Len(journal) + 1 \notin DOMAIN journal
    BY AppendFacts
  <1>2. ASSUME NEW types
        PROVE  PostedAs(types)' = IF p.type \in types
                                  THEN PostedAs(types) \cup {Len(journal) + 1}
                                  ELSE PostedAs(types)
    BY <1>1 DEF PostedAs
  <1>3. \A types : PostedAs(types) \subseteq DOMAIN journal
    BY DEF PostedAs
  <1>4. Recognised' = IF p.type \in Recognising
                      THEN Recognised \cup {EntryOf(p)} ELSE Recognised
    <2>1. Recognised' = {EntryOf(journal'[i]) : i \in PostedAs(Recognising)'}
      BY DEF Recognised, Recognising, EntryOf
    <2>2. PostedAs(Recognising)' = IF p.type \in Recognising
                                   THEN PostedAs(Recognising) \cup {Len(journal) + 1}
                                   ELSE PostedAs(Recognising)
      BY <1>2 DEF Recognising
    <2>3. \A i \in PostedAs(Recognising) : EntryOf(journal'[i]) = EntryOf(journal[i])
      BY <1>1, <1>3
    <2>4. EntryOf(journal'[Len(journal) + 1]) = EntryOf(p)
      BY <1>1
    <2>5. QED BY <2>1, <2>2, <2>3, <2>4 DEF Recognised
  <1>5. Settled' = IF p.type \in {"REIMBURSEMENT", "PAYROLL_PAYOUT", "ADVANCE"}
                   THEN Settled \cup {p.of} ELSE Settled
    <2> DEFINE T == {"REIMBURSEMENT", "PAYROLL_PAYOUT", "ADVANCE"}
    <2>1. Settled' = {journal'[i].of : i \in PostedAs(T)'}
      BY DEF Settled
    <2>2. PostedAs(T)' = IF p.type \in T THEN PostedAs(T) \cup {Len(journal) + 1}
                         ELSE PostedAs(T)
      BY <1>2
    <2>3. QED BY <1>1, <1>3, <2>1, <2>2 DEF Settled
  <1>6. QED BY <1>4, <1>5

\* The abstract books with these values.
NotYet(c) == ~ \E n \in Recognised : n.of = c

\* A posting is a step of the abstract books.
LEMMA EntersIsBookkeeping ==
  ASSUME TypeOK, BooksInv, NEW p \in Posting, NEW row \in Row, Enters(p, row)
  PROVE  TheBooks!Next
  <1>1. /\ Recognised' = IF p.type \in Recognising
                         THEN Recognised \cup {EntryOf(p)} ELSE Recognised
        /\ Settled' = IF p.type \in {"REIMBURSEMENT", "PAYROLL_PAYOUT", "ADVANCE"}
                      THEN Settled \cup {p.of} ELSE Settled
    BY BooksAfter DEF Enters
  <1>2. EntryOf(p) \in TheBooks!Entry /\ EntryOf(p).of = p.of
    BY DEF Posting, EntryOf, TheBooks!Entry
  <1>3. p.type # "REIMBURSEMENT" => NotYet(p.of)
    <2>1. SUFFICES ASSUME p.type # "REIMBURSEMENT", NEW n \in Recognised, n.of = p.of
                   PROVE  FALSE
      BY DEF NotYet
    <2>2. PICK i \in DOMAIN journal : journal[i].type \in Recognising /\ n = EntryOf(journal[i])
      BY <2>1 DEF Recognised, PostedAs
    <2>3. journal[i].of = p.of
      BY <2>1, <2>2 DEF EntryOf
    <2>4. QED BY <2>1, <2>2, <2>3, NoDuplicate DEF Recognising, Enters
  <1>4. CASE p.type \in {"EXPENSE", "DEDUCTION"}
    <2>1. Recognised' = Recognised \cup {EntryOf(p)} /\ Settled' = Settled
      BY <1>1, <1>4 DEF Recognising
    <2>2. NotYet(EntryOf(p).of)
      BY <1>2, <1>3, <1>4
    <2>3. TheBooks!Recognise
      BY <1>2, <2>1, <2>2 DEF TheBooks!Recognise, TheBooks!IsRecognised, Recognised, Settled,
                              NotYet
    <2>4. QED BY <2>3 DEF TheBooks!Next
  <1>5. CASE p.type \in {"PAYROLL_PAYOUT", "ADVANCE"}
    <2>1. Recognised' = Recognised \cup {EntryOf(p)} /\ Settled' = Settled \cup {p.of}
      BY <1>1, <1>5 DEF Recognising
    <2>2. NotYet(EntryOf(p).of)
      BY <1>2, <1>3, <1>5
    <2>3. TheBooks!Pay
      BY <1>2, <2>1, <2>2 DEF TheBooks!Pay, TheBooks!IsRecognised, Recognised, Settled,
                              NotYet
    <2>4. QED BY <2>3 DEF TheBooks!Next
  <1>6. CASE p.type = "REIMBURSEMENT"
    <2>1. Recognised' = Recognised /\ Settled' = Settled \cup {p.of}
      BY <1>1, <1>6 DEF Recognising
    <2>2. PICK i \in DOMAIN journal : journal[i].of = p.of /\ journal[i].type = "EXPENSE"
      BY <1>6 DEF Enters, Posted
    <2>3. EntryOf(journal[i]) \in Recognised /\ EntryOf(journal[i]).of = p.of
      BY <2>2 DEF Recognised, PostedAs, Recognising, EntryOf
    <2>4. TheBooks!Settle
      BY <2>1, <2>3 DEF TheBooks!Settle, Recognised, Settled
    <2>5. QED BY <2>4 DEF TheBooks!Next
  <1>7. QED BY <1>4, <1>5, <1>6 DEF Posting

\* The ledger keeps the books it promises.
THEOREM LedgerImplementsBooks == Spec => ImplementsBooks
  <1>1. Init => TheBooks!Init
    BY DEF Init, TheBooks!Init, PostedAs
  <1>2. ASSUME LedgerInv, [Next]_vars
        PROVE  TheBooks!Next \/ UNCHANGED <<Recognised, Settled>>
    <2>1. CASE journal' = journal
      BY <2>1 DEF Recognised, Settled, PostedAs
    <2>2. ASSUME NEW p \in Posting, NEW row \in Row, Enters(p, row)
          PROVE  TheBooks!Next
      BY <1>2, <2>2, EntersIsBookkeeping DEF LedgerInv
    <2>3. QED BY <1>2, <2>1, <2>2, NextMoves DEF LedgerInv, Moves, Inserts, Rewrites
  <1>3. LedgerInv /\ [Next]_vars => [TheBooks!Next]_(TheBooks!vars)
    BY <1>2 DEF TheBooks!vars, Recognised, Settled
  <1>4. QED BY <1>1, <1>3, LedgerInvariant, PTL DEF Spec, ImplementsBooks, TheBooks!Spec
=============================================================================
