------------------------------- MODULE Ledger -------------------------------
(***************************************************************************)
(* Money in the API: the expense workflow, salary payouts and payroll      *)
(* adjustments, the financial locks that close an event or a payroll       *)
(* period, and the transactions they post to the ledger.                   *)
(*                                                                         *)
(* Every operation reads a row, checks what it read, perhaps looks for a   *)
(* lock, and only then writes, by the row's id and unconditionally: the    *)
(* row may have changed in between.  A status and the transaction posted   *)
(* with it are written in one database transaction, which unique indexes   *)
(* on FinancialTransaction may refuse as a whole.                          *)
(***************************************************************************)
EXTENDS Integers, Sequences

CONSTANTS
  Clients,      \* callers of the API, each with one request at a time
  Expenses, Payouts, Adjustments,   \* names for the rows of three tables
  Events, Periods,                  \* what a financial lock can close
  Amounts,      \* amounts of money, all positive
  MaxCalls,     \* bound: requests in one behaviour
  NoScope,      \* the period an adjustment may leave out
  NoClaim,      \* the claim of a request that will create one
  NoRow         \* a row that does not exist

\* Expenses, payouts and adjustments are claims on the organization's money.
Claims == Expenses \cup Payouts \cup Adjustments
Scopes == Events \cup Periods \cup {NoScope}

ExpenseStatus ==
  {"DRAFT", "SUBMITTED", "UNDER_REVIEW", "APPROVED", "REJECTED", "REIMBURSED"}

\* The statuses of PayoutStatus that some operation writes.
PayoutStatus == {"DRAFT", "PAID"}

\* An adjustment has no status of its own: it is posted as it is created.
AdjustmentStatus == {"POSTED"}

StatusOf(c) ==
  CASE c \in Expenses    -> ExpenseStatus
    [] c \in Payouts     -> PayoutStatus
    [] c \in Adjustments -> AdjustmentStatus

Row == [scope: Scopes, status: ExpenseStatus \cup PayoutStatus \cup AdjustmentStatus,
        amount: Amounts]

\* The two lines of a posting, a debit and a credit, carry one amount.
Posting == [type: {"EXPENSE", "REIMBURSEMENT", "PAYROLL_PAYOUT", "ADVANCE", "DEDUCTION"},
            of: Claims, amount: Amounts]

ASSUME LedgerConstantsOK ==
  /\ Expenses \cap Payouts = {}
  /\ (Expenses \cup Payouts) \cap Adjustments = {}
  /\ Events \cap Periods = {} /\ NoScope \notin Events \cup Periods
  /\ Amounts \subseteq Nat \ {0}
  /\ MaxCalls \in Nat

ASSUME LedgerSentinels == NoRow \notin Row /\ NoClaim \notin Claims

VARIABLES
  claim,    \* the Expense, PayrollPayout and PayrollAdjustment tables
  journal,  \* the FinancialTransaction table, in the order of commits
  locked,   \* the FinancialLock table
  pc,       \* what a client's request does next
  call,     \* what it asks for, and what it read
  calls     \* requests made so far

vars == <<claim, journal, locked, pc, call, calls>>

Reviewable == {"SUBMITTED", "UNDER_REVIEW"}

\* Mutant: an expense under review may be reimbursed.
RequiresLax ==
  [update |-> {"DRAFT"},     submit    |-> {"DRAFT"},
   review |-> Reviewable,    approve   |-> Reviewable,
   reject |-> Reviewable,    reimburse |-> Reviewable \cup {"APPROVED"},
   pay    |-> {"DRAFT"}]

\* Mutant: an expense that was rejected may be edited and sent in again.
RequiresRework ==
  [update |-> {"DRAFT", "REJECTED"}, submit |-> {"DRAFT", "REJECTED"},
   review |-> Reviewable,    approve   |-> Reviewable,
   reject |-> Reviewable,    reimburse |-> {"APPROVED"},
   pay    |-> {"DRAFT"}]

\* The statuses an operation insists on when it reads the row.  payPayout
\* returns a payout it reads as PAID and changes nothing.
Requires ==
  [update |-> {"DRAFT"},     submit    |-> {"DRAFT"},
   review |-> Reviewable,    approve   |-> Reviewable,
   reject |-> Reviewable,    reimburse |-> {"APPROVED"},
   pay    |-> {"DRAFT"}]

\* Mutant: the status of a paid payout is written to the expense.
BecomesPaid ==
  [submit  |-> "SUBMITTED",  review    |-> "UNDER_REVIEW",
   approve |-> "APPROVED",   reject    |-> "REJECTED",
   pay     |-> "PAID",       reimburse |-> "PAID",
   createExpense |-> "DRAFT", createPayout |-> "DRAFT",
   advance |-> "POSTED",     deduct    |-> "POSTED"]

\* The status an operation writes, and the transaction it posts.
Becomes ==
  [submit  |-> "SUBMITTED",  review    |-> "UNDER_REVIEW",
   approve |-> "APPROVED",   reject    |-> "REJECTED",
   pay     |-> "PAID",       reimburse |-> "REIMBURSED",
   createExpense |-> "DRAFT", createPayout |-> "DRAFT",
   advance |-> "POSTED",     deduct    |-> "POSTED"]

Posts == [approve |-> "EXPENSE",        reimburse |-> "REIMBURSEMENT",
          pay     |-> "PAYROLL_PAYOUT", advance   |-> "ADVANCE",
          deduct  |-> "DEDUCTION"]

Operations == DOMAIN Requires \cup DOMAIN Becomes

Call == [op: Operations \cup {"none"}, of: Claims \cup {NoClaim},
         scope: Scopes, amount: Amounts \cup {0},
         late: BOOLEAN]   \* history: the scope was locked when it arrived

NoCall == [op |-> "none", of |-> NoClaim, scope |-> NoScope, amount |-> 0,
           late |-> FALSE]

\* Mutant: only payroll transactions carry the id of what they are posted for.
KeyedPayroll(p) == p.type \notin {"EXPENSE", "REIMBURSEMENT"}

\* A reimbursement is posted without an expenseId, which the unique index
\* would refuse; every other transaction carries the id of its claim.
Keyed(p) == p.type # "REIMBURSEMENT"

\* Mutant: no unique index on FinancialTransaction.
NeverDuplicate(p) == FALSE

\* The unique indexes on expenseId, payrollPayoutId and payrollAdjustmentId.
Duplicate(p) ==
  /\ Keyed(p)
  /\ \E i \in DOMAIN journal : Keyed(journal[i]) /\ journal[i].of = p.of

Init ==
  /\ claim = [c \in Claims |-> NoRow]
  /\ journal = <<>>
  /\ locked = {}
  /\ pc = [q \in Clients |-> "idle"]
  /\ call = [q \in Clients |-> NoCall]
  /\ calls = 0

(***************************************************************************)
(* Requests arrive.  One that is refused at its first query changes        *)
(* nothing and is left out.                                                *)
(***************************************************************************)
Begin(q, op, c, s, a, step) ==
  /\ pc[q] = "idle"
  /\ calls < MaxCalls
  /\ calls' = calls + 1
  /\ pc' = [pc EXCEPT ![q] = step]
  /\ call' = [call EXCEPT ![q] = [op |-> op, of |-> c, scope |-> s, amount |-> a,
                                  late |-> s \in locked]]
  /\ UNCHANGED <<claim, journal, locked>>

\* The first query of a request that creates a row looks for a lock.
Create(q, op, scopes) ==
  \E s \in scopes \ locked, a \in Amounts : Begin(q, op, NoClaim, s, a, "write")

CreateExpense(q) == Create(q, "createExpense", Events)
CreatePayout(q)  == Create(q, "createPayout", Periods)

\* An adjustment that names no period looks for no lock.
CreateAdjustment(q) ==
  \E op \in {"advance", "deduct"} : Create(q, op, Periods \cup {NoScope})

\* Any other request first reads its row, and uses what it read from then on.
Read(q, op, c, a, step) ==
  /\ claim[c] # NoRow
  /\ claim[c].status \in Requires[op]
  /\ Begin(q, op, c, claim[c].scope, a, step)

Update(q) ==
  \E c \in Expenses, a \in Amounts : Read(q, "update", c, a, "write")

Submit(q)  == \E c \in Expenses : Read(q, "submit", c, claim[c].amount, "write")
Review(q)  == \E c \in Expenses : Read(q, "review", c, claim[c].amount, "write")
Reject(q)  == \E c \in Expenses : Read(q, "reject", c, claim[c].amount, "write")
Approve(q) == \E c \in Expenses : Read(q, "approve", c, claim[c].amount, "write")

Reimburse(q) == \E c \in Expenses : Read(q, "reimburse", c, claim[c].amount, "lock")
PayPayout(q) == \E c \in Payouts : Read(q, "pay", c, claim[c].amount, "lock")

(***************************************************************************)
(* The later steps of a request.                                           *)
(***************************************************************************)
Finish(q) ==
  /\ pc' = [pc EXCEPT ![q] = "idle"]
  /\ call' = [call EXCEPT ![q] = NoCall]

\* Mutant: the lock of a payroll period is not looked for.
EventUnlocked(q) == call[q].scope \in Periods \/ call[q].scope \notin locked

Unlocked(q) == call[q].scope \notin locked

AssertUnlocked(q) ==
  /\ pc[q] = "lock"
  /\ \/ Unlocked(q) /\ pc' = [pc EXCEPT ![q] = "write"] /\ UNCHANGED call
     \/ ~Unlocked(q) /\ Finish(q)
  /\ UNCHANGED <<claim, journal, locked, calls>>

NewRow(q) == [scope |-> call[q].scope, status |-> Becomes[call[q].op],
              amount |-> call[q].amount]

Insert(q) ==
  /\ pc[q] = "write"
  /\ call[q].op \in {"createExpense", "createPayout"}
  /\ \E c \in IF call[q].op = "createExpense" THEN Expenses ELSE Payouts :
       /\ claim[c] = NoRow
       /\ claim' = [claim EXCEPT ![c] = NewRow(q)]
  /\ Finish(q)
  /\ UNCHANGED <<journal, locked, calls>>

WriteAmount(q) ==
  /\ pc[q] = "write"
  /\ call[q].op = "update"
  /\ claim' = [claim EXCEPT ![call[q].of].amount = call[q].amount]
  /\ Finish(q)
  /\ UNCHANGED <<journal, locked, calls>>

WriteStatus(q) ==
  /\ pc[q] = "write"
  /\ call[q].op \in {"submit", "review", "reject"}
  /\ claim' = [claim EXCEPT ![call[q].of].status = Becomes[call[q].op]]
  /\ Finish(q)
  /\ UNCHANGED <<journal, locked, calls>>

\* Mutant: a refused posting is caught, and the change of the row is kept.
PostCatching(q, c, row) ==
  LET p == [type |-> Posts[call[q].op], of |-> c, amount |-> call[q].amount]
  IN  /\ claim' = [claim EXCEPT ![c] = row]
      /\ journal' = IF Duplicate(p) THEN journal ELSE Append(journal, p)

\* One transaction: the row, and the posting with the amount that was read.
\* A posting the unique indexes refuse takes the change of the row with it.
Post(q, c, row) ==
  LET p == [type |-> Posts[call[q].op], of |-> c, amount |-> call[q].amount]
  IN  \/ /\ ~Duplicate(p)
         /\ claim' = [claim EXCEPT ![c] = row]
         /\ journal' = Append(journal, p)
      \/ /\ Duplicate(p)
         /\ UNCHANGED <<claim, journal>>

PostStatus(q) ==
  /\ pc[q] = "write"
  /\ call[q].op \in {"approve", "reimburse", "pay"}
  /\ LET c == call[q].of
     IN  Post(q, c, [claim[c] EXCEPT !.status = Becomes[call[q].op]])
  /\ Finish(q)
  /\ UNCHANGED <<locked, calls>>

PostAdjustment(q) ==
  /\ pc[q] = "write"
  /\ call[q].op \in {"advance", "deduct"}
  /\ \E c \in Adjustments : claim[c] = NoRow /\ Post(q, c, NewRow(q))
  /\ Finish(q)
  /\ UNCHANGED <<locked, calls>>

\* Mutant: without a transaction a crash keeps the status and loses the posting.
AbandonHalfway(q) ==
  /\ pc[q] # "idle"
  /\ Finish(q)
  /\ \/ UNCHANGED claim
     \/ /\ pc[q] = "write" /\ call[q].op \in {"approve", "reimburse", "pay"}
        /\ claim' = [claim EXCEPT ![call[q].of].status = Becomes[call[q].op]]
  /\ UNCHANGED <<journal, locked, calls>>

\* The request goes no further: the process dies, a transaction runs out of
\* time and is rolled back, or the event or operator it names is not found.
Abandon(q) ==
  /\ pc[q] # "idle"
  /\ Finish(q)
  /\ UNCHANGED <<claim, journal, locked, calls>>

\* A second lock of one scope is refused by a unique index.
Lock(s) ==
  /\ s \notin locked
  /\ locked' = locked \cup {s}
  /\ UNCHANGED <<claim, journal, pc, call, calls>>

Arrive(q) ==
  \/ CreateExpense(q) \/ CreatePayout(q) \/ CreateAdjustment(q)
  \/ Update(q) \/ Submit(q) \/ Review(q) \/ Reject(q) \/ Approve(q)
  \/ Reimburse(q) \/ PayPayout(q)

Advance(q) ==
  \/ AssertUnlocked(q) \/ Insert(q) \/ WriteAmount(q) \/ WriteStatus(q)
  \/ PostStatus(q) \/ PostAdjustment(q)

Next ==
  \/ \E q \in Clients : Arrive(q) \/ Advance(q) \/ Abandon(q)
  \/ \E s \in Events \cup Periods : Lock(s)

Spec == Init /\ [][Next]_vars

-----------------------------------------------------------------------------
(***************************************************************************)
(* Properties.                                                             *)
(***************************************************************************)

\* Every variable keeps its type, every row the statuses of its own table.
TypeOK ==
  /\ claim \in [Claims -> Row \cup {NoRow}]
  /\ \A c \in Claims : claim[c] # NoRow => claim[c].status \in StatusOf(c)
  /\ journal \in Seq(Posting)
  /\ locked \subseteq Events \cup Periods
  /\ pc \in [Clients -> {"idle", "lock", "write"}]
  /\ call \in [Clients -> Call]
  /\ calls \in 0 .. MaxCalls

Posted(c, types) ==
  \E i \in DOMAIN journal : journal[i].of = c /\ journal[i].type \in types

Recognising == {"EXPENSE", "PAYROLL_PAYOUT", "ADVANCE", "DEDUCTION"}

\* No claim is recognised twice, however many approvals or payments of it
\* race: each of them read the row before any of the others wrote it.
PostedOnce ==
  \A i, j \in DOMAIN journal :
    /\ journal[i].of = journal[j].of
    /\ journal[i].type \in Recognising
    /\ journal[j].type \in Recognising
    => i = j

\* The status of a row and the ledger tell one story, through crashes too.
\* An expense shown APPROVED or REIMBURSED has been posted as such, a payout
\* is PAID exactly when it has been posted, with the payout's amount, and an
\* adjustment exists exactly when it has.
RowsMatchJournal ==
  /\ \A c \in Expenses : claim[c] # NoRow =>
       /\ claim[c].status = "APPROVED" => Posted(c, {"EXPENSE"})
       /\ claim[c].status = "REIMBURSED" => Posted(c, {"REIMBURSEMENT"})
  /\ \A c \in Payouts : claim[c] # NoRow =>
       (claim[c].status = "PAID" <=> Posted(c, {"PAYROLL_PAYOUT"}))
  /\ \A c \in Adjustments :
       claim[c] # NoRow <=> Posted(c, {"ADVANCE", "DEDUCTION"})
  /\ \A i \in DOMAIN journal : LET p == journal[i] IN
       p.of \notin Expenses => claim[p.of] # NoRow /\ p.amount = claim[p.of].amount

\* Once reimbursed, an expense is never APPROVED again, so no request that
\* starts afterwards can pay it a second time: a submit or a review that read
\* the expense long before may still reopen it, but it cannot be re-approved.
NotReimbursableAgain ==
  \A c \in Expenses :
    claim[c] # NoRow /\ Posted(c, {"REIMBURSEMENT"}) => claim[c].status # "APPROVED"

\* Some request op of claim c is under way.
UnderWay(op, c) == \E q \in Clients : pc[q] # "idle" /\ call[q].op = op /\ call[q].of = c

\* The amount of an expense that was posted may still change, but only through
\* an edit that read the expense while it was a draft: when none of those is
\* under way the amount is final, whatever a late submit or reject makes of
\* the status.
AmountFinal ==
  [][\A c \in Expenses :
       Posted(c, {"EXPENSE"}) /\ ~UnderWay("update", c) =>
         ~UnderWay("update", c)' /\ claim'[c].amount = claim[c].amount]_vars

Payments(c) == {i \in DOMAIN journal : journal[i].of = c /\ journal[i].type = "REIMBURSEMENT"}

\* The cash for an expense may go out twice, but only through a reimbursement
\* that read the expense before the first one was posted: when none of those
\* is under way nothing is paid any more, whatever late submits, reviews and
\* approvals make of the status.
PaymentFinal ==
  [][\A c \in Expenses :
       Payments(c) # {} /\ ~UnderWay("reimburse", c) =>
         ~UnderWay("reimburse", c)' /\ Payments(c)' = Payments(c)]_vars

\* A request that arrives when its event or period is locked posts nothing;
\* only approve, which looks for no lock, still does.
LocksHold ==
  [][\A q \in Clients :
       /\ pc[q] = "write" /\ pc'[q] = "idle"
       /\ call[q].late /\ call[q].op # "approve"
       => journal' = journal]_vars

\* "Event financials are locked." (finance.service.ts): nothing is posted for
\* an event once it is locked, at the least by requests made afterwards.
LockedEventsAreClosed ==
  [][\A q \in Clients :
       /\ pc[q] = "write" /\ pc'[q] = "idle"
       /\ call[q].late
       => journal' = journal]_vars

\* "Only approved expenses can be reimbursed." (expenses.service.ts): one
\* that is REIMBURSED is no longer APPROVED, so its money goes out once.
ReimbursedOnce ==
  \A i, j \in DOMAIN journal :
    /\ journal[i].of = journal[j].of
    /\ journal[i].type = "REIMBURSEMENT"
    /\ journal[j].type = "REIMBURSEMENT"
    => i = j

(***************************************************************************)
(* The ledger implements the abstract books.                               *)
(***************************************************************************)
EntryOf(p) == [of |-> p.of, amount |-> p.amount]

PostedAs(types) == {i \in DOMAIN journal : journal[i].type \in types}

TheBooks ==
  INSTANCE Books
    WITH recognised <- {EntryOf(journal[i]) : i \in PostedAs(Recognising)},
         settled <- {journal[i].of :
                       i \in PostedAs({"REIMBURSEMENT", "PAYROLL_PAYOUT", "ADVANCE"})}

ImplementsBooks == TheBooks!Spec
=============================================================================
