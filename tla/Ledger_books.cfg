CONSTANTS
  Clients = {c1, c2}
  Expenses = {x1}
  Payouts = {p1}
  Adjustments = {a1}
  Events = {e1}
  Periods = {m1}
  Amounts = {1, 2}
  MaxCalls = 6
  NoScope = NoScope
  NoClaim = NoClaim
  NoRow = NoRow
SPECIFICATION Spec
INVARIANTS TypeOK PostedOnce RowsMatchJournal NotReimbursableAgain
PROPERTIES LocksHold AmountFinal PaymentFinal ImplementsBooks
SYMMETRY Symmetric
CHECK_DEADLOCK FALSE
