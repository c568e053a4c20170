CONSTANTS
  Clients = {c1, c2}
  Expenses = {x1}
  Payouts = {}
  Adjustments = {}
  Events = {e1}
  Periods = {}
  Amounts = {1}
  MaxCalls = 6
  NoScope = NoScope
  NoClaim = NoClaim
  NoRow = NoRow
SPECIFICATION Spec
INVARIANT ReimbursedOnce
CHECK_DEADLOCK FALSE
