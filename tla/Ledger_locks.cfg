CONSTANTS
  Clients = {c1}
  Expenses = {x1}
  Payouts = {}
  Adjustments = {}
  Events = {e1}
  Periods = {}
  Amounts = {1}
  MaxCalls = 4
  NoScope = NoScope
  NoClaim = NoClaim
  NoRow = NoRow
SPECIFICATION Spec
PROPERTY LockedEventsAreClosed
CHECK_DEADLOCK FALSE
