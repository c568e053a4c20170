CONSTANTS
  boss = boss
  clerk = clerk
  new1 = new1
  new2 = new2
  desk = desk
  left = left
  right = right
  i1 = i1
  i2 = i2
  i3 = i3
  Users = {boss, clerk, new1, new2}
  Owner <- MCOwner
  Admins = {boss, clerk}
  Tabs = {desk, left, right}
  BrowserOf <- MCBrowserOf
  Invitations = {i1, i2, i3}
  Invited = {i1, i2}
  AddressOf <- MCAddressOf
  May <- MCMay
  MaxCalls = 3
  MaxLapses = 1
SPECIFICATION Spec
INVARIANTS TypeOK NoLateEntry NoReplay HandledOnce
PROPERTIES ImplementsAccess EveryCallEnds
CHECK_DEADLOCK FALSE
