CONSTANTS
  ann = ann
  ben = ben
  admin = admin
  web = web
  w1 = w1
  w2 = w2
  r1 = r1
  r2 = r2
  Users = {ann, ben}
  Workers = {w1, w2}
  Rules = {r1, r2}
  Ready = {r1}
  Due = {r1, r2}
  Clients = {admin, web}
  May <- MCMay
  Serves <- MCServes
  Take = 2
  Outcomes <- MCOutcomes
  MaxCalls = 1
  MaxFaults = 1
  MaxRows = 3
SPECIFICATION Spec
INVARIANTS TypeOK OneJobEach MarkedRunsAreQueued ReadByOwner
PROPERTIES ImplementsQueue EveryJobClaimed
CHECK_DEADLOCK FALSE
