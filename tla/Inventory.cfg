CONSTANTS
  d1 = d1
  r1 = r1
  s1 = s1
  s2 = s2
  p1 = p1
  api = api
  cron = cron
  ann = ann
  ben = ben
  Assets = {d1, r1, s1, s2}
  KindOf <- MCKindOf
  First <- MCFirst
  Pages = {p1}
  Shows <- MCShows
  MayCreate = {p1}
  MayEdit = {p1}
  Names = {"n2"}
  Words = {"gold"}
  Callers = {api, cron}
  May <- MCMay
  People = {ann, ben}
  Hits <- MCHits
  PageSize = 1
  MaxCalls = 2
  MaxReloads = 1
  MaxFaults = 1
SPECIFICATION Spec
INVARIANTS TypeOK NamesUnique ValuesStayWithAsset NoStaleTable TransfersClose
CHECK_DEADLOCK FALSE
