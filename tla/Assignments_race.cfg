CONSTANTS
  Requests = {q1, q2, q3}
  MaxItems = 1
  Events = {e1, e2}
  anna = anna
  boris = boris
  cam = cam
  Resources = {anna, cam}
  ResourceType <- TypeOfResource
  Unfit = {}
  Schedules <- TwoSchedules
  DtoRanges <- WholeEvent
  DtoStatuses = {"RESERVED", "ACTIVE"}
  Bulks <- NoBulks
  Maintenance <- NoMaintenance
  AdminStatuses = {}
  MaxEdits = 0
  AuditMayFail = FALSE
  NoTime = NoTime
  NoRow = NoRow
SPECIFICATION Spec
INVARIANTS NoOverlap
PROPERTIES HistoryIsFinal ImplementsReservations
SYMMETRY Symmetric
CHECK_DEADLOCK FALSE
