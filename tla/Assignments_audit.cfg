CONSTANTS
  Requests = {q1}
  MaxItems = 1
  Events = {e1}
  anna = anna
  boris = boris
  cam = cam
  Resources = {cam}
  ResourceType <- TypeOfResource
  Unfit = {}
  Schedules <- OneSchedule
  DtoRanges <- WholeEvent
  DtoStatuses = {"RESERVED"}
  Bulks <- NoBulks
  Maintenance <- NoMaintenance
  AdminStatuses = {}
  MaxEdits = 0
  AuditMayFail = TRUE
  NoTime = NoTime
  NoRow = NoRow
SPECIFICATION Spec
INVARIANT ConflictReportIsTrue
CHECK_DEADLOCK FALSE
