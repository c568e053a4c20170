CONSTANTS
  Requests = {q1, q2}
  MaxItems = 1
  Events = {e1}
  anna = anna
  boris = boris
  cam = cam
  Resources = {cam, cam2}
  ResourceType <- TypeOfResource
  Unfit = {}
  Schedules <- OneSchedule
  DtoRanges <- WholeEvent
  DtoStatuses = {"RESERVED"}
  Bulks <- NoBulks
  Maintenance <- NoMaintenance
  AdminStatuses = {}
  MaxEdits = 0
  AuditMayFail = FALSE
  NoTime = NoTime
  NoRow = NoRow
SPECIFICATION Spec
INVARIANT HistoryDoesNotBlock
CHECK_DEADLOCK FALSE
