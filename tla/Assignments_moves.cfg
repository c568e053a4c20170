CONSTANTS
  Requests = {q1, q2, q3}
  MaxItems = 2
  Events = {e1}
  anna = anna
  boris = boris
  cam = cam
  Resources = {anna, boris}
  ResourceType <- TypeOfResource
  Unfit = {}
  Schedules <- OneSchedule
  DtoRanges <- WholeEvent
  DtoStatuses = {}
  Bulks <- CrewBulk
  Maintenance <- NoMaintenance
  AdminStatuses = {}
  MaxEdits = 0
  AuditMayFail = FALSE
  NoTime = NoTime
  NoRow = NoRow
SPECIFICATION FairSpec
PROPERTIES ReassignIsAtomic Termination
CHECK_DEADLOCK FALSE
