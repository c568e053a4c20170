CONSTANTS
  Requests = {q1, q2}
  MaxItems = 2
  Events = {e1, e2}
  anna = anna
  boris = boris
  cam = cam
  Resources = {anna, cam}
  ResourceType <- TypeOfResource
  Unfit = {}
  Schedules <- TwoSchedules
  DtoRanges <- AlsoLonger
  DtoStatuses = {"RESERVED", "COMPLETED"}
  Bulks <- MixedBulks
  Maintenance <- CamMaintenance
  AdminStatuses = {"AVAILABLE", "RETIRED"}
  MaxEdits = 1
  AuditMayFail = FALSE
  NoTime = NoTime
  NoRow = NoRow
SPECIFICATION Spec
INVARIANTS TypeOK RespectsMaintenance AnswersAreTrue
SYMMETRY Symmetric
CHECK_DEADLOCK FALSE
