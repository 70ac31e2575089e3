CONSTANTS
  None = None
  Unset = Unset
  Req = {r1, r2}
  TicksPerDay = 6
  ShiftStart = 0
  GraceMinutes = 0
  ShiftEnd = 2
  Day <- Wednesday
  Employed = TRUE
  DupWindow = 1
  MaxTime = 1
  LeaveTypes = {"annual"}
  Remarks = {"memo"}
  Overtimes = {"2h"}
  LateReasons = {"PERSONAL", "ASSIGNED_OVERTIME"}
  Calls <- RemarkCalls
SYMMETRY Symmetry
SPECIFICATION Spec

PROPERTIES RecomputeKeepsRemark
