CONSTANTS
  None = None
  Unset = Unset
  Req = {r1, r2, r3}
  TicksPerDay = 6
  ShiftStart = 0
  GraceMinutes = 0
  ShiftEnd = 2
  Day <- Saturday
  Employed = TRUE
  DupWindow = 1
  MaxTime = 2
  LeaveTypes = {"annual"}
  Remarks = {"memo"}
  Overtimes = {"2h"}
  LateReasons = {"PERSONAL", "ASSIGNED_OVERTIME"}
  Calls <- WeekendCalls
SYMMETRY Symmetry
SPECIFICATION Spec

PROPERTIES RecomputeKeepsLeaveAndOvertime ReportSettlesRow
