CONSTANTS
  None = None
  Unset = Unset
  Req = {r1, r2}
  TicksPerDay = 6
  ShiftStart = 0
  GraceMinutes = 0
  ShiftEnd = 3
  Day <- Wednesday
  Employed = TRUE
  DupWindow = 1
  MaxTime = 3
  LeaveTypes = {"annual"}
  Remarks = {"memo"}
  Overtimes = {"2h"}
  LateReasons = {"PERSONAL", "ASSIGNED_OVERTIME"}
  Calls <- AllCalls
SYMMETRY Symmetry
SPECIFICATION Spec
INVARIANTS TimesComeFromLogs
PROPERTIES PunchedDayStaysPunched OverrideLands PromptMatchesStatus
