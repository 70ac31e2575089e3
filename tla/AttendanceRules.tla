-------------------------- MODULE AttendanceRules --------------------------
(***************************************************************************)
(* The pure rules of the backend: how a calendar day is classified         *)
(* (utils/taiwan_calendar.py) and how a day's punches are judged           *)
(* (reporting_service.calculate_status, attendance_service._check_         *)
(* tardiness).  Times of day are ticks of one common unit; None stands for *)
(* Python's None.                                                          *)
(***************************************************************************)
EXTENDS Integers

CONSTANTS
    None,          \* a null column, a missing row, an absent argument
    TicksPerDay,   \* length of a day
    ShiftStart,    \* employees.shift_start_time
    ShiftEnd,      \* employees.shift_end_time
    GraceMinutes   \* system_config "grace_period", 0..60 in the product

TimeOfDay == 0 .. (TicksPerDay - 1)

ASSUME RulesAssumption ==
    /\ TicksPerDay \in Nat \ {0}
    /\ ShiftStart \in TimeOfDay
    /\ ShiftEnd \in TimeOfDay
    /\ GraceMinutes \in Nat
    /\ None \notin Nat

-----------------------------------------------------------------------------
(* Calendar days.  A day is what the classification looks at: its weekday  *)
(* (Monday is 0), whether the cached calendar lists it, and the listed     *)
(* entry's isHoliday and make-up flags.                                    *)

WORKDAY          == "WORKDAY"
MAKEUP_WORKDAY   == "MAKEUP_WORKDAY"
NATIONAL_HOLIDAY == "NATIONAL_HOLIDAY"
REST_DAY         == "REST_DAY"
REGULAR_LEAVE    == "REGULAR_LEAVE"

DayKinds == {WORKDAY, MAKEUP_WORKDAY, NATIONAL_HOLIDAY, REST_DAY, REGULAR_LEAVE}
NonWorkingDayKinds == {REST_DAY, REGULAR_LEAVE, NATIONAL_HOLIDAY}

\* parse_calendar_json raises the make-up flag on non-holidays only.
CalendarDays ==
    {d \in [weekday : 0 .. 6, listed : BOOLEAN, isHoliday : BOOLEAN, isMakeup : BOOLEAN] :
        /\ d.isMakeup => ~d.isHoliday
        /\ ~d.listed => ~d.isHoliday /\ ~d.isMakeup}

WeekdayFallback(weekday) ==
    IF weekday = 6 THEN REGULAR_LEAVE ELSE IF weekday = 5 THEN REST_DAY ELSE WORKDAY

ClassifyListed(d) ==
    IF d.weekday = 6 THEN REGULAR_LEAVE
    ELSE IF d.isMakeup THEN MAKEUP_WORKDAY
    ELSE IF ~d.isHoliday THEN WORKDAY
    ELSE IF d.weekday = 5 THEN REST_DAY
    ELSE NATIONAL_HOLIDAY

ClassifyDateKind(d) ==
    IF d.listed THEN ClassifyListed(d) ELSE WeekdayFallback(d.weekday)

IsWorkday(d) == IF d.listed THEN ~d.isHoliday ELSE d.weekday < 5

-----------------------------------------------------------------------------
(* Judging a day.                                                          *)

PunchedStatuses ==
    {"NORMAL", "LATE", "EARLY_LEAVE", "LATE_AND_EARLY_LEAVE", "ABNORMAL"}
Statuses == PunchedStatuses \union {"ABSENT", "LEAVE"}

ReasonEligibleStatuses == {"LATE", "EARLY_LEAVE", "LATE_AND_EARLY_LEAVE"}

\* Mutant: the deadline is the shift's start.
GraceDeadlineWithoutGrace == ShiftStart

\* datetime.combine(day, shift_start) + grace, cut back to a time of day.
GraceDeadline == (ShiftStart + GraceMinutes) % TicksPerDay

\* Mutant: leaving early hides the late arrival.
TimingStatusEarlyFirst(isLate, isEarlyLeave) ==
    IF isEarlyLeave THEN "EARLY_LEAVE" ELSE IF isLate THEN "LATE" ELSE "NORMAL"

TimingStatus(isLate, isEarlyLeave) ==
    IF isLate /\ isEarlyLeave THEN "LATE_AND_EARLY_LEAVE"
    ELSE IF isLate THEN "LATE"
    ELSE IF isEarlyLeave THEN "EARLY_LEAVE"
    ELSE "NORMAL"

CalculateStatus(first, last, leave, kind) ==
    IF leave # None THEN "LEAVE"
    ELSE IF first = None /\ last = None THEN None
    ELSE IF kind \in NonWorkingDayKinds THEN "NORMAL"
    ELSE IF first = None \/ last = None THEN "ABNORMAL"
    ELSE TimingStatus(first > GraceDeadline, first # last /\ last < ShiftEnd)

\* Mutant: the last minute of the grace period is late.
CheckTardinessAtDeadline(count, time) ==
    IF count <= 1
    THEN IF time >= GraceDeadline THEN "LATE" ELSE None
    ELSE IF time < ShiftEnd THEN "EARLY_LEAVE" ELSE None

\* _check_tardiness: count is the number of logs of the day, overridden ones
\* included, and time the punch just recorded.
CheckTardiness(count, time) ==
    IF count <= 1
    THEN IF time > GraceDeadline THEN "LATE" ELSE None
    ELSE IF time < ShiftEnd THEN "EARLY_LEAVE" ELSE None

=============================================================================
