---------------------------- MODULE DayVerdicts ----------------------------
(***************************************************************************)
(* One day's phone punches under the rules of AttendanceRules, for every   *)
(* calendar day, shift and grace period: what the punch answers at once    *)
(* (_check_tardiness) against the status the day gets when its summary is  *)
(* calculated (calculate_status), punch after punch.                       *)
(***************************************************************************)
EXTENDS Integers

CONSTANTS
    None,
    TicksPerDay,   \* length of a day
    MaxGrace       \* the largest grace period (60 minutes in the product)

VARIABLES
    day,      \* the calendar day
    shift,    \* the employee's shift and the configured grace period
    count,    \* punches so far
    first,    \* the earliest punch, or None
    last,     \* the latest punch, or None
    verdict   \* the answer of _check_tardiness to the latest punch

Rules == INSTANCE AttendanceRules
         WITH ShiftStart <- shift.start, ShiftEnd <- shift.end, GraceMinutes <- shift.grace

Ticks  == 0 .. (TicksPerDay - 1)
Shifts == [start : Ticks, end : Ticks, grace : 0 .. MaxGrace]

ASSUME VerdictAssumption ==
    /\ TicksPerDay \in Nat \ {0} /\ MaxGrace \in Nat
    /\ None \notin Int \union {"LATE", "EARLY_LEAVE"}

vars == <<day, shift, count, first, last, verdict>>

Kind   == Rules!ClassifyDateKind(day)
Status == Rules!CalculateStatus(first, last, None, Kind)

Init ==
    /\ day \in Rules!CalendarDays
    /\ shift \in Shifts
    /\ count = 0 /\ first = None /\ last = None /\ verdict = None

\* An accepted phone punch: punches come in the order of the clock, and two of
\* them are never at the same time.
Punch(t) ==
    /\ Kind \notin {Rules!REGULAR_LEAVE, Rules!REST_DAY}
    /\ count > 0 => t > last
    /\ count' = count + 1
    /\ first' = IF count = 0 THEN t ELSE first
    /\ last' = t
    /\ verdict' = Rules!CheckTardiness(count + 1, t)
    /\ UNCHANGED <<day, shift>>

Next == \E t \in Ticks : Punch(t)

Spec == Init /\ [][Next]_vars

TypeOK ==
    /\ day \in Rules!CalendarDays /\ shift \in Shifts
    /\ count \in Nat
    /\ first \in Ticks \union {None} /\ last \in Ticks \union {None}
    /\ verdict \in {"LATE", "EARLY_LEAVE", None}

-----------------------------------------------------------------------------

Working == Kind \notin Rules!NonWorkingDayKinds

IsLate(status) == status \in {"LATE", "LATE_AND_EARLY_LEAVE"}
IsEarly(status) == status \in {"EARLY_LEAVE", "LATE_AND_EARLY_LEAVE"}

\* The immediate answer and the calculated status are two implementations of
\* one rule: on a working day a first punch is LATE for both or for neither,
\* and so is a later punch EARLY_LEAVE.
VerdictsAgree ==
    Working /\ count > 0 =>
        IF count = 1
        THEN verdict = "LATE" <=> IsLate(Status)
        ELSE verdict = "EARLY_LEAVE" <=> IsEarly(Status)

\* A day that began late stays late: no later punch talks the employee out of
\* it, and none makes a punctual day late.
LatenessIsSettled ==
    [][count > 0 => (IsLate(Status) <=> IsLate(Status'))]_vars

\* The calendar's two readers agree: the report marks absences (IsWorkday) on
\* exactly the days whose kind is a working one.  Sundays aside, which are
\* REGULAR_LEAVE whatever the calendar lists.
AbsencesOnWorkingDays ==
    day.weekday # 6 => (Rules!IsWorkday(day) <=> Working)

\* The grace period is honoured to the tick: on a working day, late is who comes
\* after it.  Only where it ends on the same day: beyond midnight the deadline
\* is cut back to a time of day (calculate_status), and everybody is late.
GraceHonoured ==
    Working /\ count > 0 /\ shift.start + shift.grace < TicksPerDay =>
        (IsLate(Status) <=> first > shift.start + shift.grace)

=============================================================================
