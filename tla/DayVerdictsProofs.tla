------------------------- MODULE DayVerdictsProofs -------------------------
(***************************************************************************)
(* Proofs about DayVerdicts, for every length of the day, every shift and  *)
(* every grace period.                                                     *)
(***************************************************************************)
EXTENDS DayVerdicts, TLAPS

\* What the punches of a day have in common: they are counted, in order, and
\* the answer is the one to the latest.
InOrder ==
    /\ count = 0 => first = None /\ last = None
    /\ count > 0 => first \in Ticks /\ last \in Ticks
    /\ count > 0 => verdict = Rules!CheckTardiness(count, last)
    /\ count = 1 => first = last
    /\ count > 1 => first < last

IndInv == TypeOK /\ InOrder

\* CheckTardiness answers with a status or not at all.
LEMMA VerdictType ==
    ASSUME NEW n, NEW t
    PROVE  Rules!CheckTardiness(n, t) \in {"LATE", "EARLY_LEAVE", None}
BY DEF Rules!CheckTardiness

\* Nobody has punched before the day begins.
LEMMA InitInv == Init => IndInv
BY VerdictAssumption DEF Init, IndInv, TypeOK, InOrder, Ticks

\* An accepted punch (Punch) is later than the ones before.
LEMMA PunchInv == IndInv /\ [Next]_vars => IndInv'
<1> SUFFICES ASSUME IndInv, [Next]_vars PROVE IndInv'
    OBVIOUS
<1>1. CASE UNCHANGED vars
    BY <1>1 DEF vars, IndInv, TypeOK, InOrder, Rules!CheckTardiness, Rules!GraceDeadline
<1>2. ASSUME NEW t \in Ticks, Punch(t) PROVE IndInv'
    <2>1. TypeOK'
        BY <1>2, VerdictType DEF Punch, IndInv, TypeOK
    <2>2. count' > 0 /\ last' = t /\ first' \in Ticks
        BY <1>2 DEF Punch, IndInv, TypeOK, InOrder
    <2>3. verdict' = Rules!CheckTardiness(count, last)'
        BY <1>2 DEF Punch, Rules!CheckTardiness, Rules!GraceDeadline
    <2>4. (count' = 1 => first' = last') /\ (count' > 1 => first' < last')
        BY <1>2 DEF Punch, IndInv, TypeOK, InOrder, Ticks
    <2> QED
        BY <2>1, <2>2, <2>3, <2>4, <1>2 DEF IndInv, InOrder, Punch
<1> QED
    BY <1>1, <1>2 DEF Next

\* The inductive invariant holds throughout the day.
THEOREM Invariance == Spec => []IndInv
BY InitInv, PunchInv, PTL DEF Spec

\* The status of a working day with punches: TimingStatus of both ends.
LEMMA WorkingStatus ==
    ASSUME IndInv, Working, count > 0
    PROVE  /\ IsLate(Status) <=> first > Rules!GraceDeadline
           /\ IsEarly(Status) <=> first # last /\ last < shift.end
BY VerdictAssumption DEF IndInv, InOrder, Ticks, Working, Status, IsLate, IsEarly,
    Rules!CalculateStatus, Rules!TimingStatus

\* On a working day the immediate answer of a punch and the calculated status
\* agree about lateness and early leave (_check_tardiness, calculate_status).
THEOREM Agreement == Spec => []VerdictsAgree
<1>1. IndInv => VerdictsAgree
    <2> SUFFICES ASSUME IndInv, Working, count > 0
                 PROVE  IF count = 1
                        THEN verdict = "LATE" <=> IsLate(Status)
                        ELSE verdict = "EARLY_LEAVE" <=> IsEarly(Status)
        BY DEF VerdictsAgree
    <2>1. verdict = Rules!CheckTardiness(count, last) /\ count \in Nat
        BY DEF IndInv, InOrder, TypeOK
    <2>2. CASE count = 1
        <3>1. first = last
            BY <2>2 DEF IndInv, InOrder
        <3>2. verdict = "LATE" <=> last > Rules!GraceDeadline
            BY <2>1, <2>2, VerdictAssumption DEF Rules!CheckTardiness
        <3> QED
            BY <2>2, <3>1, <3>2, WorkingStatus
    <2>3. CASE count # 1
        <3>1. first # last
            BY <2>1, <2>3 DEF IndInv, InOrder, Ticks
        <3>2. verdict = "EARLY_LEAVE" <=> last < shift.end
            BY <2>1, <2>3, VerdictAssumption DEF Rules!CheckTardiness
        <3> QED
            BY <2>3, <3>1, <3>2, WorkingStatus
    <2> QED
        BY <2>2, <2>3
<1> QED
    BY <1>1, Invariance, PTL

\* On a working day late is who comes after the grace period, if that ends
\* before midnight (calculate_status).
THEOREM Grace == Spec => []GraceHonoured
<1>1. IndInv => GraceHonoured
    <2> SUFFICES ASSUME IndInv, Working, count > 0, shift.start + shift.grace < TicksPerDay
                 PROVE  IsLate(Status) <=> first > shift.start + shift.grace
        BY DEF GraceHonoured
    <2>1. shift.start \in Nat /\ shift.grace \in Nat
        BY VerdictAssumption DEF IndInv, TypeOK, Shifts, Ticks
    <2>2. Rules!GraceDeadline = shift.start + shift.grace
        BY <2>1, VerdictAssumption DEF Rules!GraceDeadline
    <2> QED
        BY <2>2, WorkingStatus
<1> QED
    BY <1>1, Invariance, PTL

\* A later punch changes nothing about lateness (calculate_status looks at the
\* earliest punch only).
THEOREM Settled == Spec => LatenessIsSettled
<1>1. IndInv /\ IndInv' /\ [Next]_vars
      => [count > 0 => (IsLate(Status) <=> IsLate(Status'))]_vars
    <2> SUFFICES ASSUME IndInv, IndInv', NEW t \in Ticks, Punch(t), count > 0
                 PROVE  IsLate(Status) <=> IsLate(Status')
        BY DEF Next
    <2>1. /\ first' = first /\ day' = day /\ shift' = shift
          /\ first \in Ticks /\ last \in Ticks /\ last' \in Ticks
        BY DEF Punch, IndInv, InOrder, TypeOK
    <2>2. CASE Working
        BY <2>1, <2>2, VerdictAssumption DEF Working, Kind, Status, IsLate,
            Ticks, Rules!CalculateStatus, Rules!TimingStatus, Rules!GraceDeadline
    <2>3. CASE ~Working
        BY <2>1, <2>3, VerdictAssumption DEF Working, Kind, Status, IsLate,
            Ticks, Rules!CalculateStatus
    <2> QED
        BY <2>2, <2>3
<1> QED
    BY <1>1, Invariance, PTL DEF Spec, LatenessIsSettled

\* Away from Sundays a day is a workday for the report exactly if its kind is
\* a working one (is_workday_from_data, classify_date_kind).
THEOREM CalendarReadersAgree == Spec => []AbsencesOnWorkingDays
<1>1. IndInv => AbsencesOnWorkingDays
    BY DEF IndInv, TypeOK, AbsencesOnWorkingDays, Working, Kind, Rules!CalendarDays,
        Rules!IsWorkday, Rules!ClassifyDateKind, Rules!ClassifyListed,
        Rules!WeekdayFallback, Rules!NonWorkingDayKinds, Rules!WORKDAY,
        Rules!MAKEUP_WORKDAY, Rules!NATIONAL_HOLIDAY, Rules!REST_DAY, Rules!REGULAR_LEAVE
<1> QED
    BY <1>1, Invariance, PTL

=============================================================================
