-------------------------- MODULE MCAttendanceDay --------------------------
(* Small instances of AttendanceDay for TLC.                               *)
EXTENDS AttendanceDay, TLC

\* One tick per phase of the day: 0 on time, 1 late and before shift end,
\* 2 and 3 at and after shift end, where the shift ends at 2; in the overlap
\* run it ends at 3, so that two punches may be late and early.  Ticks 4 and 5
\* are never reached.
Wednesday == [weekday |-> 2, listed |-> TRUE, isHoliday |-> FALSE, isMakeup |-> FALSE]
Saturday  == [weekday |-> 5, listed |-> FALSE, isHoliday |-> FALSE, isMakeup |-> FALSE]

MCCall(kind, e, isHR, late) ==
    [kind |-> kind, entry |-> e, isHR |-> isHR, lateReason |-> late]

Punch         == MCCall("punch", EmptyEntry, FALSE, None)
LatePunch     == MCCall("punch", EmptyEntry, FALSE, "PERSONAL")
Report        == MCCall("report", EmptyEntry, FALSE, None)
Manager       == MCCall("override", EmptyEntry, FALSE, None)
GiveReason    == MCCall("reason", EmptyEntry, FALSE, None)
Bulk(e, isHR) == MCCall("bulk", e, isHR, None)

FixTimes   == [EmptyEntry EXCEPT !.in = 0, !.out = 2]
ShiftTimes == [EmptyEntry EXCEPT !.in = 1, !.out = 2]
FixOut     == [EmptyEntry EXCEPT !.out = 3]
SetLeave   == [EmptyEntry EXCEPT !.leave = "annual"]
ClearLeave == [EmptyEntry EXCEPT !.leave = None]
SetRemark  == [EmptyEntry EXCEPT !.remark = "memo"]
SetOt      == [EmptyEntry EXCEPT !.ot = "2h"]
\* What the monthly page sends: every key.
FullRow    == [in |-> 1, out |-> 3, leave |-> None, remark |-> "memo",
               ot |-> "2h", late |-> "ASSIGNED_OVERTIME"]

EditCalls == {Bulk(e, FALSE) : e \in {EmptyEntry, FixTimes, FixOut, SetLeave,
                                      ClearLeave, SetRemark, SetOt, FullRow}}
AllCalls     == {Punch, LatePunch, Report, GiveReason, Manager} \union EditCalls
WeekendCalls == {Punch, Report} \union
                {Bulk(e, h) : e \in {FixTimes, SetOt, SetLeave, ClearLeave}, h \in BOOLEAN}
PunchCalls   == {Punch, LatePunch, Report}
TornCalls    == {Report, Bulk(FixTimes, TRUE), Bulk(ShiftTimes, TRUE)}
RemarkCalls  == {Report, Bulk(SetRemark, FALSE)}

Symmetry == Permutations(Req)

=============================================================================
