--------------------------- MODULE MCMonthlyPage ---------------------------
(* Small instances of MonthlyPage for TLC.                                 *)
EXTENDS MonthlyPage

Day(t, l) == [times |-> t, leave |-> l, overtime |-> FALSE, reason |-> FALSE]

\* One month lacks punches, which is abnormal, and a reason; one has all.
SomeMonths == {<<Day("none", FALSE), Day("late", FALSE)>>,
               <<Day("full", FALSE), [Day("late", FALSE) EXCEPT !.reason = TRUE]>>}

PatientEmployee == [hr |-> FALSE, patient |-> TRUE]
HastyHr == [hr |-> TRUE, patient |-> FALSE]
PatientHr == [hr |-> TRUE, patient |-> TRUE]
SomeUsers == {PatientEmployee, PatientHr, HastyHr}

=============================================================================
