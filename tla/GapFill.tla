------------------------------ MODULE GapFill ------------------------------
(***************************************************************************)
(* What the NFC import promises (docs/superpowers/specs/2026-07-01-nfc-    *)
(* punch-backup-design.md, section 6) about one date: when it is over,     *)
(* door taps fill the missing side of an employee's day, each side once,   *)
(* and never move a time the employee has punched.  How often the file is  *)
(* sent, how the attempts overlap and where they fail does not show.       *)
(***************************************************************************)
EXTENDS Naturals

CONSTANTS
    Emp,        \* employees that appear in the door file
    Eligible,   \* those that exist and are not terminated on the date
    Instants    \* times of the date

VARIABLES
    open,       \* the date is not over yet, or HR still works on it
    taps,       \* the door taps of each employee
    times       \* the times that count for each employee's day

Init ==
    /\ open = TRUE
    /\ taps = [e \in Emp |-> {}]
    /\ times = [e \in Emp |-> {}]

Tap(e) ==
    /\ open
    /\ \E t \in Instants : taps' = [taps EXCEPT ![e] = @ \union {t}]
    /\ UNCHANGED <<open, times>>

\* People decide what counts while the date is open: punches, HR's entries.
Punch(e) ==
    /\ open
    /\ \E ts \in SUBSET Instants : times' = [times EXCEPT ![e] = ts]
    /\ UNCHANGED <<open, taps>>

Close == open /\ open' = FALSE /\ UNCHANGED <<taps, times>>

\* No time counts: the earliest tap becomes the clock-in.
FillIn(e) ==
    /\ ~open /\ e \in Eligible /\ times[e] = {}
    /\ \E t \in taps[e] :
         /\ \A u \in taps[e] : t <= u
         /\ times' = [times EXCEPT ![e] = {t}]
    /\ UNCHANGED <<open, taps>>

\* One time counts: the latest tap becomes the clock-out if it is later.
FillOut(e) ==
    /\ ~open /\ e \in Eligible
    /\ \E in \in Instants, t \in taps[e] :
         /\ times[e] = {in}
         /\ t > in /\ \A u \in taps[e] : u <= t
         /\ times' = [times EXCEPT ![e] = {in, t}]
    /\ UNCHANGED <<open, taps>>

Next == Close \/ \E e \in Emp : Tap(e) \/ Punch(e) \/ FillIn(e) \/ FillOut(e)

Spec == Init /\ [][Next]_<<open, taps, times>>

=============================================================================
