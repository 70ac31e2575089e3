---------------------------- MODULE MonthlyPage ----------------------------
(***************************************************************************)
(* The monthly override page (frontend app/dashboard/monthly-override) and *)
(* the endpoints it calls: the rows it loads, the edits it sends back, the *)
(* month it submits.  Requests and answers travel separately, so the user  *)
(* moves to another employee or month, the employee punches and HR turns   *)
(* the month-end lock while they are under way.                            *)
(*                                                                         *)
(* A row keeps what its handlers tell apart: which times it shows, whether *)
(* a leave type (and with it the remark) is set, overtime, a late-leave    *)
(* reason, and whether its status is an abnormal one.  Every day of Days   *)
(* is a working day of the month; the leave types still requiring a reason *)
(* are left out.  One bulk override commits entry by entry; how a single   *)
(* entry interleaves with other writers is AttendanceDay's subject.        *)
(***************************************************************************)
EXTENDS Integers, FiniteSets, Functions, FiniteSetsExt

CONSTANTS
    Me,         \* who is logged in
    Others,     \* the employees HR may select besides
    Months,     \* consecutive numbers
    Days,       \* days of a month, as numbers
    Initially,  \* the months the server may start with
    Users,      \* what Me may be: HR (or ADMIN) or not, and patient, which is
                \* to neither move, save nor submit under a spinner, or not
    MaxEvents   \* bound: clicks and edits, requests that fail, punches from
                \* elsewhere and turns of the lock

Views == [emp : {Me} \union Others, month : Months]

\* "in" is a single punch: the page shows it without a clock-out.
\* "late" has a clock-out past the end of the shift.
Times == {"none", "in", "full", "late"}
Stored == [times : Times, leave : BOOLEAN, overtime : BOOLEAN, reason : BOOLEAN]
Row == [stored : Stored, abnormal : BOOLEAN]

ASSUME MonthlyAssumption ==
    /\ Me \notin Others /\ Users \subseteq [hr : BOOLEAN, patient : BOOLEAN]
    /\ Months \subseteq Nat /\ Days \subseteq Nat /\ Initially \subseteq [Days -> Stored]
    /\ MaxEvents \in Nat

VARIABLES
    user,       \* whose page it is
    store,      \* the summaries of each employee and month
    submitted,  \* the months of monthly_submissions
    locked,     \* the month-end override lock
    view,       \* the employee and month selected
    rows,       \* what the table shows
    original,   \* what it showed when it was loaded
    loading,    \* isLoading
    saving,     \* isSaving
    pending,    \* pendingSubmit
    badge,      \* submissionStatus?.submitted
    modals,     \* the dialogs open, which cover the page
    known,      \* which one-shot fetches of the mount have been answered
    lockSeen,   \* overrideLocked
    loads,      \* fetchData calls under way
    save,       \* the bulk override under way: a set of at most one
    submits,    \* performSubmit calls under way
    status,     \* the status fetch that is not cancelled: at most one
    events,     \* how many have happened
    shown,      \* history: the view whose data the rows are
    touched,    \* history: days edited since the rows were loaded
    failed,     \* history: the last load to end has failed, and the message
                \* on the screen says so
    since       \* history: months written after their late-reason gate

server == <<store, submitted, locked>>
table == <<rows, original, shown, touched, failed>>
page == <<user, view, loading, saving, pending, badge, modals, known, lockSeen>>
calls == <<loads, save, submits, status>>
vars == <<server, table, page, calls, events, since>>

NoRows == [d \in {} |-> {}]

\* A fetchData call of the n-th event for view v, after no save.
Fetch(v, n) == [view |-> v, n |-> n, to |-> v, wrote |-> NoRows, answer |-> {}]

Init ==
    /\ user \in Users /\ store \in {[v \in Views |-> m] : m \in Initially} /\ submitted = {} /\ locked = FALSE
    /\ view \in [emp : {Me}, month : Months]
    /\ rows = NoRows /\ original = NoRows /\ shown = view /\ touched = {}
    /\ loading = TRUE /\ saving = FALSE /\ pending = FALSE /\ badge = FALSE
    /\ modals = {} /\ known = {} /\ lockSeen = FALSE
    /\ loads = {Fetch(view, 0)}
    /\ save = {} /\ submits = {}
    /\ status = {[view |-> view, answer |-> {}]}
    /\ events = 0 /\ failed = FALSE /\ since = {}

----------------------------------------------------------------------------
(* The rules both sides apply to rows.                                     *)

IsAbnormal(s) == s.times = "none" /\ ~s.leave

NeedsPunchForOvertime(r) == r.stored.overtime /\ r.stored.times \in {"none", "in"}

NeedsLateReason(s) == s.times = "late" /\ ~s.leave /\ ~s.reason

\* Until the profile, or for somebody else the employee list, has arrived
\* the page knows no shift end and finds no reason missing.
ShiftKnown == IF view.emp = Me THEN "profile" \in known ELSE "employees" \in known

LocallyMissing == {d \in DOMAIN rows : ShiftKnown /\ NeedsLateReason(rows[d].stored)}

Missing(v) == {d \in Days : NeedsLateReason(store[v][d])}

PageLocked == lockSeen /\ ~user.hr

\* Mutant: the reason's value, not its presence in the entry, decides.
OverriddenIfTruthy(s, entry) ==
    [entry EXCEPT !.times = IF @ = "none" THEN s.times ELSE @, !.reason = @ \/ s.reason]

\* What bulk_override_punches makes of a stored day: times only replace
\* times, an entry without any leaves them; the other columns are overwritten.
Overridden(s, entry) ==
    [entry EXCEPT !.times = IF @ = "none" THEN s.times ELSE @]

Event == events < MaxEvents /\ events' = events + 1

----------------------------------------------------------------------------
(* The user.                                                               *)

Idle == loads = {} /\ save = {} /\ submits = {}

\* A dialog covers the controls.
AtControls == Event /\ modals = {} /\ (user.patient => Idle)

\* Mutant: the status effect without its cleanup.
ShowUncancelled(v) ==
    /\ AtControls /\ v # view /\ view' = v
    /\ loading' = TRUE
    /\ loads' = loads \union {Fetch(v, events')}
    /\ status' = status \union {[view |-> v, answer |-> {}]}
    /\ UNCHANGED <<server, table, user, saving, pending, badge, modals, known, lockSeen, save, submits, since>>

\* Mutant: fetchData's dependencies without the employee.
ShowWithoutEmployee(v) ==
    /\ AtControls /\ v # view /\ view' = v
    /\ loading' = (loading \/ v.month # view.month)
    /\ loads' = IF v.month = view.month THEN loads ELSE loads \union {Fetch(v, events')}
    /\ status' = {[view |-> v, answer |-> {}]}
    /\ UNCHANGED <<server, table, user, saving, pending, badge, modals, known, lockSeen, save, submits, since>>

\* A change of employee or month starts a load and cancels the status fetch.
Show(v) ==
    /\ AtControls /\ v # view /\ view' = v
    /\ loading' = TRUE
    /\ loads' = loads \union {Fetch(v, events')}
    /\ status' = {[view |-> v, answer |-> {}]}
    /\ UNCHANGED <<server, table, user, saving, pending, badge, modals, known, lockSeen, save, submits, since>>

PreviousMonth == view.month - 1 \in Months /\ Show([view EXCEPT !.month = @ - 1])

NextMonth == view.month + 1 \in Months /\ Show([view EXCEPT !.month = @ + 1])

SelectEmployee ==
    /\ user.hr /\ "employees" \in known
    /\ \E e \in {Me} \union Others : Show([view EXCEPT !.emp = e])

\* Choosing a department deselects the employee: the page falls back to self.
ChangeDepartment == user.hr /\ "employees" \in known /\ Show([view EXCEPT !.emp = Me])

\* The table is hidden under the spinner and read-only under the lock.
Edit(d, s) ==
    /\ Event /\ modals = {} /\ ~loading /\ ~PageLocked
    /\ s # rows[d].stored
    /\ rows' = [rows EXCEPT ![d].stored = s] /\ touched' = touched \union {d}
    /\ UNCHANGED <<server, original, shown, failed, page, calls, since>>

EditTimes == \E d \in DOMAIN rows, t \in Times : Edit(d, [rows[d].stored EXCEPT !.times = t])
EditLeave == \E d \in DOMAIN rows : Edit(d, [rows[d].stored EXCEPT !.leave = ~@])
EditOvertime == \E d \in DOMAIN rows : Edit(d, [rows[d].stored EXCEPT !.overtime = ~@])
EditReason == \E d \in DOMAIN rows : Edit(d, [rows[d].stored EXCEPT !.reason = ~@])

Open(m) == modals' = modals \union {m} /\ UNCHANGED <<server, table, user, view, loading, saving,
                                       pending, badge, known, lockSeen, calls, since>>

\* Mutant: every day is sent.
AllDays == DOMAIN rows

\* The days the page sends: those that differ from what was loaded.
ChangedDays == {d \in DOMAIN rows : rows[d] # original[d]}

\* handleSave.  The button is not disabled while the table reloads, and when
\* the view has moved on the entries keep the dates of the rows on the screen
\* and go to the employee selected now.
ClickSave ==
    /\ AtControls /\ ~saving /\ ~PageLocked
    /\ IF \E d \in DOMAIN rows : NeedsPunchForOvertime(rows[d])
       THEN Open("overtime")
       ELSE /\ ChangedDays # {}
            /\ saving' = TRUE
            /\ save' = {[to |-> [emp |-> view.emp, month |-> shown.month], view |-> view,
                         step |-> "sent", todo |-> ChangedDays,
                         entries |-> [d \in ChangedDays |-> rows[d].stored]]}
            /\ UNCHANGED <<server, table, user, view, loading, pending, badge, modals, known,
                           lockSeen, loads, submits, status, since>>

\* performSubmit, for the employee and month selected now.
PerformSubmit ==
    /\ pending' = TRUE
    /\ submits' = submits \union {[view |-> view, n |-> events', step |-> "sent"]}
    /\ UNCHANGED <<server, table, user, view, loading, saving, badge, modals, known, lockSeen,
                   loads, save, status, since>>

\* handleSubmitMonth.
ClickSubmit ==
    /\ AtControls /\ ~pending /\ ~PageLocked
    /\ IF LocallyMissing # {} THEN Open("reason")
       ELSE IF \E d \in DOMAIN rows : rows[d].abnormal THEN Open("warning")
       ELSE PerformSubmit

\* Proceed stays enabled while the submission is under way.
WarningProceed == Event /\ "warning" \in modals /\ PerformSubmit

\* Back, Escape or a click beside the dialog.
CloseModal ==
    /\ Event /\ \E m \in modals : modals' = modals \ {m}
    /\ UNCHANGED <<server, table, user, view, loading, saving, pending, badge, known, lockSeen, calls, since>>

----------------------------------------------------------------------------
(* The answers to the mount's one-shot fetches; one that fails is the same *)
(* as one that never comes.  HR fetches the lock too, to no effect.        *)

MountAnswer ==
    /\ \E x \in {"profile", IF user.hr THEN "employees" ELSE "lock"} :
          /\ x \notin known /\ known' = known \union {x}
          /\ lockSeen' = IF x = "lock" THEN locked ELSE lockSeen
    /\ UNCHANGED <<server, table, user, view, loading, saving, pending, badge, modals, calls, events, since>>

----------------------------------------------------------------------------
(* fetchData: the server reads, the answer arrives.                        *)

LoadRead(l) ==
    /\ l.answer = {}
    /\ loads' = (loads \ {l}) \union
          {[l EXCEPT !.answer = {[d \in Days |-> [stored |-> store[l.view][d],
                                                   abnormal |-> IsAbnormal(store[l.view][d])]]}]}
    /\ UNCHANGED <<server, table, page, save, submits, status, events, since>>

Blank == [stored |-> [times |-> "none", leave |-> FALSE, overtime |-> FALSE, reason |-> FALSE],
          abnormal |-> FALSE]

\* A failed summaries request is taken for an empty month.
SummariesFail(l) ==
    /\ Event /\ l.answer = {}
    /\ loads' = (loads \ {l}) \union {[l EXCEPT !.answer = {[d \in Days |-> Blank]}]}
    /\ UNCHANGED <<server, table, page, save, submits, status, since>>

LoadEnds(l) ==
    /\ loads' = loads \ {l} /\ loading' = FALSE
    /\ saving' = (saving /\ l.wrote = NoRows)
    /\ UNCHANGED <<server, user, view, pending, badge, modals, known, lockSeen, save, submits, status, since>>

LoadAnswered(l) ==
    /\ \E r \in l.answer : rows' = r /\ original' = r
    /\ shown' = l.view /\ touched' = {} /\ failed' = FALSE
    /\ LoadEnds(l) /\ UNCHANGED events

\* A failed calendar request leaves the rows of before in the table, under an
\* error message; a save's own report replaces the message of its reload.
CalendarFails(l) ==
    /\ Event
    /\ failed' = (failed \/ l.wrote = NoRows)
    /\ LoadEnds(l) /\ UNCHANGED <<rows, original, shown, touched>>

----------------------------------------------------------------------------
(* PUT /api/attendance/override-bulk, then the reload.                     *)

\* Mutant: only the page looks at the lock.
SaveAdmitUnlocked(s) ==
    /\ s.step = "sent"
    /\ save' = {[s EXCEPT !.step = "writing"]}
    /\ UNCHANGED <<server, table, page, loads, submits, status, events, since>>

SaveAdmit(s) ==
    /\ s.step = "sent"
    /\ save' = {[s EXCEPT !.step = IF locked /\ ~user.hr THEN "refused" ELSE "writing"]}
    /\ UNCHANGED <<server, table, page, loads, submits, status, events, since>>

\* Each entry is written by its own date, whatever month is selected.
SaveWrite(s) ==
    /\ s.step = "writing" /\ s.todo # {}
    /\ LET d == Min(s.todo) IN
       /\ store' = [store EXCEPT ![s.to][d] = Overridden(@, s.entries[d])]
       /\ save' = {[s EXCEPT !.todo = @ \ {d}]}
    /\ since' = since \union {s.to}
    /\ UNCHANGED <<submitted, locked, table, page, loads, submits, status, events>>

\* The reload uses the employee and month of the click.
SaveAnswered(s) ==
    /\ s.step = "writing" /\ s.todo = {}
    /\ save' = {} /\ loading' = TRUE
    /\ loads' = loads \union {[Fetch(s.view, events) EXCEPT !.to = s.to, !.wrote = s.entries]}
    /\ UNCHANGED <<server, table, user, view, saving, pending, badge, modals, known, lockSeen,
                   submits, status, events, since>>

\* Mutant: isSaving is reset after a success only.
SaveEndsSpinning ==
    /\ save' = {}
    /\ UNCHANGED <<server, table, page, loads, submits, status, since>>

SaveEndsBadly ==
    /\ save' = {} /\ saving' = FALSE
    /\ UNCHANGED <<server, table, user, view, loading, pending, badge, modals, known, lockSeen,
                   loads, submits, status, since>>

SaveRefused(s) == s.step = "refused" /\ SaveEndsBadly /\ UNCHANGED events

\* Entries written before the failure stay; the page keeps its edits.
SaveFails(s) == s.step # "refused" /\ Event /\ SaveEndsBadly

----------------------------------------------------------------------------
(* POST /api/monthly-submissions, then the status request.                 *)

\* Mutant: the gate lets HR through.
SubmitGateButForHr(s) ==
    /\ s.step = "sent"
    /\ submits' = (submits \ {s}) \union
          {[s EXCEPT !.step = IF locked /\ ~user.hr THEN "refused"
                              ELSE IF Missing(s.view) # {} /\ ~user.hr THEN "missing" ELSE "gated"]}
    /\ since' = IF Missing(s.view) = {} THEN since \ {s.view} ELSE since
    /\ UNCHANGED <<server, table, page, loads, save, status, events>>

SubmitGate(s) ==
    /\ s.step = "sent"
    /\ submits' = (submits \ {s}) \union
          {[s EXCEPT !.step = IF locked /\ ~user.hr THEN "refused"
                              ELSE IF Missing(s.view) # {} THEN "missing" ELSE "gated"]}
    /\ since' = IF Missing(s.view) = {} THEN since \ {s.view} ELSE since
    /\ UNCHANGED <<server, table, page, loads, save, status, events>>

SubmitStore(s) ==
    /\ s.step = "gated"
    /\ submitted' = submitted \union {s.view}
    /\ submits' = (submits \ {s}) \union {[s EXCEPT !.step = "stored"]}
    /\ UNCHANGED <<store, locked, table, page, loads, save, status, events, since>>

\* Success shows the badge without asking which month is selected by now.
SubmitEnds(s) ==
    /\ submits' = submits \ {s} /\ pending' = FALSE
    /\ badge' = (badge \/ s.step = "stored")
    /\ modals' = (modals \ {"warning"}) \union (IF s.step = "missing" THEN {"reason"} ELSE {})
    /\ UNCHANGED <<server, table, user, view, loading, saving, known, lockSeen, loads, save, status, since>>

SubmitAnswered(s) == s.step \in {"stored", "missing", "refused"} /\ SubmitEnds(s) /\ UNCHANGED events

SubmitFails(s) ==
    /\ Event
    /\ submits' = submits \ {s} /\ pending' = FALSE /\ modals' = modals \ {"warning"}
    /\ UNCHANGED <<server, table, user, view, loading, saving, badge, known, lockSeen, loads, save, status, since>>

StatusRead(q) ==
    /\ q.answer = {} /\ status' = {[q EXCEPT !.answer = {q.view \in submitted}]}
    /\ UNCHANGED <<server, table, page, loads, save, submits, events, since>>

StatusAnswered(q) ==
    /\ q.answer # {} /\ badge' \in q.answer /\ status' = {}
    /\ UNCHANGED <<server, table, user, view, loading, saving, pending, modals, known, lockSeen,
                   loads, save, submits, events, since>>

StatusFails(q) ==
    /\ Event /\ badge' = FALSE /\ status' = {}
    /\ UNCHANGED <<server, table, user, view, loading, saving, pending, modals, known, lockSeen,
                   loads, save, submits, since>>

----------------------------------------------------------------------------
(* Everybody else.                                                         *)

\* A phone punch after the end of the shift, with no reason given.
PunchElsewhere ==
    /\ Event
    /\ \E v \in Views, d \in Days :
          /\ store[v][d].times # "late"
          /\ store' = [store EXCEPT ![v][d].times = "late"] /\ since' = since \union {v}
    /\ UNCHANGED <<submitted, locked, table, page, calls>>

TurnLock ==
    /\ Event /\ locked' = ~locked
    /\ UNCHANGED <<store, submitted, table, page, calls, since>>

Answers ==
    \/ \E l \in loads : LoadRead(l) \/ LoadAnswered(l)
    \/ \E s \in save : SaveAdmit(s) \/ SaveWrite(s) \/ SaveAnswered(s) \/ SaveRefused(s)
    \/ \E s \in submits : SubmitGate(s) \/ SubmitStore(s) \/ SubmitAnswered(s)
    \/ \E q \in status : StatusRead(q) \/ StatusAnswered(q)

Next ==
    \/ PreviousMonth \/ NextMonth \/ SelectEmployee \/ ChangeDepartment
    \/ EditTimes \/ EditLeave \/ EditOvertime \/ EditReason
    \/ ClickSave \/ ClickSubmit \/ WarningProceed \/ CloseModal
    \/ MountAnswer \/ Answers
    \/ \E l \in loads : SummariesFail(l) \/ CalendarFails(l)
    \/ \E s \in save : SaveFails(s)
    \/ \E s \in submits : SubmitFails(s)
    \/ \E q \in status : StatusFails(q)
    \/ PunchElsewhere \/ TurnLock

Spec == Init /\ [][Next]_vars

\* Every request is answered or fails in the end; nothing is asked of the user.
FairSpec == Spec /\ WF_vars(Answers)

----------------------------------------------------------------------------
(* Properties.                                                             *)

\* The table, the flags and the calls under way have their types.
TypeOK ==
    /\ store \in [Views -> [Days -> Stored]] /\ submitted \subseteq Views /\ locked \in BOOLEAN
    /\ user \in Users /\ view \in Views /\ shown \in Views /\ since \subseteq Views
    /\ rows \in [DOMAIN rows -> Row] /\ original \in [DOMAIN rows -> Row]
    /\ DOMAIN rows \in {{}, Days} /\ touched \subseteq DOMAIN rows
    /\ {loading, saving, pending, badge, lockSeen} \subseteq BOOLEAN
    /\ modals \subseteq {"warning", "overtime", "reason"}
    /\ known \subseteq {"profile", "employees", "lock"}
    /\ failed \in BOOLEAN
    /\ \A s \in save : {s.to, s.view} \subseteq Views /\ s.todo \subseteq DOMAIN s.entries
    /\ \A l \in loads : {l.to, l.view} \subseteq Views /\ DOMAIN l.wrote \subseteq Days

\* A bulk override goes to the employee and month whose rows were on the
\* screen when Save was clicked, if the user waits for the spinner and the
\* page has not said that the load failed.
SaveFiledWhereShown ==
    [][save = {} /\ user.patient /\ ~failed => \A s \in save' : s.to = shown]_vars

\* A save rewrites only days the user edited: the others keep what was
\* written to them since the page loaded them.
UneditedDaysKept ==
    [][save = {} => \A s \in save' : DOMAIN s.entries \subseteq touched]_vars

\* Once a save is reported and the month it wrote to is the one reloaded, the
\* table shows every saved column as the user set it, the times unless a later
\* punch has moved them: the reload follows the write.  A failed summaries
\* request (Blank) shows nothing.
SavedIsShown ==
    [][\A l \in (loads \ loads') : \A d \in DOMAIN l.wrote :
          /\ saving /\ ~saving' /\ l.wrote # NoRows /\ l.to = l.view
          /\ rows' \in l.answer /\ rows'[d] # Blank
          => /\ rows'[d].stored.leave = l.wrote[d].leave
             /\ rows'[d].stored.overtime = l.wrote[d].overtime
             /\ rows'[d].stored.reason = l.wrote[d].reason
             /\ l.wrote[d].times # "none" => rows'[d].stored.times \in {l.wrote[d].times, "late"}]_vars

\* A submitted month has a reason for every late day, unless it was written
\* to after its submission passed the gate.
SubmittedIsReasoned == \A v \in submitted \ since : Missing(v) = {}

\* The badge says "submitted" only of a submitted month, the one selected,
\* once the status fetch and the submissions have been answered, if the user
\* waits for the answer before moving on.
BadgeIsTrue ==
    user.patient /\ status = {} /\ submits = {} /\ badge => view \in submitted

\* Submissions are what they say, on the server and on the badge, and the
\* page's state has its types.
MonthInv == TypeOK /\ SubmittedIsReasoned /\ BadgeIsTrue

Admitted == (\E s \in save : s.step = "writing") \/ \E s \in submits : s.step = "gated"

\* Under the month-end lock nothing of an employee's page is admitted or
\* submitted, even from a page that was loaded before the lock was turned.
LockHolds ==
    [][~user.hr /\ locked /\ locked' /\ ~Admitted => ~Admitted' /\ submitted' = submitted]_vars

\* Spinners stop: a load, a save and a submission end, whatever fails.
SpinnersStop == []<>(~loading) /\ []<>(~saving) /\ []<>(~pending)

=============================================================================
