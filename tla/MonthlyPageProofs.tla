------------------------- MODULE MonthlyPageProofs -------------------------
(***************************************************************************)
(* Theorems about MonthlyPage, for any employees, months, days, contents   *)
(* of the server and number of events.  What the page sends, stores and    *)
(* shows is right because of what each request carries with it: the view   *)
(* it was made for, the entries it writes, the answer it was given.  The   *)
(* inductive invariant says how the requests under way relate to the page  *)
(* and to the server.                                                      *)
(***************************************************************************)
EXTENDS MonthlyPage, WellFoundedInduction, TLAPS

----------------------------------------------------------------------------
(* The inductive invariant.                                                *)

Entries == UNION {[D -> Stored] : D \in SUBSET Days}

\* The requests under way.
LoadCall == [view : Views, n : Nat, to : Views, wrote : Entries \union {NoRows}, answer : SUBSET [Days -> Row]]
SaveCall == [to : Views, view : Views, step : {"sent", "writing", "refused"}, todo : SUBSET Days, entries : Entries]
SubmitCall == [view : Views, n : Nat, step : {"sent", "refused", "missing", "gated", "stored"}]
StatusCall == [view : Views, answer : SUBSET BOOLEAN]

CallTypes ==
    /\ events \in Nat
    /\ loads \subseteq LoadCall /\ save \subseteq SaveCall
    /\ submits \subseteq SubmitCall /\ status \subseteq StatusCall

Shape == TypeOK /\ CallTypes

\* Rows differ from what was loaded only where the user edited them.
EditInv == \A d \in DOMAIN rows : rows[d] # original[d] => d \in touched

\* The status fetch is for the view selected; so is every request of a user
\* who waits for the spinner, and what they see when no load but a save's own
\* is under way, unless the page has told them that the load failed.
ViewInv ==
    /\ \A q \in status : q.view = view
    /\ user.patient =>
          /\ \A l \in loads : l.view = view
          /\ \A s \in save : s.view = view
          /\ \A s \in submits : s.view = view
          /\ (\A l \in loads : l.wrote # NoRows) => shown = view \/ failed

\* Whatever says "submitted" has it from the server.
BadgeInv ==
    /\ \A q \in status : TRUE \in q.answer => q.view \in submitted
    /\ \A s \in submits : s.step = "stored" => s.view \in submitted
    /\ user.patient /\ status = {} /\ badge => view \in submitted

\* What has passed the gate has its reasons, or was written to since.
ReasonInv ==
    /\ SubmittedIsReasoned
    /\ \A s \in submits : s.step = "gated" => s.view \in since \/ Missing(s.view) = {}

\* The saved columns: no punch changes any but the times, which it may only
\* make late.
SavedAs(stored, entry) ==
    /\ stored.leave = entry.leave
    /\ stored.overtime = entry.overtime
    /\ stored.reason = entry.reason
    /\ entry.times # "none" => stored.times \in {entry.times, "late"}

\* One save at a time, until its reload has ended; the days it has written
\* are stored as they were sent, and loaded if the month written to is the
\* one reloaded.
SaveInv ==
    /\ \A s, t \in save : s = t
    /\ \A s \in save :
          /\ saving /\ \A l \in loads : l.wrote = NoRows
          /\ s.todo \subseteq DOMAIN s.entries
          /\ s.step # "writing" => s.todo = DOMAIN s.entries
          /\ \A d \in DOMAIN s.entries \ s.todo : SavedAs(store[s.to][d], s.entries[d])
    /\ \A l \in loads : l.wrote # NoRows =>
          /\ saving
          /\ \A m \in loads : m.wrote # NoRows => m = l
          /\ \A d \in DOMAIN l.wrote :
                /\ l.answer = {} => SavedAs(store[l.to][d], l.wrote[d])
                /\ l.to = l.view => \A r \in l.answer : r[d] = Blank \/ SavedAs(r[d].stored, l.wrote[d])

IInv == Shape /\ EditInv /\ ViewInv /\ BadgeInv /\ ReasonInv /\ SaveInv

----------------------------------------------------------------------------
(* The steps.                                                              *)

\* A click on Save that sends the edited days.
StartSave ==
    /\ AtControls /\ ~saving
    /\ saving' = TRUE
    /\ save' = {[to |-> [emp |-> view.emp, month |-> shown.month], view |-> view,
                 step |-> "sent", todo |-> ChangedDays,
                 entries |-> [d \in ChangedDays |-> rows[d].stored]]}
    /\ UNCHANGED <<server, table, user, view, loading, pending, badge, modals, known,
                   lockSeen, loads, submits, status, since>>

\* A dialog, an answer to the mount's fetches or a turn of the lock.
Aside ==
    /\ UNCHANGED <<store, submitted, table, user, view, loading, saving, pending, badge, calls, since>>
    /\ events' \in Nat /\ {locked', lockSeen'} \subseteq BOOLEAN
    /\ modals' \subseteq {"warning", "overtime", "reason"} /\ known' \subseteq {"profile", "employees", "lock"}

LoadStep(l) == LoadRead(l) \/ LoadAnswered(l) \/ SummariesFail(l) \/ CalendarFails(l)
SaveStep(s) == SaveAdmit(s) \/ SaveWrite(s) \/ SaveAnswered(s) \/ SaveRefused(s) \/ SaveFails(s)
SubmitStep(s) == SubmitGate(s) \/ SubmitStore(s) \/ SubmitAnswered(s) \/ SubmitFails(s)
StatusStep(q) == StatusRead(q) \/ StatusAnswered(q) \/ StatusFails(q)

\* An event is counted.
LEMMA EventCounts == ASSUME Shape, Event PROVE events' \in Nat
  BY DEF Shape, CallTypes, Event

\* Each of the controls that move selects a view.
LEMMA Moves ==
  ASSUME Shape, PreviousMonth \/ NextMonth \/ SelectEmployee \/ ChangeDepartment
  PROVE  \E v \in Views : Show(v)
<1>0. view \in Views
  BY DEF Shape, TypeOK
<1>1. \A m \in Months : [view EXCEPT !.month = m] \in Views
  BY <1>0 DEF Views
<1>2. \A e \in {Me} \union Others : [view EXCEPT !.emp = e] \in Views
  BY <1>0 DEF Views
<1>3. CASE PreviousMonth
  <2>1. [view EXCEPT !.month = @ - 1] \in Views
    BY <1>0, <1>3 DEF PreviousMonth, Views
  <2> QED
    BY <1>3, <2>1 DEF PreviousMonth
<1>4. CASE NextMonth
  <2>1. [view EXCEPT !.month = @ + 1] \in Views
    BY <1>0, <1>4 DEF NextMonth, Views
  <2> QED
    BY <1>4, <2>1 DEF NextMonth
<1> QED
  BY <1>2, <1>3, <1>4 DEF SelectEmployee, ChangeDepartment

\* Each edit sets one day to what could be stored.
LEMMA Edits ==
  ASSUME Shape, EditTimes \/ EditLeave \/ EditOvertime \/ EditReason
  PROVE  \E d \in DOMAIN rows, s \in Stored : Edit(d, s)
<1>0. \A d \in DOMAIN rows : rows[d].stored \in Stored
  BY DEF Shape, TypeOK, Row
<1>1. \A s \in Stored :
        /\ \A t \in Times : [s EXCEPT !.times = t] \in Stored
        /\ [s EXCEPT !.leave = ~@] \in Stored
        /\ [s EXCEPT !.overtime = ~@] \in Stored
        /\ [s EXCEPT !.reason = ~@] \in Stored
  BY DEF Stored
<1> QED
  BY <1>0, <1>1 DEF EditTimes, EditLeave, EditOvertime, EditReason

LEMMA StepCases ==
  ASSUME Shape, [Next]_vars
  PROVE  \/ UNCHANGED vars
         \/ \E v \in Views : Show(v)
         \/ \E d \in DOMAIN rows, s \in Stored : Edit(d, s)
         \/ StartSave
         \/ Event /\ PerformSubmit
         \/ Aside
         \/ \E l \in loads : LoadStep(l)
         \/ \E s \in save : SaveStep(s)
         \/ \E s \in submits : SubmitStep(s)
         \/ \E q \in status : StatusStep(q)
         \/ PunchElsewhere
<1>0. /\ {locked, lockSeen} \subseteq BOOLEAN /\ modals \subseteq {"warning", "overtime", "reason"}
      /\ known \subseteq {"profile", "employees", "lock"}
  BY DEF Shape, TypeOK
<1>1. ASSUME Event, NEW m \in {"overtime", "reason", "warning"}, Open(m) PROVE Aside
  <2>1. modals' \subseteq {"warning", "overtime", "reason"} /\ events' \in Nat
    BY <1>0, <1>1, EventCounts DEF Open
  <2> QED
    BY <1>0, <1>1, <2>1 DEF Open, Aside, server
<1>2. CASE ClickSave
  BY <1>1, <1>2 DEF ClickSave, StartSave, AtControls
<1>3. CASE ClickSubmit
  BY <1>1, <1>3 DEF ClickSubmit, AtControls
<1>4. CASE CloseModal
  <2>1. modals' \subseteq {"warning", "overtime", "reason"} /\ events' \in Nat
    BY <1>0, <1>4, EventCounts DEF CloseModal
  <2> QED
    BY <1>0, <1>4, <2>1 DEF CloseModal, Aside, server
<1>5. CASE MountAnswer
  <2>1. /\ known' \subseteq {"profile", "employees", "lock"} /\ lockSeen' \in BOOLEAN /\ events' \in Nat
    BY <1>0, <1>5 DEF MountAnswer, Shape, CallTypes
  <2> QED
    BY <1>0, <1>5, <2>1 DEF MountAnswer, Aside, server
<1>6. CASE TurnLock
  <2>1. events' \in Nat
    BY <1>6, EventCounts DEF TurnLock
  <2> QED
    BY <1>0, <1>6, <2>1 DEF TurnLock, Aside, page
<1>7. CASE WarningProceed
  BY <1>7 DEF WarningProceed
<1>8. CASE Answers \/ (\E l \in loads : SummariesFail(l) \/ CalendarFails(l)) \/ (\E s \in save : SaveFails(s))
           \/ (\E s \in submits : SubmitFails(s)) \/ (\E q \in status : StatusFails(q))
  BY <1>8 DEF Answers, LoadStep, SaveStep, SubmitStep, StatusStep
<1> QED
  BY <1>2, <1>3, <1>4, <1>5, <1>6, <1>7, <1>8, Moves, Edits DEF Next

----------------------------------------------------------------------------
(* Rows and edits.                                                         *)

\* What can happen to the table.
LEMMA TableSteps ==
  ASSUME Shape, [Next]_vars
  PROVE  \/ UNCHANGED <<rows, original, touched>>
         \/ \E d \in DOMAIN rows, s \in Stored : Edit(d, s)
         \/ \E l \in loads : LoadAnswered(l)
<1>1. CASE UNCHANGED vars \/ Aside \/ StartSave \/ PerformSubmit \/ PunchElsewhere \/ \E v \in Views : Show(v)
  BY <1>1 DEF vars, Aside, StartSave, PerformSubmit, PunchElsewhere, Show, table
<1>2. ASSUME NEW l \in loads, LoadStep(l) PROVE UNCHANGED <<rows, original, touched>> \/ LoadAnswered(l)
  BY <1>2 DEF LoadStep, LoadRead, SummariesFail, CalendarFails, table
<1>3. ASSUME NEW s \in save, SaveStep(s) PROVE UNCHANGED <<rows, original, touched>>
  BY <1>3 DEF SaveStep, SaveAdmit, SaveWrite, SaveAnswered, SaveRefused, SaveFails, SaveEndsBadly, table
<1>4. ASSUME NEW s \in submits, SubmitStep(s) PROVE UNCHANGED <<rows, original, touched>>
  BY <1>4 DEF SubmitStep, SubmitGate, SubmitStore, SubmitAnswered, SubmitFails, SubmitEnds, table
<1>5. ASSUME NEW q \in status, StatusStep(q) PROVE UNCHANGED <<rows, original, touched>>
  BY <1>5 DEF StatusStep, StatusRead, StatusAnswered, StatusFails, table
<1> QED
  BY <1>1, <1>2, <1>3, <1>4, <1>5, StepCases

LEMMA EditStep ==
  ASSUME Shape, EditInv, [Next]_vars
  PROVE  EditInv'
<1>1. CASE UNCHANGED <<rows, original, touched>>
  BY <1>1 DEF EditInv
<1>2. ASSUME NEW d \in DOMAIN rows, NEW s \in Stored, Edit(d, s) PROVE EditInv'
  BY <1>2 DEF Edit, EditInv
<1>3. ASSUME NEW l \in loads, LoadAnswered(l) PROVE EditInv'
  BY <1>3 DEF LoadAnswered, EditInv
<1> QED
  BY <1>1, <1>2, <1>3, TableSteps

----------------------------------------------------------------------------
(* Types.                                                                  *)

\* A non-empty set of days has a first one, the one SaveWrite takes.
LEMMA FirstDay ==
  ASSUME NEW S \in SUBSET Days, S # {}
  PROVE  Min(S) \in S
<1> DEFINE Below == {p \in Nat \X Nat : p[1] < p[2]}
<1>1. IsWellFoundedOn(Below, Nat)
  BY NatLessThanWellFounded DEF OpToRel
<1>2. S \in SUBSET Nat
  BY MonthlyAssumption
<1>3. PICK x \in S : \A y \in S : ~(<<y, x>> \in Below)
  BY <1>1, <1>2, WFMin
<1>4. ASSUME NEW y \in S PROVE x <= y
  <2>1. y \in Nat /\ x \in Nat /\ ~(<<y, x>> \in Below)
    BY <1>2, <1>3
  <2> QED
    BY <2>1
<1> QED
  BY <1>4 DEF Min

\* The types of the page that no request has to do with.
LEMMA NoRowsType == NoRows \in [{} -> Row] /\ NoRows \in [{} -> Stored] /\ DOMAIN NoRows = {}
  BY DEF NoRows

LEMMA EntriesAreFunctions ==
  ASSUME NEW D \in SUBSET Days, NEW f \in [D -> Stored]
  PROVE  f \in Entries
  BY DEF Entries

LEMMA EntriesDomain ==
  ASSUME NEW f \in Entries \union {NoRows}
  PROVE  DOMAIN f \subseteq Days /\ \A d \in DOMAIN f : f[d] \in Stored
  BY NoRowsType DEF Entries

LEMMA InitShape == Init => Shape
<1> SUFFICES ASSUME Init PROVE Shape
  OBVIOUS
<1>1. view \in Views
  BY DEF Init, Views
<1>2. store \in [Views -> [Days -> Stored]]
  BY MonthlyAssumption DEF Init
<1>3. Fetch(view, 0) \in LoadCall
  BY <1>1 DEF LoadCall, Fetch
<1>4. [view |-> view, answer |-> {}] \in StatusCall
  BY <1>1 DEF StatusCall
<1>5. loads \subseteq LoadCall /\ status \subseteq StatusCall
  BY <1>3, <1>4 DEF Init
<1>6. rows \in [DOMAIN rows -> Row] /\ original \in [DOMAIN rows -> Row] /\ DOMAIN rows = {}
  BY NoRowsType DEF Init
<1>7. CallTypes
  BY <1>5 DEF Init, CallTypes
<1>8. \A l \in loads : {l.to, l.view} \subseteq Views /\ DOMAIN l.wrote \subseteq Days
  BY <1>1, NoRowsType DEF Init, Fetch
<1>9. TypeOK
  BY <1>1, <1>2, <1>6, <1>8 DEF Init, TypeOK
<1> QED
  BY <1>7, <1>9 DEF Shape

\* What the types of the calls say of a call.
LEMMA CallFields ==
  ASSUME Shape
  PROVE  /\ \A l \in loads : {l.to, l.view} \subseteq Views /\ DOMAIN l.wrote \subseteq Days /\ \A r \in l.answer : r \in [Days -> Row]
         /\ \A s \in save : {s.to, s.view} \subseteq Views /\ s.todo \subseteq Days /\ s.todo \subseteq DOMAIN s.entries
         /\ \A s \in submits : s.view \in Views
         /\ \A q \in status : q.view \in Views /\ q.answer \subseteq BOOLEAN
<1>1. ASSUME NEW l \in loads
      PROVE  {l.to, l.view} \subseteq Views /\ DOMAIN l.wrote \subseteq Days /\ \A r \in l.answer : r \in [Days -> Row]
  BY EntriesDomain DEF Shape, CallTypes, LoadCall
<1>2. \A s \in save : {s.to, s.view} \subseteq Views /\ s.todo \subseteq Days /\ s.todo \subseteq DOMAIN s.entries
  BY DEF Shape, CallTypes, SaveCall, TypeOK
<1>3. \A s \in submits : s.view \in Views
  BY DEF Shape, CallTypes, SubmitCall
<1>4. \A q \in status : q.view \in Views /\ q.answer \subseteq BOOLEAN
  BY DEF Shape, CallTypes, StatusCall
<1> QED
  BY <1>1, <1>2, <1>3, <1>4

\* A new load has the type of one.
LEMMA LoadAdded ==
  ASSUME Shape, NEW l \in LoadCall, loads' = loads \union {l}
  PROVE  loads' \subseteq LoadCall /\ \A m \in loads' : {m.to, m.view} \subseteq Views /\ DOMAIN m.wrote \subseteq Days
<1>1. loads' \subseteq LoadCall
  BY DEF Shape, CallTypes
<1>2. \A m \in LoadCall : {m.to, m.view} \subseteq Views /\ m.wrote \in Entries \union {NoRows}
  BY DEF LoadCall
<1> QED
  BY <1>1, <1>2, EntriesDomain

LEMMA ShowShape ==
  ASSUME Shape, NEW v \in Views, Show(v)
  PROVE  Shape'
<1>1. events' \in Nat
  BY EventCounts DEF Show, AtControls
<1>2. Fetch(v, events') \in LoadCall
  BY <1>1 DEF LoadCall, Fetch
<1>3. loads' \subseteq LoadCall /\ \A l \in loads' : {l.to, l.view} \subseteq Views /\ DOMAIN l.wrote \subseteq Days
  BY <1>2, LoadAdded DEF Show
<1>4. status' \subseteq StatusCall
  BY DEF Show, StatusCall
<1>5. UNCHANGED <<store, submitted, locked, rows, original, shown, touched, failed, user, saving, pending, badge, modals,
                  known, lockSeen, save, submits, since>> /\ view' = v /\ loading' = TRUE
  BY DEF Show, server, table
<1> QED
  BY <1>1, <1>3, <1>4, <1>5 DEF Shape, TypeOK, CallTypes

LEMMA EditShape ==
  ASSUME Shape, NEW d \in DOMAIN rows, NEW s \in Stored, Edit(d, s)
  PROVE  Shape'
<1>1. events' \in Nat
  BY EventCounts DEF Edit
<1>2. [rows[d] EXCEPT !.stored = s] \in Row
  <2>1. rows[d] \in Row
    BY DEF Shape, TypeOK
  <2> QED
    BY <2>1 DEF Row
<1>3. rows' \in [DOMAIN rows -> Row]
  BY <1>2 DEF Edit, Shape, TypeOK
<1>4. UNCHANGED <<store, submitted, locked, original, shown, failed, user, view, loading, saving, pending, badge, modals,
                  known, lockSeen, loads, save, submits, status, since>> /\ touched' = touched \union {d}
  BY DEF Edit, server, page, calls
<1> QED
  BY <1>1, <1>3, <1>4 DEF Shape, TypeOK, CallTypes

LEMMA StartSaveShape ==
  ASSUME Shape, StartSave
  PROVE  Shape'
<1>1. events' \in Nat
  BY EventCounts DEF StartSave, AtControls
<1> DEFINE sent == [d \in ChangedDays |-> rows[d].stored]
<1>2. ChangedDays \in SUBSET Days /\ sent \in [ChangedDays -> Stored]
  BY DEF ChangedDays, Shape, TypeOK, Row
<1>3. sent \in Entries
  BY <1>2, EntriesAreFunctions
<1> DEFINE to == [emp |-> view.emp, month |-> shown.month]
<1>4. view \in Views /\ to \in Views
  BY DEF Shape, TypeOK, Views
<1> HIDE DEF sent, to
<1>5. save' = {[to |-> to, view |-> view, step |-> "sent", todo |-> ChangedDays, entries |-> sent]} /\ DOMAIN sent = ChangedDays
  BY DEF StartSave, sent, to
<1>6. save' \subseteq SaveCall /\ \A s \in save' : {s.to, s.view} \subseteq Views /\ s.todo \subseteq DOMAIN s.entries
  BY <1>2, <1>3, <1>4, <1>5 DEF SaveCall
<1>7. UNCHANGED <<store, submitted, locked, rows, original, shown, touched, failed, user, view, loading, pending, badge,
                  modals, known, lockSeen, loads, submits, status, since>> /\ saving' = TRUE
  BY DEF StartSave, server, table
<1> QED
  BY <1>1, <1>6, <1>7 DEF Shape, TypeOK, CallTypes

LEMMA SubmitClickShape ==
  ASSUME Shape, Event, PerformSubmit
  PROVE  Shape'
<1>1. events' \in Nat
  BY EventCounts
<1>2. submits' \subseteq SubmitCall
  BY <1>1 DEF PerformSubmit, Shape, TypeOK, CallTypes, SubmitCall
<1>3. UNCHANGED <<store, submitted, locked, rows, original, shown, touched, failed, user, view, loading, saving, badge,
                  modals, known, lockSeen, loads, save, status, since>> /\ pending' = TRUE
  BY DEF PerformSubmit, server, table
<1> QED
  BY <1>1, <1>2, <1>3 DEF Shape, TypeOK, CallTypes

LEMMA AsideShape ==
  ASSUME Shape, Aside
  PROVE  Shape'
  BY DEF Aside, Shape, TypeOK, CallTypes, table, calls

LEMMA LoadShape ==
  ASSUME Shape, NEW l \in loads, LoadStep(l)
  PROVE  Shape'
<1>0. l \in LoadCall /\ events \in Nat
  BY DEF Shape, CallTypes
<1>1. events' \in Nat
  BY <1>0, EventCounts DEF LoadStep, LoadRead, SummariesFail, LoadAnswered, CalendarFails
<1>2. ASSUME NEW r \in [Days -> Row], loads' = (loads \ {l}) \union {[l EXCEPT !.answer = {r}]},
             UNCHANGED <<server, table, page, save, submits, status, since>>
      PROVE  Shape'
  <2>1. [l EXCEPT !.answer = {r}] \in LoadCall
    BY <1>0 DEF LoadCall
  <2>2. loads' \subseteq LoadCall
    BY <1>2, <2>1 DEF Shape, CallTypes
  <2>3. \A m \in LoadCall : {m.to, m.view} \subseteq Views /\ m.wrote \in Entries \union {NoRows}
    BY DEF LoadCall
  <2>4. \A m \in loads' : {m.to, m.view} \subseteq Views /\ DOMAIN m.wrote \subseteq Days
    BY <2>2, <2>3, EntriesDomain
  <2> QED
    BY <1>1, <1>2, <2>2, <2>4 DEF Shape, TypeOK, CallTypes, server, table, page
<1>3. CASE LoadRead(l)
  <2> DEFINE r == [d \in Days |-> [stored |-> store[l.view][d], abnormal |-> IsAbnormal(store[l.view][d])]]
  <2>1. \A d \in Days : store[l.view][d] \in Stored
    BY CallFields DEF Shape, TypeOK
  <2>2. r \in [Days -> Row]
    BY <2>1 DEF Row, IsAbnormal
  <2> QED
    BY <1>2, <1>3, <2>2 DEF LoadRead
<1>4. CASE SummariesFail(l)
  <2>1. [d \in Days |-> Blank] \in [Days -> Row]
    BY DEF Blank, Row, Stored, Times
  <2> QED
    BY <1>2, <1>4, <2>1 DEF SummariesFail
<1>5. CASE LoadAnswered(l) \/ CalendarFails(l)
  <2>1. loads' \subseteq loads /\ UNCHANGED <<store, submitted, locked, user, view, pending, badge, modals, known,
             lockSeen, save, submits, status, since>> /\ loading' = FALSE /\ saving' \in BOOLEAN
    BY <1>5 DEF LoadAnswered, CalendarFails, LoadEnds, server
  <2>2. /\ rows' \in [DOMAIN rows' -> Row] /\ original' \in [DOMAIN rows' -> Row]
        /\ DOMAIN rows' \in {{}, Days} /\ touched' \subseteq DOMAIN rows' /\ shown' \in Views
        /\ failed' \in BOOLEAN
    <3>1. CASE LoadAnswered(l)
      BY <3>1, CallFields DEF LoadAnswered
    <3>2. CASE CalendarFails(l)
      BY <3>2 DEF CalendarFails, Shape, TypeOK
    <3> QED
      BY <1>5, <3>1, <3>2
  <2> QED
    BY <1>1, <2>1, <2>2 DEF Shape, TypeOK, CallTypes
<1> QED
  BY <1>3, <1>4, <1>5 DEF LoadStep

\* What a bulk override makes of a day can be stored.
LEMMA OverriddenIsStored ==
  ASSUME NEW s \in Stored, NEW entry \in Stored
  PROVE  Overridden(s, entry) \in Stored /\ SavedAs(Overridden(s, entry), entry)
  BY DEF Overridden, Stored, SavedAs

\* The first day of those a save still has to write.
LEMMA WrittenDay ==
  ASSUME Shape, NEW s \in save, SaveWrite(s)
  PROVE  \E d \in s.todo :
            /\ d \in Days /\ d \in DOMAIN s.entries /\ s.entries[d] \in Stored
            /\ store[s.to][d] \in Stored /\ s.to \in Views
            /\ store' = [store EXCEPT ![s.to][d] = Overridden(@, s.entries[d])]
            /\ save' = {[s EXCEPT !.todo = @ \ {d}]}
<1>0. s \in SaveCall /\ s.todo \subseteq DOMAIN s.entries /\ s.todo \subseteq Days /\ s.to \in Views
  BY CallFields DEF Shape, CallTypes
<1>1. Min(s.todo) \in s.todo
  BY <1>0, FirstDay DEF SaveWrite
<1>2. \A d \in DOMAIN s.entries : s.entries[d] \in Stored
  BY <1>0, EntriesDomain DEF SaveCall
<1>3. \A d \in Days : store[s.to][d] \in Stored
  BY <1>0 DEF Shape, TypeOK
<1> QED
  BY <1>0, <1>1, <1>2, <1>3 DEF SaveWrite

LEMMA SaveShape ==
  ASSUME Shape, NEW s \in save, SaveStep(s)
  PROVE  Shape'
<1>0. s \in SaveCall /\ s.todo \subseteq DOMAIN s.entries
  BY DEF Shape, CallTypes, TypeOK
<1>1. CASE SaveAdmit(s)
  <2>1. save' \subseteq SaveCall /\ \A t \in save' : {t.to, t.view} \subseteq Views /\ t.todo \subseteq DOMAIN t.entries
    BY <1>0, <1>1 DEF SaveAdmit, SaveCall
  <2> QED
    BY <1>1, <2>1 DEF SaveAdmit, Shape, TypeOK, CallTypes, server, table, page
<1>2. CASE SaveWrite(s)
  <2>1. PICK d \in s.todo :
           /\ d \in Days /\ s.entries[d] \in Stored /\ store[s.to][d] \in Stored /\ s.to \in Views
           /\ store' = [store EXCEPT ![s.to][d] = Overridden(@, s.entries[d])]
           /\ save' = {[s EXCEPT !.todo = @ \ {d}]}
    BY <1>2, WrittenDay
  <2>2. store' \in [Views -> [Days -> Stored]]
    BY <2>1, OverriddenIsStored DEF Shape, TypeOK
  <2>3. save' \subseteq SaveCall /\ \A t \in save' : {t.to, t.view} \subseteq Views /\ t.todo \subseteq DOMAIN t.entries
    BY <1>0, <2>1 DEF SaveCall
  <2> QED
    BY <1>2, <2>1, <2>2, <2>3 DEF SaveWrite, Shape, TypeOK, CallTypes, table, page
<1>3. CASE SaveAnswered(s)
  <2>1. [Fetch(s.view, events) EXCEPT !.to = s.to, !.wrote = s.entries] \in LoadCall
    BY <1>0 DEF Fetch, LoadCall, SaveCall, Shape, CallTypes
  <2>2. loads' \subseteq LoadCall /\ \A l \in loads' : {l.to, l.view} \subseteq Views /\ DOMAIN l.wrote \subseteq Days
    BY <1>3, <2>1, LoadAdded DEF SaveAnswered
  <2>3. UNCHANGED <<store, submitted, locked, rows, original, shown, touched, failed, user, view, saving, pending, badge,
                    modals, known, lockSeen, submits, status, events, since>> /\ save' = {} /\ loading' = TRUE
    BY <1>3 DEF SaveAnswered, server, table
  <2> QED
    BY <2>2, <2>3 DEF Shape, TypeOK, CallTypes
<1>4. CASE SaveRefused(s) \/ SaveFails(s)
  <2>1. events' \in Nat
    BY <1>4, EventCounts DEF SaveRefused, SaveFails, Shape, CallTypes
  <2>2. UNCHANGED <<store, submitted, locked, rows, original, shown, touched, failed, user, view, loading, pending, badge,
                    modals, known, lockSeen, loads, submits, status, since>> /\ save' = {} /\ saving' = FALSE
    BY <1>4 DEF SaveRefused, SaveFails, SaveEndsBadly, server, table
  <2> QED
    BY <2>1, <2>2 DEF Shape, TypeOK, CallTypes
<1> QED
  BY <1>1, <1>2, <1>3, <1>4 DEF SaveStep

LEMMA SubmitShape ==
  ASSUME Shape, NEW s \in submits, SubmitStep(s)
  PROVE  Shape'
<1>0. s \in SubmitCall /\ s.view \in Views
  BY CallFields DEF Shape, CallTypes
<1>1. CASE SubmitGate(s)
  <2>1. submits' \subseteq SubmitCall
    BY <1>0, <1>1 DEF SubmitGate, SubmitCall, Shape, CallTypes
  <2> QED
    BY <1>0, <1>1, <2>1 DEF SubmitGate, Shape, TypeOK, CallTypes, server, table, page
<1>2. CASE SubmitStore(s)
  <2>1. submits' \subseteq SubmitCall
    BY <1>0, <1>2 DEF SubmitStore, SubmitCall, Shape, CallTypes
  <2> QED
    BY <1>0, <1>2, <2>1 DEF SubmitStore, Shape, TypeOK, CallTypes, table, page
<1>3. CASE SubmitAnswered(s) \/ SubmitFails(s)
  <2>1. events' \in Nat
    BY <1>3, EventCounts DEF SubmitAnswered, SubmitFails, Shape, CallTypes
  <2>2. /\ UNCHANGED <<store, submitted, locked, rows, original, shown, touched, failed, user, view, loading, saving,
                       known, lockSeen, loads, save, status, since>>
        /\ submits' \subseteq submits /\ pending' = FALSE /\ badge' \in BOOLEAN
        /\ modals' \subseteq modals \union {"reason"}
    BY <1>3 DEF SubmitAnswered, SubmitFails, SubmitEnds, server, table, Shape, TypeOK
  <2> QED
    BY <2>1, <2>2 DEF Shape, TypeOK, CallTypes
<1> QED
  BY <1>1, <1>2, <1>3 DEF SubmitStep

LEMMA StatusShape ==
  ASSUME Shape, NEW q \in status, StatusStep(q)
  PROVE  Shape'
<1>0. q \in StatusCall
  BY DEF Shape, CallTypes
<1>1. events' \in Nat
  BY EventCounts DEF StatusStep, StatusRead, StatusAnswered, StatusFails, Shape, CallTypes
<1>2. status' \subseteq StatusCall
  <2>1. \A b \in BOOLEAN : [q EXCEPT !.answer = {b}] \in StatusCall
    BY <1>0 DEF StatusCall
  <2>2. (q.view \in submitted) \in BOOLEAN
    OBVIOUS
  <2>3. status' = {} \/ status' = {[q EXCEPT !.answer = {q.view \in submitted}]}
    BY DEF StatusStep, StatusRead, StatusAnswered, StatusFails
  <2> QED
    BY <2>1, <2>2, <2>3
<1>3. badge' \in BOOLEAN
  BY CallFields DEF StatusStep, StatusRead, StatusAnswered, StatusFails, page, Shape, TypeOK
<1>4. UNCHANGED <<store, submitted, locked, rows, original, shown, touched, failed, user, view, loading, saving, pending,
                  modals, known, lockSeen, loads, save, submits, since>>
  BY DEF StatusStep, StatusRead, StatusAnswered, StatusFails, server, table, page
<1> QED
  BY <1>1, <1>2, <1>3, <1>4 DEF Shape, TypeOK, CallTypes

LEMMA PunchShape ==
  ASSUME Shape, PunchElsewhere
  PROVE  Shape'
<1>1. events' \in Nat
  BY EventCounts DEF PunchElsewhere
<1>2. PICK v \in Views, d \in Days :
         store' = [store EXCEPT ![v][d].times = "late"] /\ since' = since \union {v}
  BY DEF PunchElsewhere
<1>3. [store[v][d] EXCEPT !.times = "late"] \in Stored
  <2>1. store[v][d] \in Stored
    BY DEF Shape, TypeOK
  <2> QED
    BY <2>1 DEF Stored, Times
<1>4. store' \in [Views -> [Days -> Stored]]
  BY <1>2, <1>3 DEF Shape, TypeOK
<1>5. UNCHANGED <<submitted, locked, table, page, calls>>
  BY DEF PunchElsewhere
<1> QED
  BY <1>1, <1>2, <1>4, <1>5 DEF Shape, TypeOK, CallTypes, table, page, calls

LEMMA ShapeStep ==
  ASSUME Shape, [Next]_vars
  PROVE  Shape'
<1>1. CASE UNCHANGED vars
  BY <1>1 DEF Shape, TypeOK, CallTypes, vars, server, table, page, calls
<1> QED
  BY <1>1, StepCases, ShowShape, EditShape, StartSaveShape, SubmitClickShape, AsideShape, LoadShape, SaveShape,
     SubmitShape, StatusShape, PunchShape

----------------------------------------------------------------------------
(* Views.                                                                  *)

\* A user who waits moves and saves only when nothing is under way.
LEMMA ViewStep ==
  ASSUME Shape, ViewInv, [Next]_vars
  PROVE  ViewInv'
<1>1. CASE UNCHANGED vars \/ Aside \/ PunchElsewhere
  BY <1>1 DEF vars, Aside, PunchElsewhere, table, page, calls, ViewInv
<1>2. ASSUME NEW v \in Views, Show(v) PROVE ViewInv'
  <2>1. view' = v /\ status' = {[view |-> v, answer |-> {}]} /\ UNCHANGED <<user, save, submits>>
        /\ loads' = loads \union {Fetch(v, events')}
        /\ (user.patient => Idle)
    BY <1>2 DEF Show, AtControls
  <2> DEFINE new == Fetch(v, events')
  <2>2. new.view = v /\ new.wrote = NoRows /\ [view |-> v, answer |-> {}].view = v /\ loads' = loads \union {new}
    BY <2>1 DEF Fetch
  <2> HIDE DEF new
  <2>3. \A q \in status' : q.view = view'
    BY <2>1, <2>2
  <2>4. ASSUME user'.patient
        PROVE  loads' = {new} /\ save' = {} /\ submits' = {}
    BY <2>1, <2>2, <2>4 DEF Idle
  <2> QED
    BY <2>1, <2>2, <2>3, <2>4 DEF ViewInv
<1>3. ASSUME NEW d \in DOMAIN rows, NEW s \in Stored, Edit(d, s) PROVE ViewInv'
  BY <1>3 DEF Edit, ViewInv, page, calls
<1>4. CASE StartSave
  BY <1>4 DEF StartSave, ViewInv, table
<1>5. CASE PerformSubmit
  BY <1>5 DEF PerformSubmit, ViewInv, table
<1>6. ASSUME NEW l \in loads, LoadStep(l) PROVE ViewInv'
  <2>1. CASE LoadRead(l) \/ SummariesFail(l)
    <3>1. PICK a : loads' = (loads \ {l}) \union {[l EXCEPT !.answer = a]}
      BY <2>1 DEF LoadRead, SummariesFail
    <3>2. [l EXCEPT !.answer = a].view = l.view /\ [l EXCEPT !.answer = a].wrote = l.wrote
      BY DEF Shape, CallTypes, LoadCall
    <3>3. UNCHANGED <<table, page, save, submits, status>>
      BY <2>1, <3>1 DEF LoadRead, SummariesFail
    <3> QED
      BY <3>1, <3>2, <3>3 DEF ViewInv, table, page
  <2>2. CASE LoadAnswered(l)
    BY <2>2 DEF LoadAnswered, LoadEnds, ViewInv
  <2>3. CASE CalendarFails(l)
    BY <2>3 DEF CalendarFails, LoadEnds, ViewInv
  <2> QED
    BY <1>6, <2>1, <2>2, <2>3 DEF LoadStep
<1>7. ASSUME NEW s \in save, SaveStep(s) PROVE ViewInv'
  <2>1. CASE SaveAdmit(s) \/ SaveWrite(s)
    <3>1. \A t \in save' : t.view = s.view
      BY <2>1 DEF SaveAdmit, SaveWrite, Shape, CallTypes, SaveCall
    <3>2. UNCHANGED <<table, page, loads, submits, status>>
      BY <2>1 DEF SaveAdmit, SaveWrite
    <3> QED
      BY <3>1, <3>2 DEF ViewInv, table, page
  <2>2. CASE SaveAnswered(s)
    <3> DEFINE new == [Fetch(s.view, events) EXCEPT !.to = s.to, !.wrote = s.entries]
    <3>1. /\ loads' = loads \union {new} /\ new.view = s.view /\ save' = {}
          /\ UNCHANGED <<table, user, view, submits, status>>
      BY <2>2 DEF SaveAnswered, Fetch
    <3> HIDE DEF new
    <3> QED
      BY <3>1 DEF ViewInv, table
  <2>3. CASE SaveRefused(s) \/ SaveFails(s)
    BY <2>3 DEF SaveRefused, SaveFails, SaveEndsBadly, ViewInv, table
  <2> QED
    BY <1>7, <2>1, <2>2, <2>3 DEF SaveStep
<1>8. ASSUME NEW s \in submits, SubmitStep(s) PROVE ViewInv'
  <2>1. CASE SubmitGate(s) \/ SubmitStore(s)
    <3>1. PICK p : submits' = (submits \ {s}) \union {[s EXCEPT !.step = p]}
      BY <2>1 DEF SubmitGate, SubmitStore
    <3>2. [s EXCEPT !.step = p].view = s.view
      BY DEF Shape, CallTypes, SubmitCall
    <3>3. UNCHANGED <<table, page, loads, save, status>>
      BY <2>1 DEF SubmitGate, SubmitStore
    <3> QED
      BY <3>1, <3>2, <3>3 DEF ViewInv, table, page
  <2>2. CASE SubmitAnswered(s) \/ SubmitFails(s)
    BY <2>2 DEF SubmitAnswered, SubmitFails, SubmitEnds, ViewInv, table
  <2> QED
    BY <1>8, <2>1, <2>2 DEF SubmitStep
<1>9. ASSUME NEW q \in status, StatusStep(q) PROVE ViewInv'
  <2>1. \A p \in status' : p.view = q.view
    BY <1>9 DEF StatusStep, StatusRead, StatusAnswered, StatusFails, Shape, CallTypes, StatusCall
  <2>2. UNCHANGED <<shown, failed, user, view, loads, save, submits>>
    BY <1>9 DEF StatusStep, StatusRead, StatusAnswered, StatusFails, table, page
  <2> QED
    BY <2>1, <2>2 DEF ViewInv
<1> QED
  BY <1>1, <1>2, <1>3, <1>4, <1>5, <1>6, <1>7, <1>8, <1>9, StepCases

----------------------------------------------------------------------------
(* The badge.                                                              *)

\* Steps that have nothing to do with submissions, statuses or views.
SubmissionsStay == UNCHANGED <<user, submitted, view, badge, submits, status>>

\* A step of a load or a save.
LEMMA OtherCalls ==
  ASSUME (\E l \in loads : LoadStep(l)) \/ (\E s \in save : SaveStep(s))
         \/ UNCHANGED vars \/ Aside \/ PunchElsewhere \/ StartSave
         \/ (\E d \in DOMAIN rows, s \in Stored : Edit(d, s))
  PROVE  SubmissionsStay
<1>1. CASE UNCHANGED vars \/ Aside \/ PunchElsewhere \/ StartSave \/ \E d \in DOMAIN rows, s \in Stored : Edit(d, s)
  BY <1>1 DEF vars, Aside, PunchElsewhere, StartSave, Edit, server, page, calls, SubmissionsStay
<1>2. ASSUME NEW l \in loads, LoadStep(l) PROVE SubmissionsStay
  BY <1>2 DEF LoadStep, LoadRead, LoadAnswered, SummariesFail, CalendarFails, LoadEnds, server, page, SubmissionsStay
<1>3. ASSUME NEW s \in save, SaveStep(s) PROVE SubmissionsStay
  BY <1>3 DEF SaveStep, SaveAdmit, SaveWrite, SaveAnswered, SaveRefused, SaveFails, SaveEndsBadly, server, page,
     SubmissionsStay
<1> QED
  BY <1>1, <1>2, <1>3

LEMMA BadgeStep ==
  ASSUME Shape, ViewInv, BadgeInv, [Next]_vars
  PROVE  BadgeInv'
<1>1. CASE SubmissionsStay
  BY <1>1 DEF SubmissionsStay, BadgeInv
<1>2. ASSUME NEW v \in Views, Show(v) PROVE BadgeInv'
  <2>1. status' = {[view |-> v, answer |-> {}]} /\ UNCHANGED <<submitted, submits>>
    BY <1>2 DEF Show, server
  <2>2. [view |-> v, answer |-> {}].answer = {} /\ status' # {}
    BY <2>1
  <2> QED
    BY <2>1, <2>2 DEF BadgeInv
<1>3. CASE PerformSubmit
  <2>1. /\ submits' = submits \union {[view |-> view, n |-> events', step |-> "sent"]}
        /\ UNCHANGED <<user, submitted, view, badge, status>>
    BY <1>3 DEF PerformSubmit, server
  <2>2. [view |-> view, n |-> events', step |-> "sent"].step # "stored"
    OBVIOUS
  <2> QED
    BY <2>1, <2>2 DEF BadgeInv
<1>4. ASSUME NEW s \in submits, SubmitStep(s) PROVE BadgeInv'
  <2>0. s \in SubmitCall
    BY DEF Shape, CallTypes
  <2>1. CASE SubmitGate(s)
    <3>1. PICK p \in {"refused", "missing", "gated"} : submits' = (submits \ {s}) \union {[s EXCEPT !.step = p]}
      BY <2>1 DEF SubmitGate
    <3>2. [s EXCEPT !.step = p].step = p
      BY <2>0 DEF SubmitCall
    <3>3. UNCHANGED <<server, page, status>>
      BY <2>1 DEF SubmitGate
    <3> QED
      BY <3>1, <3>2, <3>3 DEF BadgeInv, server, page
  <2>2. CASE SubmitStore(s)
    <3>1. submits' = (submits \ {s}) \union {[s EXCEPT !.step = "stored"]} /\ submitted' = submitted \union {s.view}
      BY <2>2 DEF SubmitStore
    <3>2. [s EXCEPT !.step = "stored"].view = s.view
      BY <2>0 DEF SubmitCall
    <3>3. UNCHANGED <<page, status>>
      BY <2>2 DEF SubmitStore
    <3> QED
      BY <3>1, <3>2, <3>3 DEF BadgeInv, page
  <2>3. CASE SubmitAnswered(s) \/ SubmitFails(s)
    <3>1. /\ submits' \subseteq submits /\ UNCHANGED <<user, submitted, view, status>>
          /\ badge' => badge \/ s.step = "stored"
      <4>1. badge' => badge \/ s.step = "stored"
        BY <2>3 DEF SubmitAnswered, SubmitFails, SubmitEnds
      <4> QED
        BY <2>3, <4>1 DEF SubmitAnswered, SubmitFails, SubmitEnds, server
    <3> QED
      BY <3>1 DEF BadgeInv, ViewInv
  <2> QED
    BY <1>4, <2>1, <2>2, <2>3 DEF SubmitStep
<1>5. ASSUME NEW q \in status, StatusStep(q) PROVE BadgeInv'
  <2>0. q \in StatusCall
    BY DEF Shape, CallTypes
  <2>1. CASE StatusRead(q)
    <3>1. status' = {[q EXCEPT !.answer = {q.view \in submitted}]} /\ UNCHANGED <<server, page, submits>>
      BY <2>1 DEF StatusRead
    <3>2. /\ [q EXCEPT !.answer = {q.view \in submitted}].view = q.view
          /\ [q EXCEPT !.answer = {q.view \in submitted}].answer = {q.view \in submitted}
      BY <2>0 DEF StatusCall
    <3>3. TRUE \in {q.view \in submitted} => q.view \in submitted
      OBVIOUS
    <3> QED
      BY <3>1, <3>2, <3>3 DEF BadgeInv, server, page
  <2>2. CASE StatusAnswered(q) \/ StatusFails(q)
    <3>1. status' = {} /\ UNCHANGED <<user, submitted, view, submits>> /\ (badge' = FALSE \/ badge' \in q.answer)
      BY <2>2 DEF StatusAnswered, StatusFails, server
    <3>2. badge' => q.view \in submitted
      <4>1. q.answer \subseteq BOOLEAN
        BY CallFields
      <4>2. badge' => badge' = TRUE \/ badge' = FALSE
        BY <3>1, <4>1
      <4> QED
        BY <3>1, <4>2 DEF BadgeInv
    <3> QED
      BY <3>1, <3>2 DEF BadgeInv, ViewInv
  <2> QED
    BY <1>5, <2>1, <2>2 DEF StatusStep
<1> QED
  BY <1>1, <1>2, <1>3, <1>4, <1>5, OtherCalls, StepCases

----------------------------------------------------------------------------
(* Late reasons.                                                           *)

\* A step that writes, to one view at most.
Writes(v) ==
    /\ since' = since \union {v} /\ UNCHANGED <<submitted, submits>>
    /\ \A w \in Views : w # v => store'[w] = store[w]

LEMMA WriteReasons ==
  ASSUME Shape, ReasonInv, NEW v \in Views, Writes(v)
  PROVE  ReasonInv'
<1>1. \A w \in Views : w # v => Missing(w)' = Missing(w)
  BY DEF Writes, Missing
<1>2. submitted \subseteq Views /\ \A s \in submits : s.view \in Views
  BY CallFields DEF Shape, TypeOK
<1> QED
  BY <1>1, <1>2 DEF ReasonInv, SubmittedIsReasoned, Writes

LEMMA StoreSteps ==
  ASSUME Shape, [Next]_vars
  PROVE  \/ UNCHANGED <<store, submitted, submits, since>>
         \/ \E v \in Views : Writes(v)
         \/ Event /\ PerformSubmit
         \/ \E s \in submits : SubmitStep(s)
<1>0. store \in [Views -> [Days -> Stored]]
  BY DEF Shape, TypeOK
<1>1. CASE UNCHANGED vars \/ Aside \/ StartSave \/ (\E v \in Views : Show(v))
           \/ \E d \in DOMAIN rows, s \in Stored : Edit(d, s)
  BY <1>1 DEF vars, Aside, StartSave, Show, Edit, server, calls
<1>2. ASSUME NEW l \in loads, LoadStep(l) PROVE UNCHANGED <<store, submitted, submits, since>>
  BY <1>2 DEF LoadStep, LoadRead, LoadAnswered, SummariesFail, CalendarFails, LoadEnds, server
<1>3. ASSUME NEW q \in status, StatusStep(q) PROVE UNCHANGED <<store, submitted, submits, since>>
  BY <1>3 DEF StatusStep, StatusRead, StatusAnswered, StatusFails, server
<1>4. ASSUME NEW s \in save, SaveStep(s), ~SaveWrite(s) PROVE UNCHANGED <<store, submitted, submits, since>>
  BY <1>4 DEF SaveStep, SaveAdmit, SaveAnswered, SaveRefused, SaveFails, SaveEndsBadly, server
<1>5. ASSUME NEW s \in save, SaveWrite(s) PROVE \E v \in Views : Writes(v)
  <2>1. PICK d \in s.todo :
           store' = [store EXCEPT ![s.to][d] = Overridden(@, s.entries[d])] /\ s.to \in Views
    BY <1>5, WrittenDay
  <2>2. \A w \in Views : w # s.to => store'[w] = store[w]
    BY <1>0, <2>1
  <2> QED
    BY <1>5, <2>1, <2>2 DEF Writes, SaveWrite
<1>6. CASE PunchElsewhere
  <2>1. PICK v \in Views, d \in Days :
           store' = [store EXCEPT ![v][d].times = "late"] /\ since' = since \union {v}
    BY <1>6 DEF PunchElsewhere
  <2>2. \A w \in Views : w # v => store'[w] = store[w]
    BY <1>0, <2>1
  <2> QED
    BY <1>6, <2>1, <2>2 DEF Writes, PunchElsewhere, calls
<1> QED
  BY <1>1, <1>2, <1>3, <1>4, <1>5, <1>6, StepCases

\* The gate looks at the month that is then stored as submitted.
LEMMA ReasonStep ==
  ASSUME Shape, ReasonInv, [Next]_vars
  PROVE  ReasonInv'
<1>1. CASE UNCHANGED <<store, submitted, submits, since>>
  BY <1>1 DEF ReasonInv, SubmittedIsReasoned, Missing
<1>2. ASSUME NEW v \in Views, Writes(v) PROVE ReasonInv'
  BY <1>2, WriteReasons
<1>3. CASE PerformSubmit
  <2>1. /\ submits' = submits \union {[view |-> view, n |-> events', step |-> "sent"]}
        /\ UNCHANGED <<store, submitted, since>>
    BY <1>3 DEF PerformSubmit, server
  <2>2. [view |-> view, n |-> events', step |-> "sent"].step # "gated"
    OBVIOUS
  <2> QED
    BY <2>1, <2>2 DEF ReasonInv, SubmittedIsReasoned, Missing
<1>4. ASSUME NEW s \in submits, SubmitStep(s) PROVE ReasonInv'
  <2>0. s \in SubmitCall
    BY DEF Shape, CallTypes
  <2>1. CASE SubmitGate(s)
    <3>1. UNCHANGED <<store, submitted>> /\ \A v : Missing(v)' = Missing(v)
      BY <2>1 DEF SubmitGate, server, Missing
    <3>2. PICK p \in {"refused", "missing", "gated"} :
             /\ submits' = (submits \ {s}) \union {[s EXCEPT !.step = p]}
             /\ p = "gated" => Missing(s.view) = {}
      BY <2>1 DEF SubmitGate
    <3>3. [s EXCEPT !.step = p].step = p /\ [s EXCEPT !.step = p].view = s.view
      BY <2>0 DEF SubmitCall
    <3>4. since' = since \/ (since' = since \ {s.view} /\ Missing(s.view) = {})
      BY <2>1 DEF SubmitGate
    <3>5. \A v \in submitted' \ since' : Missing(v)' = {}
      BY <3>1, <3>4 DEF ReasonInv, SubmittedIsReasoned
    <3>6. ASSUME NEW t \in submits', t.step = "gated" PROVE t.view \in since' \/ Missing(t.view)' = {}
      BY <3>1, <3>2, <3>3, <3>4, <3>6 DEF ReasonInv
    <3> QED
      BY <3>5, <3>6 DEF ReasonInv, SubmittedIsReasoned
  <2>2. CASE SubmitStore(s)
    <3>1. /\ submits' = (submits \ {s}) \union {[s EXCEPT !.step = "stored"]} /\ s.step = "gated"
          /\ submitted' = submitted \union {s.view} /\ UNCHANGED <<store, since>>
      BY <2>2 DEF SubmitStore
    <3>2. [s EXCEPT !.step = "stored"].step # "gated"
      BY <2>0 DEF SubmitCall
    <3>3. \A v : Missing(v)' = Missing(v)
      BY <3>1 DEF Missing
    <3> QED
      BY <3>1, <3>2, <3>3 DEF ReasonInv, SubmittedIsReasoned
  <2>3. CASE SubmitAnswered(s) \/ SubmitFails(s)
    <3>1. submits' \subseteq submits /\ UNCHANGED <<store, submitted, since>>
      BY <2>3 DEF SubmitAnswered, SubmitFails, SubmitEnds, server
    <3> QED
      BY <3>1 DEF ReasonInv, SubmittedIsReasoned, Missing
  <2> QED
    BY <1>4, <2>1, <2>2, <2>3 DEF SubmitStep
<1> QED
  BY <1>1, <1>2, <1>3, <1>4, StoreSteps

----------------------------------------------------------------------------
(* Saves.                                                                  *)

\* What a save has written or a reload must show is there.
LEMMA SaveInvStep ==
  ASSUME Shape, SaveInv, [Next]_vars
  PROVE  SaveInv'
<1>0. store \in [Views -> [Days -> Stored]]
  BY DEF Shape, TypeOK
<1>1. CASE UNCHANGED <<store, saving, loads, save>>
  BY <1>1 DEF SaveInv
<1>2. ASSUME NEW v \in Views, Show(v) PROVE SaveInv'
  <2> DEFINE new == Fetch(v, events')
  <2>1. loads' = loads \union {new} /\ new.wrote = NoRows /\ UNCHANGED <<store, saving, save>>
    BY <1>2 DEF Show, server, Fetch
  <2> HIDE DEF new
  <2> QED
    BY <2>1 DEF SaveInv
<1>3. CASE StartSave
  <2> DEFINE new == [to |-> [emp |-> view.emp, month |-> shown.month], view |-> view,
                     step |-> "sent", todo |-> ChangedDays,
                     entries |-> [d \in ChangedDays |-> rows[d].stored]]
  <2>1. /\ save' = {new} /\ new.step = "sent" /\ new.todo = DOMAIN new.entries
        /\ saving' = TRUE /\ ~saving /\ UNCHANGED <<store, loads>>
    BY <1>3 DEF StartSave, server
  <2> HIDE DEF new
  <2> QED
    BY <2>1 DEF SaveInv
<1>4. CASE PunchElsewhere
  <2>1. PICK v \in Views, d \in Days : store' = [store EXCEPT ![v][d].times = "late"]
    BY <1>4 DEF PunchElsewhere
  <2>2. /\ [store[v][d] EXCEPT !.times = "late"].times = "late"
        /\ [store[v][d] EXCEPT !.times = "late"].leave = store[v][d].leave
        /\ [store[v][d] EXCEPT !.times = "late"].overtime = store[v][d].overtime
        /\ [store[v][d] EXCEPT !.times = "late"].reason = store[v][d].reason
    <3>1. store[v][d] \in Stored
      BY <1>0
    <3> QED
      BY <3>1 DEF Stored
  <2>3. \A w \in Views, x \in Days : \A entry :
          SavedAs(store[w][x], entry) => SavedAs(store'[w][x], entry)
    BY <1>0, <2>1, <2>2 DEF SavedAs
  <2>4. UNCHANGED <<saving, loads, save>>
    BY <1>4 DEF PunchElsewhere, page, calls
  <2>5. \A s \in save : s.to \in Views /\ DOMAIN s.entries \subseteq Days
    BY CallFields, EntriesDomain DEF Shape, CallTypes, SaveCall
  <2> QED
    BY <2>3, <2>4, <2>5, CallFields DEF SaveInv
<1>5. ASSUME NEW l \in loads, LoadStep(l) PROVE SaveInv'
  <2>0. l \in LoadCall /\ DOMAIN l.wrote \subseteq Days
    BY CallFields DEF Shape, CallTypes
  <2>1. CASE LoadRead(l) \/ SummariesFail(l)
    <3>1. PICK r : /\ loads' = (loads \ {l}) \union {[l EXCEPT !.answer = {r}]} /\ l.answer = {}
                   /\ (\A d \in Days : r[d] = Blank) \/ \A d \in Days : r[d].stored = store[l.view][d]
      <4>1. CASE LoadRead(l)
        <5> DEFINE r == [d \in Days |-> [stored |-> store[l.view][d], abnormal |-> IsAbnormal(store[l.view][d])]]
        <5>1. \A d \in Days : r[d].stored = store[l.view][d]
          OBVIOUS
        <5> QED
          BY <4>1, <5>1 DEF LoadRead
      <4>2. CASE SummariesFail(l)
        <5> DEFINE r == [d \in Days |-> Blank]
        <5>1. \A d \in Days : r[d] = Blank
          OBVIOUS
        <5> QED
          BY <4>2, <5>1 DEF SummariesFail
      <4> QED
        BY <2>1, <4>1, <4>2
    <3> DEFINE new == [l EXCEPT !.answer = {r}]
    <3>2. new.view = l.view /\ new.to = l.to /\ new.wrote = l.wrote /\ new.answer = {r} /\ loads' = (loads \ {l}) \union {new}
      BY <2>0, <3>1 DEF LoadCall
    <3> HIDE DEF new
    <3>3. UNCHANGED <<store, saving, save>>
      BY <2>1 DEF LoadRead, SummariesFail, server, page
    <3>4. ASSUME NEW m \in loads', m.wrote # NoRows
          PROVE  /\ saving'
                 /\ \A k \in loads' : k.wrote # NoRows => k = m
                 /\ \A d \in DOMAIN m.wrote :
                       /\ m.answer = {} => SavedAs(store'[m.to][d], m.wrote[d])
                       /\ m.to = m.view => \A x \in m.answer : x[d] = Blank \/ SavedAs(x[d].stored, m.wrote[d])
      <4>1. CASE m = new
        <5>1. l.wrote # NoRows
          BY <3>2, <3>4, <4>1
        <5>2. saving' /\ \A k \in loads' : k.wrote # NoRows => k = m
          BY <3>2, <3>3, <4>1, <5>1 DEF SaveInv
        <5>3. ASSUME m.to = m.view PROVE \A d \in DOMAIN m.wrote : r[d] = Blank \/ SavedAs(r[d].stored, m.wrote[d])
          <6>1. \A d \in DOMAIN l.wrote : d \in Days /\ SavedAs(store[l.to][d], l.wrote[d])
            BY <2>0, <3>1, <5>1 DEF SaveInv
          <6> QED
            BY <3>1, <3>2, <4>1, <5>3, <6>1
        <5> QED
          BY <3>2, <4>1, <5>2, <5>3
      <4>2. CASE m # new
        BY <3>2, <3>3, <3>4, <4>2 DEF SaveInv
      <4> QED
        BY <4>1, <4>2
    <3>5. \A m \in loads' : (\A k \in loads : k.wrote = NoRows) => m.wrote = NoRows
      BY <3>2
    <3> QED
      BY <3>3, <3>4, <3>5 DEF SaveInv
  <2>2. CASE LoadAnswered(l) \/ CalendarFails(l)
    <3>1. loads' = loads \ {l} /\ UNCHANGED <<store, save>> /\ saving' = (saving /\ l.wrote = NoRows)
      BY <2>2 DEF LoadAnswered, CalendarFails, LoadEnds, server
    <3> QED
      BY <3>1 DEF SaveInv
  <2> QED
    BY <1>5, <2>1, <2>2 DEF LoadStep
<1>6. ASSUME NEW s \in save, SaveStep(s) PROVE SaveInv'
  <2>0. s \in SaveCall
    BY DEF Shape, CallTypes
  <2>1. CASE SaveAdmit(s)
    <3>1. PICK p \in {"refused", "writing"} : save' = {[s EXCEPT !.step = p]} /\ s.step = "sent"
      BY <2>1 DEF SaveAdmit
    <3> DEFINE new == [s EXCEPT !.step = p]
    <3>2. new.to = s.to /\ new.todo = s.todo /\ new.entries = s.entries /\ save' = {new}
      BY <2>0, <3>1 DEF SaveCall
    <3> HIDE DEF new
    <3>3. UNCHANGED <<store, saving, loads>>
      BY <2>1 DEF SaveAdmit, server, page
    <3> QED
      BY <3>1, <3>2, <3>3 DEF SaveInv
  <2>2. CASE SaveWrite(s)
    <3>1. PICK d \in s.todo :
             /\ d \in Days /\ s.entries[d] \in Stored /\ store[s.to][d] \in Stored /\ s.to \in Views
             /\ store' = [store EXCEPT ![s.to][d] = Overridden(@, s.entries[d])]
             /\ save' = {[s EXCEPT !.todo = @ \ {d}]}
      BY <2>2, WrittenDay
    <3> DEFINE new == [s EXCEPT !.todo = @ \ {d}]
    <3>2. /\ new.to = s.to /\ new.todo = s.todo \ {d} /\ new.entries = s.entries /\ new.step = s.step
          /\ save' = {new}
      BY <2>0, <3>1 DEF SaveCall
    <3> HIDE DEF new
    <3>3. UNCHANGED <<saving, loads>> /\ s.step = "writing"
      BY <2>2 DEF SaveWrite, page
    <3>4. SavedAs(store'[s.to][d], s.entries[d])
      BY <1>0, <3>1, OverriddenIsStored
    <3>5. \A x \in Days : x # d => store'[s.to][x] = store[s.to][x]
      BY <1>0, <3>1
    <3>6. DOMAIN s.entries \subseteq Days
      BY <2>0, EntriesDomain DEF SaveCall
    <3>7. \A x \in DOMAIN new.entries \ new.todo : SavedAs(store'[new.to][x], new.entries[x])
      BY <3>2, <3>4, <3>5, <3>6 DEF SaveInv
    <3> QED
      BY <3>2, <3>3, <3>7 DEF SaveInv
  <2>3. CASE SaveAnswered(s)
    <3> DEFINE new == [Fetch(s.view, events) EXCEPT !.to = s.to, !.wrote = s.entries]
    <3>1. /\ loads' = loads \union {new} /\ save' = {} /\ UNCHANGED <<store, saving>> /\ s.todo = {}
          /\ new.to = s.to /\ new.wrote = s.entries /\ new.answer = {}
      BY <2>3 DEF SaveAnswered, Fetch, server
    <3> HIDE DEF new
    <3> QED
      BY <3>1 DEF SaveInv
  <2>4. CASE SaveRefused(s) \/ SaveFails(s)
    <3>1. save' = {} /\ UNCHANGED <<store, loads>>
      BY <2>4 DEF SaveRefused, SaveFails, SaveEndsBadly, server
    <3> QED
      BY <3>1 DEF SaveInv
  <2> QED
    BY <1>6, <2>1, <2>2, <2>3, <2>4 DEF SaveStep
<1>7. CASE UNCHANGED vars \/ Aside \/ PerformSubmit \/ \E d \in DOMAIN rows, s \in Stored : Edit(d, s)
  BY <1>1, <1>7 DEF vars, Aside, PerformSubmit, Edit, server, page, calls
<1>8. ASSUME NEW s \in submits, SubmitStep(s) PROVE UNCHANGED <<store, saving, loads, save>>
  BY <1>8 DEF SubmitStep, SubmitGate, SubmitStore, SubmitAnswered, SubmitFails, SubmitEnds, server, page
<1>9. ASSUME NEW q \in status, StatusStep(q) PROVE UNCHANGED <<store, saving, loads, save>>
  BY <1>9 DEF StatusStep, StatusRead, StatusAnswered, StatusFails, server, page
<1> QED
  BY <1>1, <1>2, <1>3, <1>4, <1>5, <1>6, <1>7, <1>8, <1>9, StepCases

----------------------------------------------------------------------------
(* The theorems.                                                           *)

LEMMA InitInv == Init => IInv
<1> SUFFICES ASSUME Init PROVE IInv
  OBVIOUS
<1>1. Shape
  BY InitShape
<1>2. EditInv
  BY NoRowsType DEF Init, EditInv
<1>3. ViewInv
  BY DEF Init, ViewInv, Fetch
<1>4. BadgeInv
  BY DEF Init, BadgeInv
<1>5. ReasonInv
  BY DEF Init, ReasonInv, SubmittedIsReasoned
<1>6. SaveInv
  BY DEF Init, SaveInv, Fetch
<1> QED
  BY <1>1, <1>2, <1>3, <1>4, <1>5, <1>6 DEF IInv

LEMMA NextInv == ASSUME IInv, [Next]_vars PROVE IInv'
  BY ShapeStep, EditStep, ViewStep, BadgeStep, ReasonStep, SaveInvStep DEF IInv

\* The inductive invariant holds.
THEOREM Invariance == Spec => []IInv
<1>1. Init => IInv
  BY InitInv
<1>2. IInv /\ [Next]_vars => IInv'
  BY NextInv
<1> QED
  BY <1>1, <1>2, PTL DEF Spec

\* The page and the server keep their types, a submitted month has its late
\* reasons unless it was written to after the gate, and the badge of a user
\* who waits tells the truth.
THEOREM MonthHolds == Spec => []MonthInv
<1>1. IInv => MonthInv
  BY DEF IInv, Shape, ReasonInv, BadgeInv, MonthInv, BadgeIsTrue
<1> QED
  BY <1>1, Invariance, PTL

\* Only handleSave starts a save.
LEMMA SavesStart ==
  ASSUME Shape, [Next]_vars, save = {}
  PROVE  save' = {} \/ StartSave
<1>1. CASE UNCHANGED vars \/ Aside \/ PerformSubmit \/ PunchElsewhere \/ (\E v \in Views : Show(v))
           \/ \E d \in DOMAIN rows, s \in Stored : Edit(d, s)
  BY <1>1 DEF vars, Aside, PerformSubmit, PunchElsewhere, Show, Edit, calls
<1>2. ASSUME NEW l \in loads, LoadStep(l) PROVE save' = save
  BY <1>2 DEF LoadStep, LoadRead, LoadAnswered, SummariesFail, CalendarFails, LoadEnds
<1>3. ASSUME NEW s \in submits, SubmitStep(s) PROVE save' = save
  BY <1>3 DEF SubmitStep, SubmitGate, SubmitStore, SubmitAnswered, SubmitFails, SubmitEnds
<1>4. ASSUME NEW q \in status, StatusStep(q) PROVE save' = save
  BY <1>4 DEF StatusStep, StatusRead, StatusAnswered, StatusFails
<1> QED
  BY <1>1, <1>2, <1>3, <1>4, StepCases

\* A bulk override goes to the employee and month whose rows were on the
\* screen, if the user waits for the spinner and has not been told that the
\* load failed.
THEOREM FiledWhereShown == Spec => SaveFiledWhereShown
<1>1. ASSUME IInv, [Next]_vars, save = {}, user.patient, ~failed, NEW s \in save'
      PROVE  s.to = shown
  <2>1. StartSave
    BY <1>1, SavesStart DEF IInv
  <2>2. s.to = [emp |-> view.emp, month |-> shown.month] /\ loads = {}
    BY <1>1, <2>1 DEF StartSave, AtControls, Idle
  <2>3. shown = view /\ view \in Views
    BY <1>1, <2>2 DEF IInv, ViewInv, Shape, TypeOK
  <2> QED
    BY <2>2, <2>3 DEF Views
<1>2. IInv /\ [Next]_vars => [save = {} /\ user.patient /\ ~failed => \A s \in save' : s.to = shown]_vars
  BY <1>1
<1> QED
  BY <1>2, Invariance, PTL DEF Spec, SaveFiledWhereShown

\* A save sends only days the user edited since the rows were loaded.
THEOREM OnlyEditedDaysSent == Spec => UneditedDaysKept
<1>1. ASSUME IInv, [Next]_vars, save = {}, NEW s \in save'
      PROVE  DOMAIN s.entries \subseteq touched
  <2>1. StartSave
    BY <1>1, SavesStart DEF IInv
  <2>2. DOMAIN s.entries = ChangedDays
    BY <1>1, <2>1 DEF StartSave
  <2> QED
    BY <1>1, <2>2 DEF IInv, EditInv, ChangedDays
<1>2. IInv /\ [Next]_vars => [save = {} => \A s \in save' : DOMAIN s.entries \subseteq touched]_vars
  BY <1>1
<1> QED
  BY <1>2, Invariance, PTL DEF Spec, UneditedDaysKept

\* What a reported save has sent is what the table then shows, if it was
\* written to the month that is reloaded: the reload follows the last write,
\* and nobody but a punch, which only makes the times late, writes in between.
THEOREM ReportedSaveShows == Spec => SavedIsShown
<1>1. ASSUME IInv, [Next]_vars, NEW l \in loads \ loads', NEW d \in DOMAIN l.wrote,
             saving, ~saving', l.wrote # NoRows, l.to = l.view, rows' \in l.answer, rows'[d] # Blank
      PROVE  SavedAs(rows'[d].stored, l.wrote[d])
  BY <1>1 DEF IInv, SaveInv
<1>2. IInv /\ [Next]_vars =>
    [\A l \in (loads \ loads') : \A d \in DOMAIN l.wrote :
            /\ saving /\ ~saving' /\ l.wrote # NoRows /\ l.to = l.view
            /\ rows' \in l.answer /\ rows'[d] # Blank
            => /\ rows'[d].stored.leave = l.wrote[d].leave
               /\ rows'[d].stored.overtime = l.wrote[d].overtime
               /\ rows'[d].stored.reason = l.wrote[d].reason
               /\ l.wrote[d].times # "none" => rows'[d].stored.times \in {l.wrote[d].times, "late"}]_vars
  BY <1>1 DEF SavedAs
<1> QED
  BY <1>2, Invariance, PTL DEF Spec, SavedIsShown

\* Under the lock the server admits nothing from an employee, whatever the
\* page shows.
THEOREM LockKept == Spec => LockHolds
<1>1. ASSUME IInv, [Next]_vars, ~user.hr, locked, ~Admitted
      PROVE  ~Admitted' /\ submitted' = submitted
  <2>0. save \subseteq SaveCall /\ submits \subseteq SubmitCall
    BY <1>1 DEF IInv, Shape, CallTypes
  <2>1. CASE UNCHANGED <<save, submits, submitted>>
    BY <1>1, <2>1 DEF Admitted
  <2>2. CASE UNCHANGED vars \/ Aside \/ PunchElsewhere \/ (\E v \in Views : Show(v))
             \/ \E d \in DOMAIN rows, s \in Stored : Edit(d, s)
    BY <2>1, <2>2 DEF vars, Aside, PunchElsewhere, Show, Edit, server, calls
  <2>3. ASSUME NEW l \in loads, LoadStep(l) PROVE UNCHANGED <<save, submits, submitted>>
    BY <2>3 DEF LoadStep, LoadRead, LoadAnswered, SummariesFail, CalendarFails, LoadEnds, server
  <2>4. ASSUME NEW q \in status, StatusStep(q) PROVE UNCHANGED <<save, submits, submitted>>
    BY <2>4 DEF StatusStep, StatusRead, StatusAnswered, StatusFails, server
  <2>5. CASE StartSave
    BY <1>1, <2>5 DEF StartSave, Admitted, server
  <2>6. CASE PerformSubmit
    <3>1. /\ submits' = submits \union {[view |-> view, n |-> events', step |-> "sent"]}
          /\ UNCHANGED <<save, submitted>>
      BY <2>6 DEF PerformSubmit, server
    <3>2. [view |-> view, n |-> events', step |-> "sent"].step # "gated"
      OBVIOUS
    <3> QED
      BY <1>1, <3>1, <3>2 DEF Admitted
  <2>7. ASSUME NEW s \in save, SaveStep(s) PROVE ~Admitted' /\ submitted' = submitted
    <3>1. CASE SaveAdmit(s)
      <4>1. save' = {[s EXCEPT !.step = "refused"]} /\ UNCHANGED <<submits, submitted>>
        BY <1>1, <3>1 DEF SaveAdmit, server
      <4>2. [s EXCEPT !.step = "refused"].step = "refused"
        BY <2>0 DEF SaveCall
      <4> QED
        BY <1>1, <4>1, <4>2 DEF Admitted
    <3>2. ~SaveWrite(s) /\ ~SaveAnswered(s)
      BY <1>1 DEF SaveWrite, SaveAnswered, Admitted
    <3>3. CASE SaveRefused(s) \/ SaveFails(s)
      BY <1>1, <3>3 DEF SaveRefused, SaveFails, SaveEndsBadly, Admitted, server
    <3> QED
      BY <2>7, <3>1, <3>2, <3>3 DEF SaveStep
  <2>8. ASSUME NEW s \in submits, SubmitStep(s) PROVE ~Admitted' /\ submitted' = submitted
    <3>1. CASE SubmitGate(s)
      <4>1. submits' = (submits \ {s}) \union {[s EXCEPT !.step = "refused"]} /\ UNCHANGED <<save, submitted>>
        BY <1>1, <3>1 DEF SubmitGate, server
      <4>2. [s EXCEPT !.step = "refused"].step = "refused"
        BY <2>0 DEF SubmitCall
      <4> QED
        BY <1>1, <4>1, <4>2 DEF Admitted
    <3>2. ~SubmitStore(s)
      BY <1>1 DEF SubmitStore, Admitted
    <3>3. CASE SubmitAnswered(s) \/ SubmitFails(s)
      BY <1>1, <3>3 DEF SubmitAnswered, SubmitFails, SubmitEnds, Admitted, server
    <3> QED
      BY <2>8, <3>1, <3>2, <3>3 DEF SubmitStep
  <2> QED
    BY <1>1, <2>1, <2>2, <2>3, <2>4, <2>5, <2>6, <2>7, <2>8, StepCases DEF IInv
<1>2. IInv /\ [Next]_vars => [~user.hr /\ locked /\ locked' /\ ~Admitted => ~Admitted' /\ submitted' = submitted]_vars
  BY <1>1
<1> QED
  BY <1>2, Invariance, PTL DEF Spec, LockHolds

=============================================================================
