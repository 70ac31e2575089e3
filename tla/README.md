# TLA+ models of the PWA Attendance Record System

This directory holds TLA+ specifications of the attendance system in `../src`
(FastAPI + SQLAlchemy + PostgreSQL backend, Next.js front end, a PowerShell
agent that pushes NFC door taps), TLC configurations that model-check them, and
TLAPS proofs. Parse with `tlasany`, check with
`tlc -config MCAttendanceDay_overlap.cfg MCAttendanceDay`, prove with
`tlapm AttendanceDayProofs.tla`. `PROJECT.json` lists runs, the code lines each
definition models, mutants, findings, hazards and theorems.

## 1. The system

All durable state is in PostgreSQL; the backend runs as four uvicorn workers
(`docker-compose.prod.yml`), so nothing but the database is shared between
requests, except the per-worker rate limiter. Every request has its own
`AsyncSession`, isolation is READ COMMITTED, and **every repository function
commits on its own**: a request is a sequence of short transactions, and
anything may happen between two of them. There are no explicit locks.

| Component | State | Operations | What is hard | What makes it correct | Module |
|---|---|---|---|---|---|
| Rules (`taiwan_calendar`, `calculate_status`, `_check_tardiness`) | none | classify a day, judge a day | boundaries: grace past midnight, Sundays, one punch | verdicts agree between the two judges and with the labour-law gates | `AttendanceRules`, `DayVerdicts` |
| Punch, recompute, override, reasons (`attendance_service`, `reporting_service`, `summary_repository`, `reason_service`) | `attendance_logs`, `daily_attendance_summaries`, `attendance_reasons`; per request an ORM object | punch, daily report, bulk override, manager override, submit reason | overlapping requests, torn reads, stale ORM copies, requests lost between commits | the log is immutable; the summary shows genuine times, and is healed by the next report; manual columns survive | `AttendanceDay` |
| NFC import (`nfc_import_service`, `push-nfc.ps1`) | taps in a file; logs | fill missing clock-in/out, retry | overlapping retries, crash before the recompute | real punches win; import is idempotent | `NfcImport`, `GapFill` |
| Month close (`override_lock_service`, `monthly_submission_service`) | lock flag, `monthly_submissions` | set lock, submit month, bulk override of many days | check then act; batch half applied | nothing is admitted under the lock; a submitted month has its late reasons | `MonthlyPage` |
| Monthly page (`dashboard/monthly-override`) | rows, original rows, selection, three flags, dialogs | load, edit, save, submit | uncancelled requests, answers out of order | what is saved is what was edited, for the month on the screen | `MonthlyPage` |
| Punch page (`punch`, `useGeolocation`) | refs and React state | click, confirm reason, geolocation callback, effect, response | callbacks after state changed | one click, at most one punch, with its own reason | `PunchPage` |
| Employees and tree (`employee_service`, `employee_repository`, `admin`) | `employees`; a list per browser | create, update, terminate, reactivate, delete, list | concurrent edge updates, check then act | `reports_to` stays a forest; history is kept; somebody can sign in | `EmployeeAdmin` |
| Configuration and calendar cache (`system_config*`, the sections of `admin`) | `system_config`; drafts and flags per browser | get, set, refresh from CDN | whole-value saves, two first writers, failed loads and refreshes, reloads under edits | values end up as asked; no list is replaced by one built on nothing | `SystemConfig` |
| Reports, exports, log pages (`reports`, `team`, `attendance`, `dashboard`) | filters, selection, table | filter, list, load, export | uncancelled requests, selections that vanish | the table is of the filters; a file holds what it says | `ListPages` |
| Scope and permissions (`scope`, `permission_service`) | none of their own | filter | subtree against department | readers see only their scope | none |
| Sessions (`auth_middleware`, `webauthn_*`) | `password_changed_at`, challenges, authenticators | login, change password, ceremonies | double consumption, counter regression, whole-second `iat` | a challenge is used once; old tokens die | only `SignedIn` of `EmployeeAdmin` |
| Rate limiter | failed attempts per key and worker | check, record, reset | check before await, record after | at most five failures per window | none |
| Geolocation | none | distance test | floating point | result stored, never read again | none |

Interactions: punch, bulk override, the daily report and the NFC import all end
in `generate_daily_summary`, which reads the log and upserts the summary. The
lock gates bulk overrides and submissions. The calendar cache decides the day
kind for all of them. The pages call the REST API and keep no durable state; what
they keep between two answers is what the page modules are about.

The modules meet at the API. `AttendanceDay` has one date with every database
call of every writer; `MonthlyPage` and `PunchPage` take one entry of an
override, or one punch, as a step and add what comes before and after it: the
page, the request, the answer. `NfcImport` takes a punch and a recompute as a step
each, and an override by its commits. `DayVerdicts` and `AttendanceDay` share
`AttendanceRules`.

## 2. What is modelled

### AttendanceRules

The pure rules as operators: `ClassifyListed` (`classify_day_kind`),
`ClassifyDateKind`, `IsWorkday`, `CalculateStatus`, `CheckTardiness`. Times of
day are ticks; the only arithmetic that matters, the wrap of the grace deadline
at midnight, is `% TicksPerDay`. No `RECURSIVE` operator, so that the modules
above it can be proved about.

### AttendanceDay

One employee on one date. Rows of different employees or dates never meet in
these operations, so this is the unit of interference.

* `logs`, `voided`, `nextId`: `attendance_logs` of the day, the ids with
  `is_overridden`, and the id sequence. `row`: the summary row or `None`.
  `reason`: whether an `attendance_reasons` row refers to it. `now`: the clock.
* Per request: `pc`, `call`, `stage` (which upsert is under way), `copy` (the
  ORM object as loaded), `pay` (the values the upsert was called with), `pend`
  (an uncommitted `UPDATE`), `at`, `tardy`, and the history flag `solo` (nobody
  else has been active since this request arrived).
* Actions, one per awaited database call with the straight-line code up to the
  next one:

| Action | Code |
|---|---|
| `Arrive` | the router and the gates before the first call on the day's rows (weekend gate of `punch`, labour-law gate and empty-entry skip of `bulk_override_punches`) |
| `PunchCheck`, `PunchStamp`, `PunchInsert`, `PunchJudge` | `punch`: duplicate check; timestamp after geolocation; `create_log`; `_check_tardiness` and the decision to recompute |
| `ReadRow`, `ReadFirst`, `ReadLast` | `generate_daily_summary`: existing row; `find_first_clock_in`; `find_last_clock_out` and `calculate_status`; `NothingToSummarize` is its `None` answer, and the ABSENT fallback of `generate_all_summaries` |
| `UpsertSelect`, `UpsertWrite`, `Refresh` | `upsert_summary`: SELECT; INSERT or UPDATE with COMMIT; `session.refresh` and what the caller does with the result |
| `BulkMark`, `BulkInsertIn`, `BulkInsertOut`, `StampRead` | `bulk_override_punches`: uncommitted UPDATE; the two `create_log` commits; stamping of leave, remark, overtime and late reason |
| `OverrideInsert` | `override_attendance` |
| `ReasonCheck`, `ReasonInsert` | `submit_reason` |
| `Abort` | the request ends between two calls (exception, lost worker, lost connection): committed effects stay, the session is gone |
| `Tick` | time passes |

Two ORM rules matter and are modelled by what they do. `expire_on_commit` is
off and the identity map keeps an object while the code refers to it, so a
second SELECT returns the *old* attributes: an upsert that follows a read in the
same call works on `copy`. And a flush writes only attributes that differ from
the loaded ones (`Changed`, `Updated`), so a stale upsert overwrites a
concurrent change of a column only if it changes that column itself.

Abstractions. A commit and the flush before it are one step. The calendar,
shift and grace period do not change during a behaviour; punch and override use
the cached calendar, the report may fetch it, and all of them see the same
`Day`. Row locks are left out: an UPDATE that waits for another override's
commit re-evaluates its filter afterwards, which is the order in which it runs
second. Leave types are non-empty strings. Authorisation, the month lock and the
employee lookup precede the first action (the lock is `MonthlyPage`'s). Responses are modelled where a
property reads them (`tardy`, the kind of outcome).

### DayVerdicts

The rules again, as one day's phone punches in order, with the calendar day, the
shift and the grace period as variables that an initial state chooses and no
step changes (`INSTANCE AttendanceRules WITH ShiftStart <- shift.start ...`).
`Punch(t)` is `punch` on a day that is open for it; `verdict` is the answer of
`_check_tardiness`, `Status` what `calculate_status` makes of the punches so far.
It has no concurrency: its subject is that two pieces of code implement one
rule.

### NfcImport

One date, the employees of the door file in the file's order, the agent and the
imports that run on the server.

* `taps` is what the door controller has recorded, `file` what it has exported
  (the controller is external; `Tap`, `Export`). `live` are the logs that count
  and `row` the summary's first and last time.
* `agent`, `attempt`, `conn`: the loop of `Send-File`. `Accept` is a request
  that reaches the server, `SendFails` one that does not, `AgentOk` an answer
  that arrives, `AnswerFails` a timeout, an error status or a broken connection,
  which the agent cannot tell apart. `nights` are the runs to come that send this
  date's file: one every night, the last on the 1st of the next month, which sends
  the file of the month before once more (`AgentStart`). After that nobody sends it
  again.
* `pc`, `body`, `cur` per handler: an import between two database calls
  (`SkipGroup`, `LoadPunchState`, `FillIn`, `FillOut`, `Regenerate`). A handler
  whose client has gone keeps running and its answer is dropped (`Discard`);
  `Abort` ends it anywhere.
* `hr` is the bulk override of a day that is under way. `OverrideMark` flags the
  logs without committing it, `OverrideLog` is one `create_log` with its commit (the
  first commits the flags too), `OverrideRegenerate` the recompute, `OverrideStops`
  its end anywhere in between: an import reads between the two sides.
* `PhonePunch` and the two recomputes are one step each: their interleavings are
  `AttendanceDay`'s subject, and so are two overrides of one day, which do not
  overlap here. `PhonePunch` leaves open whether it recomputes the row, which depends
  on its tardiness.
* `setting` is chosen by the initial state out of `Settings`: whether the file
  is exported and sent only when the date is over (`nightly`: 00:10 and 00:20)
  or at any time, which is what sending it by hand, or taps just after
  midnight, amounts to; how many runs send the file; who uses the door and who the phone; which
  entries HR makes, of both sides of a day or of one; and how many imports and
  overrides stop half-way.
* History: `okFile` is the file of the last attempt logged as OK; `rewritten` and
  `entered` say whose logs HR has taken back since that attempt, or a handler, began;
  `resend` whose part of a handler's file had been logged as OK before.

Employees are independent except that an import takes them in turn, so a file
over several dates behaves like one over several employees.

### GapFill

What the design document of the NFC backup promises, per employee and once the
date is over: an empty day gets its earliest tap, a day with one time its latest
tap if that is later, a complete day nothing. `NfcImport` implements it
(`ImplementsGapFill`): the live logs map to the set of their times, and the clock
to whether the date is over. A day imported by hand, or one HR has entries for, stays
open (`Open`), as people still work on it, so that the promise bites when the import
runs as scheduled. Duplicates of one tap, the order of
the attempts and their failures map to stuttering.

### MonthlyPage

The monthly override page of one user, the employee's own or HR's, with the
endpoints it calls. `store`, `submitted` and `locked` are the server; `rows`,
`original`, `view`, `loading`, `saving`, `pending`, `badge`, `modals` are the
page's state of the same or a similar name; `loads`, `save`, `submits` and
`status` are the requests under way, each with its place.

| Actions | Code |
|---|---|
| `PreviousMonth` ... `ChangeDepartment` (`Show`) | a change of employee or month: `fetchData` runs again, uncancelled; the status effect cancels its predecessor |
| `EditTimes`, `EditLeave`, `EditOvertime`, `EditReason` | the cells' handlers, hidden under the spinner and read-only under the lock |
| `ClickSave`, `SaveAdmit`, `SaveWrite`, `SaveAnswered`, `SaveRefused`, `SaveFails` | `handleSave`, which dates each entry by its row; the router's lock check; one committed entry, filed by its own date; the awaited reload; its ends |
| `ClickSubmit`, `WarningProceed`, `SubmitGate`, `SubmitStore`, `SubmitAnswered`, `SubmitFails` | `handleSubmitMonth` and its two dialogs; lock and late-reason gate; the stored submission; `performSubmit`'s ends |
| `LoadRead`, `LoadAnswered`, `SummariesFail`, `CalendarFails` | the server's read; the rows built from it; a failed summaries request, which becomes an empty month; a failed calendar request, which leaves the rows under an error message, whoever the user is |
| `StatusRead`, `StatusAnswered`, `StatusFails`, `MountAnswer` | the submission's status; the one-shot fetches of the mount |
| `PunchElsewhere`, `TurnLock` | the employee punches; HR turns the lock |

A row keeps which times it shows, leave, overtime, reason, and whether its status
is abnormal. History: `shown` (whose data the rows are), `touched` (days edited
since), `failed` (the last load to end has failed and the page says so), `since`
(months written after their late-reason gate). A *patient* user, an employee or HR,
waits for the spinner before moving on and saving; `SaveFiledWhereShown` and the
badge's truth are claims about such users, because the page itself does not stop
others.

An entry goes to the employee selected at the click and to the date of its row
(`save.to`), which for a *hasty* user may not be the month selected: who edits one
month, moves to the next and saves before it has loaded writes the first month, and
the reload shows the second. A hasty HR user who changes the employee instead saves
the rows of one employee under another. After a failed load the same can happen to a
patient user, under the error message; both cases are in the model and outside
`SaveFiledWhereShown`. `SavedIsShown` is about reloads of the month that was written
and of users of either kind. Its times may have become "late" by a punch that came
between; `Blank` is what a failed summaries request makes of a day, and shows nothing
of what was saved.

### PunchPage

Every handler of the browser is an action: `Click`, `Confirm`, `SubmitForm`, the
effect on the position (`PositionEffect`) and the callbacks of the requests. The
gap between the paint of a position and its effect is modelled (`painted`): a
click may fall into it, an answer may not. The refs are variables (`pending` is
`pendingPunch`, `lock` is `submitLockRef`, `chosen` is `lateReasonRef`). A switch
of the language runs the effect as well, which depends on `t` (`SwitchLanguage`), and
may send a punch that has been waiting since long. `Record` and
`Refuse` are the server's two outcomes; what else it does is `AttendanceDay`'s.
Time counts two instants a day, before and after the end of the shift.

History: `due` says that the punch waiting for a position was asked for after the end
of the shift, `overtaken` that the button sent another one at once while it waited.
That is the one way in which a late punch loses its reason: the answer to the other
punch clears the ref, and a language switch then sends the waiting one without
(`EveryLatePunchHasReason`, run `late`); `LateClickCarriesReason` is about all others.
`ReasonUsedOnce` counts reasons and punches that carry one, it does not follow which
went with which.

### EmployeeAdmin

`staff` is the table (`boss` is `reports_to`, `off` whether `terminated_at` is
set), `logs` who has attendance logs. A change takes the two steps in which the
code does it: `Admit` checks the token and looks up what the service and the
router ask for, `Write` reads the row and commits, with the foreign keys
(`Storable`, `Stored`; `ON DELETE SET NULL` for `reports_to`). Pages of several HR
users keep a list, the checkbox, two flags; none of their calls is cancelled
(`ListArrives`, `ChangeAnswered`). The subtree is defined without recursion, as
what every closed set around the root contains, so that it can be proved about.
History: `raced` (a change was decided on while another had been and was not
committed), `ghost` (a deleted user's token was used), `mixed`, `listed`.

### SystemConfig

One key of `system_config` and two browsers on the section that edits it. The
initial state chooses the kind of section: a draft saved as a whole (ranks, leave
types), a list saved at every change (departments), a switch (scoping, lock), a
form (office, grace period) or the calendar of a year. `set_config` is two steps,
`PutRead` and `PutWrite`. `SwitchLanguage` reruns the loads that depend on `t`;
`gen` tells a cancelled one. The calendar's readers (`month`, `report`) fetch it
when there is no row; a refresh fetches always. History: `known` (is what the page
was last told of the row still so), `todo` and `wanted` (what the edits mean),
`spoilt` (a save overlapped another, began without knowledge of the row, or got
lost).

### ListPages

The pages that show or save what one request answers, as five kinds: the daily
report, the export, the generation of summaries, the log pages, the dashboard
with its like (`SystemConfigSection`, whose list route the backend does not have, so that
its loads fail). Of the two requests that `/team` and `/attendance` make side by side
the module has the one for the logs: when the one for the summaries fails, the page
shows its rows without their statuses (`team/page.tsx:82`, `attendance/page.tsx:83`).
`Refilter` is a change of filters with the
effect that follows, `ListArrives` a list of employees with the effect that clears
a selection it lacks. `Rows` is `get_daily_report`'s choice of rows.

### The MC modules

Small instances. For `AttendanceDay` four ticks are enough to separate what the
rules distinguish: 0 is on time, 1 is late and before shift end, 2 is shift end,
3 after it; in `overlap` the shift ends at 3, so that a first and a second punch may
both be late and early. `TicksPerDay` is 6, `DupWindow` is 1 tick (a punch is a duplicate of
one in the same tick). `DayVerdicts` takes all calendar days, all shifts over four
ticks and grace periods up to two, so that the deadline falls before, at and after
midnight.

## 3. The runs

| Run | Instance | Shows |
|---|---|---|
| `overlap` | 2 requests, all calls, 4 ticks | `TimesComeFromLogs`: the summary shows no invented time; `PunchedDayStaysPunched`: overriding is atomic even when aborted; `OverrideLands`: a bulk override that runs alone is complete, from every state left behind by the other request; `PromptMatchesStatus`: a punch prompts only for a status that takes a reason, and the day's latest one exactly when it makes the day late or left early: no prompt is missing or repeated |
| `punches` | 3 punches/reports, 2 ticks | `RowInOrder` without overrides; `PunchesSpaced`, `LateReasonStored` |
| `weekend` | 3 requests on a Saturday, HR and others, 3 ticks | `RecomputeKeepsLeaveAndOvertime`, where overtime may stand without punches; `ReportSettlesRow`: a report that runs alone makes the summary agree with the log again, whatever two races before it left |
| `nightly` | 2 employees, the first of them terminated, 2 handlers, 2 nights of 2 attempts, 2 ticks; scheduled (one abort), by hand, beside overrides of both sides on two nights, or on one with an abort of an import or an override | `ImplementsGapFill`, `SuccessCovers`, `ReimportIsNoop`, `TapsReachTheLog` |
| `agree` | all calendar days, shifts and grace periods | `VerdictsAgree`, `GraceHonoured`, `LatenessIsSettled` |
| `month` | 2 employees' months, 2 days, 3 events; a patient employee, patient HR or hasty HR | `MonthInv`, `SaveFiledWhereShown`, `UneditedDaysKept`, `SavedIsShown`, `LockHolds`, `SpinnersStop` |
| `button` | 4 clicks, 2 days of 2 instants, 1 lost answer, 4 calendars | `OnePostAtATime`, `PostsWereAsked`, `ReasonUsedOnce`, `LateClickCarriesReason`, `ButtonComesBack` |
| `config` | 2 users, 2 items, 4 events, 2 saves at a time, 1 fault, all kinds | `ConfigInv`, `SerialUseIsExact`, `OnlyRefreshEmpties`, `SectionsComeBack` |
| `employees` | 3 employees, 2 of them users, 2 events, 1 fault; three starting tables | `TreeIsRooted`, `CyclesNeedARace`, `SomeoneCanSignIn`, `HistoryIsKept` |
| `lists` | 3 employees in 2 departments, 2 ranges, 3 events, 1 fault, all kinds | `ListInv`, `SettledTableIsCurrent`, `FileHoldsWhatItSays`, `PagesComeBack` |

Runs that TLC must refute; each is a disagreement between the code and what the
repository says about it, described under `findings`:

| Run | Property | Counterexample |
|---|---|---|
| `remark` | `RecomputeKeepsRemark` | remark-only override, then the daily report: the ABSENT fallback passes no remark |
| `late` | `EveryLatePunchHasReason` | a confirmed late punch waits; a click between its position and the effect sends another, whose answer clears the reason; a language switch sends the first without |

### Bounds

`Req` is the number of requests in a behaviour (symmetric), `MaxTime` the last
tick. Two overlapping requests suffice for every pairwise race; three let a third
one observe, or heal, what a race of two left behind. Calls per run are chosen to
make the race in question happen.

For `NfcImport` two ticks give a day with two taps, a phone punch at either, and
with them a day filled on one side; two handlers give an attempt and its retry;
two attempts per run are enough for a failed one, an overlapping one and a new
run, and two nights for a run that starts over after a GIVE UP and a last one after
which nobody does. In the instance by hand nothing aborts: the scheduled one has the
aborts, and both together would not finish. For the same reason the overrides have
instances of their own: nobody punches by phone there, and the one in which an
override may stop half-way is sent on one night.

`MaxEvents` counts what users (and, in `MonthlyPage`, punches, the lock and
failures) do; requests, their steps on the server and their answers are not
bounded by it. Three events give `MonthlyPage` an edit, a save or submission, and
one thing in its way: a move, a punch, the lock, a failure. Four clicks give
`PunchPage` a punch in each of the two ways (coordinates known, position asked
for), a retry after an error and a language switch. Four events give
`SystemConfig` an edit and a save of each of two users, or an edit, a reload, a
save and a read elsewhere; `MaxSaves` is two because set_config's races are
pairwise. Two events are enough for `EmployeeAdmin`: each of the two users has one
change under way, in every interleaving with the loads that follow; what holds for
longer histories is proved. Three events give `ListPages` a selection, a tick and
another filter while three loads and two lists are under way. `MaxFaults` is one
everywhere: one lost request or answer, of any kind and at any time.

Deadlock is checked in `AttendanceDay` (`Rest` is the state in which all requests
have been answered and the clock has stopped) and in `NfcImport`. The pages stop
when their events are used up and every request has been answered, so their runs,
and that of `DayVerdicts`, which ends with the clock, do not check it. The
symmetry of requests is used for safety only.

### Properties with a condition

Properties that speak of a request "that ran alone" use `solo`: nobody else was
active from its arrival on. The state it starts from is any state that earlier
races and aborts can produce, so these are statements about recovery, not about
sequential use only. In the same way `raced`, `ghost`, `spoilt`, `since`,
`overtaken`, `failed` and *patient* name histories after which the code gives no
guarantee; each exception can be seen to be needed by deleting it, and in each
module the runs go through states on both sides of it.

`entered`, `rewritten` and `resend` except, of the properties of the import, the
employees of whom HR has taken logs back since the import began: HR may have left
less than it had found. Nothing is excepted when HR enters a day that counted
nothing. `TapsReachTheLog` further excepts a day whose every run gave up (`GivenUp`),
and one on which two logs of one instant count as clock-in and clock-out
(`Doubled`). `SuccessCovers` takes such a day as covered, because the import does.

### Fairness

* `NfcImport`: the date passes and is exported; once it is over, the task is started
  as long as a run that sends its file is to come (`schtasks /SC DAILY`, `nights`);
  the agent gets on from every state it waits in, because curl has `--max-time` and
  the loop a limit; and a running import goes on, because the server does not wait
  for anybody. The network promises nothing: every request and every answer may be
  lost, and then the agent gives up. The number of aborted imports is finite
  (`maxAborts`), not their place.
* Pages: a request that is under way is answered or fails in the end (weak
  fairness of the answers; the server has no locks and the browser ends a broken
  connection with an error), a position request ends, because `useGeolocation`
  sets a timeout (which runs from the user's permission on: a permission prompt that
  is never answered is outside `ButtonComesBack`), and a React effect that is due runs. Nothing is asked of users:
  they may leave everything as it is.

### Disagreements without a run of their own

* Two overlapping punches both pass the duplicate check
  (`attendance_service.py:110-122`), though the test at
  `test_attendance_service.py:412` says that a second punch within five seconds is
  rejected. `PunchesSpaced` is about punches that do not overlap.
* A recompute whose two SELECTs straddle an override's commit stores a clock-in
  after the clock-out (`reporting_service.py:277`). The next report repairs it.
* The report's ABSENT fallback does not re-read the leave either, so a leave
  stored between its read and its write is lost as well (`NothingToSummarize`).
* An on-time clock-out leaves the row as it was in the morning until a report
  or an override recomputes it (`Recomputes`), and a punch prompts for a reason
  again after one has been stored (`PunchAnswer` looks at the status only).
* "A filled side is never re-filled" (`nfc_import_service.py:7`), but overlapping
  imports both find it empty and both fill it. The tap that is logged twice changes no
  time that counts (`ImplementsGapFill`), but the two logs count as clock-in and
  clock-out, so that a later tap is never filled (`Doubled`).
* "Manual/HR overrides always win" (the NFC design document, line 173), but an import
  that reads between the two commits of an override (`attendance_service.py:462`,
  `:477`) finds one log, fills the clock-out, and a tap later than HR's clock-out
  becomes the day's last time (`OverrideLog`, `LoadPunchState`).
* The create form of an employee has a selector for reports_to and a rank
  (`TODO.md:536`), and the router accepts them, but `create_employee` constructs the
  row without (`employee_service.py:95-103`; `Stored`).
* A day on which HR has entered one side counts as half empty, and the nightly
  import adds a later tap as the other side, where the design document says that
  HR's override wins.
* An import that stops between the fill and the recompute leaves the summary
  stale: the retry finds nothing to fill and is logged as OK. The daily report
  repairs it when somebody opens it.
* By hand, with taps of the current day in the file, a phone punch between the
  import's read and its fill loses the clock-in to the earlier tap.
* With a shift that starts within the grace period before midnight everybody is
  late; `GraceHonoured` excludes such shifts.
* `submissionStatus` is commented as the "Submission status for current (year,
  month, empId)" (`monthly-override/page.tsx:280`), but `performSubmit` sets it
  for the month of the click: after a move it speaks of another one
  (`SubmitEnds`).
* A failed request for the summaries is taken for an empty month
  (`monthly-override/page.tsx:398`), and edits made while a save is under way are
  discarded by its reload. A failed request for the calendar leaves the rows of
  before in the table (`:450`), and the router ignores the month in the body of a
  save (`attendance.py:237-251`): what is saved then goes to the dates shown, under
  the employee selected.
* `_load_calendar_for_year` says that it mirrors `GET /api/config/workdays` by
  fetching and persisting on a miss; it persists in the name of
  `reporting_service`, which no row of `employees` has, so that the first report
  of a year nobody has opened is answered with an error (`Fetched`). And a refresh
  whose fetch failed stores an empty calendar, after which nothing fetches again.
* The edit form of an employee says that reports_to is only cleared by the empty
  option (`admin/page.tsx:153-154`), but a manager who is not offered, because
  terminated or beyond the first hundred, is shown as that option and cleared by
  any edit (`SubmitUpdate`).
* `get_daily_report` promises that an employee asked for by id is reported even
  after termination (`reporting_service.py:448-450`); together with a department
  filter the second filter removes them (`Rows`).
* The comment at `reports/page.tsx:124-128` explains how stale results are
  avoided; a table can still be stale when answers overtake each other
  (`overtaken`). The HRM file's name does not tell its filters (`FileName`).
* The error of the dashboard, and of the list of settings on /admin, is never
  cleared by a later success (`LoadFails`).

## 4. What is proved

Every safety and action property that a passing run checks is also a theorem here,
and the refinement of `GapFill` is one; each holds for all values of the constants
that satisfy the modules' named assumptions. The assumptions are as weak as the
code: `DayAssumption` asks that the day is one the calendar parser can produce,
that time stays within the day, and that `None` and `Unset` are no values of the
columns; `PunchPageAssumption` that PERSONAL is one of the reasons;
`EmployeeAdminAssumption` that the starting tables are forests with a user who can
sign in; `NfcAssumption` that there is an employee, an attempt and an instant, and
that settings speak of employees and instants; `MonthlyAssumption` that the user is
not among the others; `SystemConfigAssumption` that a list has finitely many
possible entries, at least one; `ListPagesAssumption` that there is a range to
select. All of them ask that `None` is not a value.

The proofs are invariance proofs: one lemma per action, with one step per conjunct
of the inductive invariant that the action can disturb. Each strengthening below was
checked with TLC on the runs' instances before it was proved.

`AttendanceDayProofs`, for every set of requests and calls and every day:
`TypeCorrect`, `TimesAreGenuine` (`TimesComeFromLogs`), `AppendOnly`
(`LogsAppendOnly`), `StaysPunched` (`PunchedDayStaysPunched`). All but
`AppendOnly` follow from the inductive invariant `IndInv` (`Invariance`).
`TimesComeFromLogs` is not inductive by itself: a time reaches the row from a
session, so the sessions' copies and pending writes must be genuine too
(`CarriedTimesFit`), which needs that a session that holds a copy or is about to
refresh has a row (`RowsExist`), that an override about to insert has a time to
insert (`CallsFit`), and that a manager's log is void from birth (`IdsFit`).
`StaysPunched` needs that flags, committed or pending, are of older logs, so that
the log committed with them survives (`IdsFit`).

The properties of requests that run alone follow from a second invariant,
`AloneInv` (`AloneInvariance`), relative to `IndInv`. `Alone` says what `solo` means:
nobody else is active. `StagesFit` says which calls pass through which steps and
stages, `CountedStay` that a day which ever counted a punch still has a live one,
`PhonesFit` that the clock does not run back; they hold for every request. `SoFar`
says, of a request that runs alone, what it has done: a recompute (`Recomputing`) has
the row as stored, the log's times and the status they give, so that its UPDATE
stores exactly these (`UpdatedAlone`, `WriteAlone`); a report about to mark an absence
(`MarkingAbsent`) has no live log and no leave before it; a punch (`Punching`) keeps
its distance and, once stored, cannot end in "nothing to summarize"; an override
(`Overriding`) has flagged what counted, counts exactly what it brought, and
recomputes a row stamped with its columns (`StampedAs`). Nothing is assumed of the
state the request starts in beyond `IndInv` and the parts of `AloneInv` that hold of
everyone, which is what makes these statements about recovery. From it: `OverridesLand`
(`OverrideLands`), `ReportsSettle` (`ReportSettlesRow`), `RecomputeIsNoEdit`
(`RecomputeKeepsLeaveAndOvertime`), `ReasonsAreStored` (`LateReasonStored`) and
`PunchesAreSpaced` (`PunchesSpaced`).

`PromptsAreConfirmed` (`PromptMatchesStatus`) has an invariant of its own,
`PromptInv`, relative to these two: the logs are finitely many, a punch that runs
alone carries the verdict `_check_tardiness` gives for them all the way to its answer,
and when it gets there the row's status is the one that the live logs give
(`Judged`). `VerdictsMeet` compares the two judges: with no log overridden and the
punch the latest of all, the live times are those of all logs, the punch is the
clock-in exactly if it is the only log, and else the clock-out.

`RowsStayInOrder` (`RowInOrder`) has the hypothesis that no call is a bulk override,
as in the run `punches`; with one, a torn read breaks it (section 3). Its invariant
`OrderInv` compares what different sessions carry: any clock-in in the row, a copy or
a write under way is no later than any clock-out in another, each clock-in is no later
than some live log and each clock-out no earlier than one. It is preserved because
live logs are only added to (`LiveGrows`).

`DayVerdictsProofs`, for every length of the day, shift and grace period:
`Agreement` (`VerdictsAgree`), `Grace` (`GraceHonoured`), `Settled`
(`LatenessIsSettled`) and `CalendarReadersAgree` (`AbsencesOnWorkingDays`). The
invariant says that punches are counted and in order and that `verdict` is the
answer to the latest one; lateness is settled because it depends on `first` alone,
which later punches keep.

`PunchPageProofs`, for any number of clicks, faults and days: `PostsOneByOne`,
`PostsAsked`, `ReasonsUsedOnce`, `LatePunchesCarryReasons` and `TypeCorrect`. The
inductive invariant `IInv` adds to the four properties what ties the refs together:
`LockInv` (the lock is held exactly while a punch is under way, which implies
coordinates; nobody asks for a position who has one), `ReasonInv` (a confirmed
reason is either in the ref or has gone with a punch, never both) and `WaitingInv`
(a punch that waits and was not overtaken has, once the position is there, the effect
before it and no lock against it, and finds the reason it needs in the ref).
`LateClickCarriesReason` fails without the last: only the effect reads the ref long
after the click.

`EmployeeAdminProofs`, for any employees, users, starting tables and numbers of
requests: `TreeStaysRooted`, `TreeStaysAcyclic` (`CyclesNeedARace`),
`NobodyLocksAllOut` (`SomeoneCanSignIn`), `HistoryStays` (`HistoryIsKept`),
`FilterIsFollowed` (`ListFollowsCheckbox`) and `TypeCorrect`. A circle is a set of
employees whose managers are all in the set; no recursion and no induction is
needed. `ReassignedStaysAcyclic` is the heart: if a circle appears when `e` gets
the manager `b`, then the part of it outside the subtree of `e` was a circle
before, or `b` was in the subtree. `PrunedStaysAcyclic` is the same for a deletion.
`Decided` makes it inductive: as long as changes are decided on one at a time, what
`Admit` looked up still holds at `Write`. `FilterInv` says that the calls of a page
whose checkbox was not ticked beside another call all ask with the filter shown.

`NfcImportProofs`, for any number of employees, handlers, attempts, ticks and any
settings, those with overrides among them: `LoggedIsCovered` (`SuccessCovers`), `SecondImportAddsNothing`
(`ReimportIsNoop`), `IsGapFill` (`ImplementsGapFill`) and `TypeCorrect`. `PlaceInv` says
where a handler is in the file. `CoverInv` says whom it has covered: everybody it has
passed, and everybody in a file that has been logged as OK, until HR takes logs of
theirs back (`TakesBack`); between the commits of an override too, because logs that
count are otherwise only added to, so that who is covered stays covered
(`CoveredKept`). `MarkInv` says that an override takes back logs of its own day.
`ScheduleInv` is what the refinement needs:
once the date is over every handler has the same file, and the times it finds when it
fills are among those that the other handlers' fills of the same day can have left
(`InStates`, `OutStates`), so that every fill is the gap fill's or repeats it.
Every action maps to a step of `GapFill` or a stutter.

`MonthlyPageProofs`, for any employees, months, days, stored contents and number of
events: `MonthHolds` (`MonthInv`), `FiledWhereShown` (`SaveFiledWhereShown`),
`OnlyEditedDaysSent` (`UneditedDaysKept`), `ReportedSaveShows` (`SavedIsShown`) and
`LockKept` (`LockHolds`). `EditInv` says that rows differ from the loaded ones only
where edited; `ViewInv` that every request of a patient user is for the view
selected, and that the rows are of it unless the page has said that a load failed;
`BadgeInv` and `ReasonInv` that what says "submitted", and what has passed the gate,
has it from the server; `SaveInv` that a save is alone, that the days it has written
are stored as sent (`SavedAs`: the times too, unless a punch has made them late), and
that its reload has them if it is of the month written to.

`SystemConfigProofs`, for any users, entries, kinds of section and bounds:
`ConfigHolds` (`ConfigInv`), `SerialSavesExact` (`SerialUseIsExact`) and `RefreshesEmpty`
(`OnlyRefreshEmpties`). `SerialUseIsExact` needs what the page was told (`KnownInv`: as
long as nothing is spoilt, a page that has been told what is still so shows the row
with its own edits applied) and how far the one save under way has got (`SerialInv`).
`UnloadedIsHidden` is why a list that never came is never saved: its editor is behind
the spinner or the error.

`ListPagesProofs`, for any employees, departments, ranges and bounds: `ListsHold`
(`ListInv`), `TableCurrent` (`SettledTableIsCurrent`), `FilesHold`
(`FileHoldsWhatItSays`) and `TypeCorrect`. `TableInv` says that the latest load is the
one for the filters on screen and is under way or answered (`LatestIsKnown`), and what
the table shows in the second case. `FileInv` says that a file's name is made of the
filters it was asked with.

Only model-checked, because liveness under fairness is out of the prover's reach:
`TapsReachTheLog`, `SpinnersStop`, `ButtonComesBack`, `SectionsComeBack` and
`PagesComeBack`. Which recompute repairs what an overlap of bulk overrides has left is
proved (`ReportsSettle`); what such an overlap itself may leave is said by
`TimesAreGenuine` and `StaysPunched` and no more.

## 5. Not modelled

* **Sessions, WebAuthn and the rate limiter.** What they promise is about
  cryptography, token times in whole seconds and a counter per worker process; no
  other component reads their state. Who is refused a token is in `EmployeeAdmin`.
* **Scope and permissions.** Filters without state, applied by each endpoint; the
  subtree they are computed from is in `EmployeeAdmin` and the switch in
  `SystemConfig`.
* **Time zones.** `terminated_at` is stored in UTC and compared with local dates;
  the models have one clock.
* **Geolocation.** A floating-point distance whose result nothing reads.
* Spreadsheet layout, translations, styling, password hashing, migrations, and the
  client's fetch wrapper, whose outcomes (answered, refused, lost) every page's
  module has.

Worth proving next: the steps of the liveness properties that are safety properties
(which states a fair action leads out of, and that it stays enabled there), and for
which overlaps of bulk overrides the row's times stay in order.
