--------------------------- MODULE AttendanceDay ---------------------------
(***************************************************************************)
(* One employee on one calendar day: the append-only punch log, the daily  *)
(* summary row derived from it, the reason attached to the row, and the    *)
(* HTTP requests that read and write them concurrently.                    *)
(*                                                                         *)
(* Every request has a database session of its own on PostgreSQL at READ   *)
(* COMMITTED, and every repository call commits on its own, so a request   *)
(* is a sequence of short transactions.  One action of this module is one  *)
(* awaited database call (a SELECT, or the flush and COMMIT of a write)    *)
(* with the straight-line code up to the next one.  Rows of different      *)
(* employees or dates never interact in these operations.                  *)
(*                                                                         *)
(* The session keeps the summary object it has loaded as long as the code  *)
(* holds a reference to it: a second SELECT returns the same object with   *)
(* its old attributes, and a flush writes only the attributes that differ  *)
(* from the loaded ones.  copy[p] is that object as loaded.                *)
(***************************************************************************)
EXTENDS AttendanceRules, FiniteSets

CONSTANTS
    Req,           \* the requests of a behaviour
    Calls,         \* the calls clients may make
    Unset,         \* an omitted key of a bulk-override entry
    Day,           \* the calendar day
    Employed,      \* not terminated on or before the day
    DupWindow,     \* DUPLICATE_PUNCH_WINDOW_SECONDS in ticks
    LeaveTypes, Remarks, Overtimes, LateReasons,  \* the non-null values of the columns
    MaxTime        \* bound: the clock stops here

Time == 0 .. MaxTime
Opt(S) == S \union {None}

Kind    == ClassifyDateKind(Day)
Workday == IsWorkday(Day)

\* A row of daily_attendance_summaries.
Row == [first : Opt(Time), last : Opt(Time), status : Statuses,
        leave : Opt(LeaveTypes), remark : Opt(Remarks),
        ot : Opt(Overtimes), late : Opt(LateReasons)]

\* A row of attendance_logs; is_overridden is the variable voided.  by tells
\* the three writers apart and req is the request that wrote the log.
Log == [id : Nat, time : Time, by : {"phone", "bulk", "manager"}, req : Req]

\* An entry of PUT /override-bulk: times are null or given, the other keys
\* may also be omitted.
Entry == [in : Opt(Time), out : Opt(Time),
          leave : Opt(LeaveTypes) \union {Unset}, remark : Opt(Remarks) \union {Unset},
          ot : Opt(Overtimes) \union {Unset}, late : Opt(LateReasons) \union {Unset}]

EmptyEntry == [in |-> None, out |-> None,
               leave |-> Unset, remark |-> Unset, ot |-> Unset, late |-> Unset]

Call == [kind : {"punch", "bulk", "override", "report", "reason"},
         entry : Entry,                  \* bulk only
         isHR : BOOLEAN,                 \* bulk only: the caller is HR or ADMIN
         lateReason : Opt(LateReasons)]  \* punch only

ASSUME DayAssumption ==
    /\ Calls \subseteq Call
    /\ Day \in CalendarDays
    /\ Employed \in BOOLEAN
    /\ DupWindow \in Nat \ {0}
    /\ MaxTime \in Nat /\ MaxTime < TicksPerDay
    /\ None \notin Row \union LeaveTypes \union Remarks \union Overtimes \union LateReasons
    /\ Unset \notin Opt(LeaveTypes) \union Opt(Remarks) \union Opt(Overtimes) \union Opt(LateReasons)
    /\ None \notin Statuses \union Call /\ None # Unset

Running == {"punch_check", "punch_stamp", "punch_insert", "punch_judge",
            "mark", "insert_in", "insert_out", "stamp_read",
            "read_row", "read_first", "read_last", "select", "write", "refresh",
            "override_insert", "reason_check", "reason_insert"}
Finished == {"done", "rejected", "failed"}
Stages == {"calc", "stamp", "place", "late", "absent"}

VARIABLES
    logs,      \* attendance_logs of the day
    voided,    \* ids of the logs with is_overridden = true
    nextId,    \* the id sequence of attendance_logs
    row,       \* the summary row, or None
    reason,    \* the summary has an attendance_reasons row
    now,       \* the wall clock
    pc,        \* where each request is
    call,      \* what each request asks for
    stage,     \* which upsert of the request is under way
    copy,      \* the summary object held by the request's session, or None
    pay,       \* the values the upsert under way was called with
    pend,      \* logs flagged by an UPDATE that is not committed yet
    at,        \* timestamp of the log the request is inserting
    tardy,     \* tardiness_status: local, then the answer to the client
    solo       \* history: no other request has run since this one arrived

db    == <<logs, voided, nextId, row, reason>>
local == <<stage, copy, pay, pend, at, tardy>>
vars  == <<logs, voided, nextId, row, reason, now, pc, call,
           stage, copy, pay, pend, at, tardy, solo>>

\* The placeholder row of upsert_summary(status=ABSENT).
AbsentRow == [first |-> None, last |-> None, status |-> "ABSENT",
              leave |-> None, remark |-> None, ot |-> None, late |-> None]

TypeOK ==
    /\ logs \in SUBSET Log
    /\ voided \in SUBSET Nat
    /\ nextId \in Nat
    /\ row \in Opt(Row)
    /\ reason \in BOOLEAN
    /\ now \in Time
    /\ pc \in [Req -> {"idle"} \union Running \union Finished]
    /\ call \in [Req -> Opt(Call)]
    /\ stage \in [Req -> Stages]
    /\ copy \in [Req -> Opt(Row)]
    /\ pay \in [Req -> Row]
    /\ pend \in [Req -> SUBSET Nat]
    /\ at \in [Req -> Time]
    /\ tardy \in [Req -> Opt({"LATE", "EARLY_LEAVE"})]
    /\ solo \in [Req -> BOOLEAN]

Init ==
    /\ logs = {} /\ voided = {} /\ nextId = 0
    /\ row = None /\ reason = FALSE
    /\ now = 0
    /\ pc = [p \in Req |-> "idle"]
    /\ call = [p \in Req |-> None]
    /\ stage = [p \in Req |-> "calc"]
    /\ copy = [p \in Req |-> None]
    /\ pay = [p \in Req |-> AbsentRow]
    /\ pend = [p \in Req |-> {}]
    /\ at = [p \in Req |-> 0]
    /\ tardy = [p \in Req |-> None]
    /\ solo = [p \in Req |-> FALSE]

-----------------------------------------------------------------------------
(* Reading the log.                                                        *)

\* Mutant: the queries forget to leave overridden logs out.
LiveUnfiltered == logs

Live == {l \in logs : l.id \notin voided}

\* find_first_clock_in and find_last_clock_out: the timestamp of the earliest
\* and of the latest live log, as the set of possible answers.
FirstClockIn ==
    IF Live = {} THEN {None}
    ELSE {t \in Time : \E l \in Live : l.time = t /\ \A m \in Live : t <= m.time}

\* Mutant: find_last_clock_out sorts the wrong way.
LastClockOutAscending == FirstClockIn

LastClockOut ==
    IF Live = {} THEN {None}
    ELSE {t \in Time : \E l \in Live : l.time = t /\ \A m \in Live : m.time <= t}

TooClose(s, t) == s - t < DupWindow /\ t - s < DupWindow

-----------------------------------------------------------------------------
(* Moving a request along.                                                 *)

Goto(p, l) == pc' = [pc EXCEPT ![p] = l]

\* The request ends; its session and everything uncommitted in it are gone.
Finish(p, outcome, answer) ==
    /\ Goto(p, outcome)
    /\ stage' = [stage EXCEPT ![p] = "calc"]
    /\ copy'  = [copy EXCEPT ![p] = None]
    /\ pay'   = [pay EXCEPT ![p] = AbsentRow]
    /\ pend'  = [pend EXCEPT ![p] = {}]
    /\ at'    = [at EXCEPT ![p] = 0]
    /\ tardy' = [tardy EXCEPT ![p] = answer]

SetsPunches(e) == e.in # None \/ e.out # None
SetsColumns(e) == {e.leave, e.remark, e.ot, e.late} # {Unset}

\* The first awaited call of a bulk override, after the labour-law gate.
BulkEntryPoint(c) ==
    IF ~SetsPunches(c.entry) /\ ~SetsColumns(c.entry) THEN "done"
    ELSE IF Kind = REGULAR_LEAVE \/ (Kind = REST_DAY /\ ~c.isHR) THEN "rejected"
    ELSE IF SetsPunches(c.entry) THEN "mark"
    ELSE "stamp_read"

EntryPoint(c) ==
    CASE c.kind = "punch"    -> IF Kind \in {REGULAR_LEAVE, REST_DAY}
                                THEN "rejected" ELSE "punch_check"
      [] c.kind = "bulk"     -> BulkEntryPoint(c)
      [] c.kind = "override" -> "override_insert"
      [] c.kind = "report"   -> "read_row"
      [] c.kind = "reason"   -> "reason_check"

Active(q) == pc[q] \in Running

\* A request reaches a worker.
Arrive(p) ==
    /\ pc[p] = "idle"
    /\ \E c \in Calls :
         /\ call' = [call EXCEPT ![p] = c]
         /\ Goto(p, EntryPoint(c))
    /\ solo' = [q \in Req |-> q = p /\ \A r \in Req : ~Active(r)]
    /\ UNCHANGED <<db, now, local>>

\* An exception, a lost worker or a lost connection ends the request between
\* two awaited calls: what it committed stays.
Abort(p) ==
    /\ Active(p)
    /\ Finish(p, "failed", None)
    /\ UNCHANGED <<db, now, call, solo>>

Tick ==
    /\ now < MaxTime
    /\ now' = now + 1
    /\ UNCHANGED <<db, pc, call, local, solo>>

-----------------------------------------------------------------------------
(* POST /api/attendance/punch, up to the recompute.                        *)

\* Mutant: no duplicate check.
PunchUnchecked(p) ==
    /\ pc[p] = "punch_check"
    /\ Goto(p, "punch_stamp")
    /\ UNCHANGED <<db, now, call, local, solo>>

PunchCheck(p) ==
    /\ pc[p] = "punch_check"
    /\ IF \E l \in Live : TooClose(now, l.time)
       THEN Finish(p, "rejected", None)
       ELSE Goto(p, "punch_stamp") /\ UNCHANGED local
    /\ UNCHANGED <<db, now, call, solo>>

\* The log is stamped after the geolocation lookup ...
PunchStamp(p) ==
    /\ pc[p] = "punch_stamp"
    /\ at' = [at EXCEPT ![p] = now]
    /\ Goto(p, "punch_insert")
    /\ UNCHANGED <<db, now, call, stage, copy, pay, pend, tardy, solo>>

NewLog(p, time, by) == [id |-> nextId, time |-> time, by |-> by, req |-> p]

\* ... and committed by create_log.
PunchInsert(p) ==
    /\ pc[p] = "punch_insert"
    /\ logs' = logs \union {NewLog(p, at[p], "phone")}
    /\ nextId' = nextId + 1
    /\ Goto(p, "punch_judge")
    /\ UNCHANGED <<voided, row, reason, now, call, local, solo>>

\* Mutant: only a tardy punch recomputes the summary.
RecomputesIfTardy(verdict, lateReason) == verdict # None

Recomputes(verdict, lateReason) == verdict # None \/ lateReason # None

\* _check_tardiness, and the decision to recompute the summary now.
PunchJudge(p) ==
    /\ pc[p] = "punch_judge"
    /\ LET verdict == CheckTardiness(Cardinality(logs), at[p])
       IN IF Recomputes(verdict, call[p].lateReason)
          THEN /\ tardy' = [tardy EXCEPT ![p] = verdict]
               /\ Goto(p, "read_row")
               /\ UNCHANGED <<stage, copy, pay, pend, at>>
          ELSE Finish(p, "done", None)
    /\ UNCHANGED <<db, now, call, solo>>

-----------------------------------------------------------------------------
(* generate_daily_summary, shared by punch, bulk override and report.      *)

\* Mutant: the recompute forgets the stored overtime.
KeptWithoutOvertime(r) == IF r = None THEN AbsentRow ELSE [r EXCEPT !.ot = None]

\* The columns a recompute carries over from the existing row.
Kept(r) == IF r = None THEN AbsentRow ELSE r

ReadRow(p) ==
    /\ pc[p] = "read_row"
    /\ copy' = [copy EXCEPT ![p] = row]
    /\ pay' = [pay EXCEPT ![p] = Kept(row)]
    /\ stage' = [stage EXCEPT ![p] = "calc"]
    /\ Goto(p, "read_first")
    /\ UNCHANGED <<db, now, call, pend, at, tardy, solo>>

ReadFirst(p) ==
    /\ pc[p] = "read_first"
    /\ \E t \in FirstClockIn : pay' = [pay EXCEPT ![p].first = t]
    /\ Goto(p, "read_last")
    /\ UNCHANGED <<db, now, call, stage, copy, pend, at, tardy, solo>>

\* generate_daily_summary returns None: no punches, no leave, no overtime.
\* Only generate_all_summaries goes on, to the ABSENT fallback.
NothingToSummarize(p) ==
    IF call[p].kind = "report" /\ Workday /\ Employed
    THEN /\ stage' = [stage EXCEPT ![p] = "absent"]
         /\ Goto(p, "select")
         /\ UNCHANGED <<copy, pay, pend, at, tardy>>
    ELSE Finish(p, "done", None)

ReadLast(p) ==
    /\ pc[p] = "read_last"
    /\ \E t \in LastClockOut :
         LET status == CalculateStatus(pay[p].first, t, pay[p].leave, Kind)
         IN IF status = None /\ pay[p].ot = None
            THEN NothingToSummarize(p)
            ELSE /\ pay' = [pay EXCEPT ![p].last = t,
                                       ![p].status = IF status = None THEN @ ELSE status]
                 /\ Goto(p, IF copy[p] = None THEN "select" ELSE "write")
                 /\ UNCHANGED <<stage, copy, pend, at, tardy>>
    /\ UNCHANGED <<db, now, call, solo>>

-----------------------------------------------------------------------------
(* upsert_summary: SELECT, then INSERT or UPDATE and COMMIT, then refresh. *)

\* The SELECT of an upsert whose session holds no summary object.  The ABSENT
\* fallback leaves overtime and late reason alone.
UpsertSelect(p) ==
    /\ pc[p] = "select"
    /\ copy' = [copy EXCEPT ![p] = row]
    /\ pay' = [pay EXCEPT ![p] =
                 IF stage[p] # "absent" THEN @
                 ELSE IF row = None THEN AbsentRow
                 ELSE [AbsentRow EXCEPT !.ot = row.ot, !.late = row.late]]
    /\ Goto(p, "write")
    /\ UNCHANGED <<db, now, call, stage, pend, at, tardy, solo>>

\* The UPDATE of a loaded object sets the attributes that were changed on it.
Changed(old, new, stored) == IF new # old THEN new ELSE stored

\* Mutant: the UPDATE branch forgets the status.
UpdatedWithoutStatus(old, new, stored) ==
    [new EXCEPT !.status = stored.status]

Updated(old, new, stored) ==
    [first  |-> Changed(old.first,  new.first,  stored.first),
     last   |-> Changed(old.last,   new.last,   stored.last),
     status |-> Changed(old.status, new.status, stored.status),
     leave  |-> Changed(old.leave,  new.leave,  stored.leave),
     remark |-> Changed(old.remark, new.remark, stored.remark),
     ot     |-> Changed(old.ot,     new.ot,     stored.ot),
     late   |-> Changed(old.late,   new.late,   stored.late)]

\* After the write, punch goes on with the refreshed object, a bulk override
\* with its recompute, and a recompute with the answer.
AfterWrite(p) ==
    CASE stage[p] \in {"stamp", "late"} -> Goto(p, "refresh") /\ UNCHANGED local
      [] stage[p] = "place" -> Goto(p, "read_row") /\ UNCHANGED local
      [] stage[p] = "calc" /\ call[p].kind = "punch" -> Goto(p, "refresh") /\ UNCHANGED local
      [] OTHER -> Finish(p, "done", None)

UpsertWrite(p) ==
    /\ pc[p] = "write"
    /\ \/ /\ copy[p] # None
          /\ row' = Updated(copy[p], pay[p], row)
          /\ AfterWrite(p)
       \/ /\ copy[p] = None /\ row = None
          /\ row' = pay[p]
          /\ AfterWrite(p)
       \/ /\ copy[p] = None /\ row # None     \* uq_summary_emp_date
          /\ Finish(p, "failed", None)
          /\ UNCHANGED row
    /\ UNCHANGED <<logs, voided, nextId, reason, now, call, solo>>

\* Mutant: a day that is both late and left early does not prompt.
PunchAnswerForgettingBoth(p, summary) ==
    Finish(p, "done",
           IF summary.status \in {"LATE", "EARLY_LEAVE"} THEN tardy[p] ELSE None)

\* Ask the employee for a reason only if the refreshed summary takes one.
PunchAnswer(p, summary) ==
    Finish(p, "done",
           IF summary.status \in ReasonEligibleStatuses THEN tardy[p] ELSE None)

\* session.refresh after the commit, and what the code does with the object.
Refresh(p) ==
    /\ pc[p] = "refresh"
    /\ \/ /\ stage[p] = "stamp"
          /\ copy' = [copy EXCEPT ![p] = row]
          /\ pay' = [pay EXCEPT ![p] = row]
          /\ stage' = [stage EXCEPT ![p] = "calc"]
          /\ Goto(p, "read_first")
          /\ UNCHANGED <<pend, at, tardy>>
       \/ /\ stage[p] = "calc" /\ call[p].lateReason # None
          /\ copy' = [copy EXCEPT ![p] = row]
          /\ pay' = [pay EXCEPT ![p] = [row EXCEPT !.late = call[p].lateReason]]
          /\ stage' = [stage EXCEPT ![p] = "late"]
          /\ Goto(p, "write")
          /\ UNCHANGED <<pend, at, tardy>>
       \/ /\ stage[p] = "late" \/ (stage[p] = "calc" /\ call[p].lateReason = None)
          /\ PunchAnswer(p, row)
    /\ UNCHANGED <<db, now, call, solo>>

-----------------------------------------------------------------------------
(* PUT /api/attendance/override-bulk, up to the recompute.                 *)

\* Mutant: mark_overridden commits by itself.
BulkMarkCommits(p) ==
    /\ pc[p] = "mark"
    /\ voided' = voided \union {l.id : l \in Live}
    /\ Goto(p, IF call[p].entry.in # None THEN "insert_in" ELSE "insert_out")
    /\ UNCHANGED <<logs, nextId, row, reason, now, call, local, solo>>

\* The UPDATE of mark_overridden; the next create_log commits it.
BulkMark(p) ==
    /\ pc[p] = "mark"
    /\ pend' = [pend EXCEPT ![p] = {l.id : l \in Live}]
    /\ Goto(p, IF call[p].entry.in # None THEN "insert_in" ELSE "insert_out")
    /\ UNCHANGED <<db, now, call, stage, copy, pay, at, tardy, solo>>

BulkInsert(p, time) ==
    /\ logs' = logs \union {NewLog(p, time, "bulk")}
    /\ nextId' = nextId + 1
    /\ voided' = voided \union pend[p]
    /\ pend' = [pend EXCEPT ![p] = {}]
    /\ UNCHANGED <<row, reason, now, call, stage, copy, pay, at, tardy, solo>>

\* Mutant: an entry with punches skips the other columns.
AfterPunchesRecompute(e) == "read_row"

AfterPunches(e) == IF SetsColumns(e) THEN "stamp_read" ELSE "read_row"

BulkInsertIn(p) ==
    /\ pc[p] = "insert_in"
    /\ BulkInsert(p, call[p].entry.in)
    /\ Goto(p, IF call[p].entry.out # None THEN "insert_out"
               ELSE AfterPunches(call[p].entry))

BulkInsertOut(p) ==
    /\ pc[p] = "insert_out"
    /\ BulkInsert(p, call[p].entry.out)
    /\ Goto(p, AfterPunches(call[p].entry))

\* The value a key of the entry asks for: v, or the stored one if omitted.
Asked(v, stored) == IF v = Unset THEN stored ELSE v

Stamped(e, r) ==
    LET leave == Asked(e.leave, r.leave)
        bare  == leave = None /\ ~SetsPunches(e) /\ r.first = None /\ r.last = None
    IN [first |-> r.first, last |-> r.last,
        status |-> IF bare THEN "ABSENT" ELSE r.status,
        leave |-> leave, remark |-> Asked(e.remark, r.remark),
        ot |-> Asked(e.ot, r.ot), late |-> Asked(e.late, r.late)]

\* Stamp the entry's columns on the row, or on a placeholder if there is no
\* row and the entry has a value to keep.
StampRead(p) ==
    /\ pc[p] = "stamp_read"
    /\ LET e == call[p].entry
       IN \/ /\ row # None
             /\ copy' = [copy EXCEPT ![p] = row]
             /\ pay' = [pay EXCEPT ![p] = Stamped(e, row)]
             /\ stage' = [stage EXCEPT ![p] = "stamp"]
             /\ Goto(p, "write")
          \/ /\ row = None
             /\ {e.leave, e.remark, e.ot, e.late} \ {None, Unset} # {}
             /\ pay' = [pay EXCEPT ![p] = Stamped(e, AbsentRow)]
             /\ stage' = [stage EXCEPT ![p] = "place"]
             /\ Goto(p, "select")
             /\ UNCHANGED copy
          \/ /\ row = None
             /\ {e.leave, e.remark, e.ot, e.late} \ {None, Unset} = {}
             /\ Goto(p, "read_row")
             /\ UNCHANGED <<copy, pay, stage>>
    /\ UNCHANGED <<db, now, call, pend, at, tardy, solo>>

-----------------------------------------------------------------------------
(* POST /api/attendance/override and POST /api/reasons.                    *)

\* The manager's log is born overridden.
OverrideInsert(p) ==
    /\ pc[p] = "override_insert"
    /\ logs' = logs \union {NewLog(p, now, "manager")}
    /\ voided' = voided \union {nextId}
    /\ nextId' = nextId + 1
    /\ Finish(p, "done", None)
    /\ UNCHANGED <<row, reason, now, call, solo>>

\* The summary's status and an existing reason are read before the insert.
ReasonCheck(p) ==
    /\ pc[p] = "reason_check"
    /\ IF row # None /\ row.status \in ReasonEligibleStatuses /\ ~reason
       THEN Goto(p, "reason_insert") /\ UNCHANGED local
       ELSE Finish(p, "rejected", None)
    /\ UNCHANGED <<db, now, call, solo>>

\* uq_reason_summary turns a second insert into an error.
ReasonInsert(p) ==
    /\ pc[p] = "reason_insert"
    /\ reason' = TRUE
    /\ Finish(p, IF reason THEN "failed" ELSE "done", None)
    /\ UNCHANGED <<logs, voided, nextId, row, now, call, solo>>

-----------------------------------------------------------------------------

Step(p) ==
    \/ PunchCheck(p) \/ PunchStamp(p) \/ PunchInsert(p) \/ PunchJudge(p)
    \/ ReadRow(p) \/ ReadFirst(p) \/ ReadLast(p)
    \/ UpsertSelect(p) \/ UpsertWrite(p) \/ Refresh(p)
    \/ BulkMark(p) \/ BulkInsertIn(p) \/ BulkInsertOut(p) \/ StampRead(p)
    \/ OverrideInsert(p) \/ ReasonCheck(p) \/ ReasonInsert(p)

\* Every request has been answered and the day is over.
Rest ==
    /\ \A p \in Req : pc[p] \in Finished
    /\ now = MaxTime
    /\ UNCHANGED vars

Next ==
    \/ \E p \in Req : Arrive(p) \/ Step(p) \/ Abort(p)
    \/ Tick
    \/ Rest

Spec == Init /\ [][Next]_vars

-----------------------------------------------------------------------------
(* The inductive invariant behind the safety properties.                   *)

\* A running request has a call, and its entry has the punches it is about to
\* write.
CallsFit ==
    \A p \in Req :
        /\ pc[p] \in Running => call[p] # None
        /\ pc[p] = "mark" => SetsPunches(call[p].entry)
        /\ pc[p] = "insert_in" => call[p].entry.in # None
        /\ pc[p] = "insert_out" => call[p].entry.out # None

\* The row is never deleted, so what a session has loaded still exists.
RowsExist ==
    \A p \in Req : copy[p] # None \/ pc[p] = "refresh" => row # None

\* Ids come from the sequence; a manager's log is overridden from birth.
IdsFit ==
    /\ \A l \in logs : l.id < nextId
    /\ \A i \in voided : i < nextId
    /\ \A p \in Req : \A i \in pend[p] : i < nextId
    /\ \A l \in logs : l.by = "manager" => l.id \in voided

\* Clock-in times that count: phone punches and bulk overrides.
CountedTimes == {l.time : l \in {m \in logs : m.by # "manager"}}

TimesFit(r) == {r.first, r.last} \subseteq Opt(CountedTimes)

\* Every time in the row, in a session's copy or in a write under way was
\* punched or entered.
CarriedTimesFit ==
    /\ row # None => TimesFit(row)
    /\ \A p \in Req : TimesFit(pay[p]) /\ (copy[p] # None => TimesFit(copy[p]))

IndInv == TypeOK /\ CallsFit /\ RowsExist /\ IdsFit /\ CarriedTimesFit

-----------------------------------------------------------------------------
(* Safety: what holds under every interleaving, abort and clock.           *)

\* The punch log is an immutable stream (attendance_repository): no request
\* removes a log, changes what it says, or takes an overridden flag back.
LogsAppendOnly == [][logs \subseteq logs' /\ voided \subseteq voided']_vars

\* A day with a counted punch keeps one: overriding the old logs and writing
\* the new one is a single transaction in every interleaving of overrides, so
\* an abort between them never turns a worked day into an absence.
PunchedDayStaysPunched == [][Live # {} => Live' # {}]_vars

\* The summary never shows a time that neither the employee punched nor a bulk
\* override entered: stale copies, torn reads and retries only ever move real
\* times around, and a manager's override log (born overridden) is not one.
TimesComeFromLogs == row # None => TimesFit(row)

\* First-In-Last-Out: the row's clock-in is not after its clock-out, whatever
\* recomputes overlap.  Bulk overrides can break it (see RowInOrder's runs).
RowInOrder ==
    row # None /\ row.first # None /\ row.last # None => row.first <= row.last

-----------------------------------------------------------------------------
(* What one request achieves when no other request overlaps it, from       *)
(* whatever state earlier races and aborts have left behind.               *)

Completes(p) == pc[p] \in Running /\ pc'[p] = "done"

\* The summary says what the live logs say.
SummaryAgrees ==
    \E f \in FirstClockIn, l \in LastClockOut :
        /\ row # None => row.first = f /\ row.last = l
        /\ IF Live = {} /\ (row = None \/ row.leave = None)
           THEN Workday /\ Employed => row # None /\ (row.status = "ABSENT" \/ row.ot # None)
           ELSE row # None /\ row.status = CalculateStatus(f, l, row.leave, Kind)

\* A report heals the row: after a report that ran alone the summary agrees
\* with the log, even if the row was torn, stale or missing before.
ReportSettlesRow ==
    [][\A p \in Req :
         solo[p] /\ Completes(p) /\ call[p].kind = "report" => SummaryAgrees']_vars

\* A bulk override that ran alone lands completely: exactly its punches count,
\* every column it set has its value, the others keep theirs.
OverrideLands ==
    [][\A p \in Req :
         solo[p] /\ Completes(p) /\ call[p].kind = "bulk" /\ call[p].entry # EmptyEntry =>
           LET e == call[p].entry
               times == {e.in, e.out} \ {None}
           IN /\ times # {} => {l.time : l \in Live'} = times
              /\ row' # None =>
                   /\ e.leave # Unset => row'.leave = e.leave
                   /\ e.remark # Unset => row'.remark = e.remark
                   /\ e.ot # Unset => row'.ot = e.ot
                   /\ e.late # Unset => row'.late = e.late
              /\ row' = None => Live' = {} /\ SetsColumns(e)
              /\ row' # None => SummaryAgrees']_vars

\* Recomputing is not editing: while a request other than a bulk override runs
\* alone, the leave and the overtime of an existing row do not change.
RecomputeKeepsLeaveAndOvertime ==
    [][\A p \in Req :
         solo[p] /\ pc'[p] # pc[p] /\ row # None /\ call[p].kind # "bulk" =>
           row'.leave = row.leave /\ row'.ot = row.ot]_vars

\* A punch that carried a late-leave reason and was answered has stored it,
\* and no recompute that runs alone takes it away again.
LateReasonStored ==
    [][\A p \in Req : solo[p] =>
         /\ Completes(p) /\ call[p].kind = "punch" /\ call[p].lateReason # None =>
              row' # None /\ row'.late = call[p].lateReason
         /\ pc'[p] # pc[p] /\ row # None /\ call[p].kind \in {"report", "override", "reason"} =>
              row'.late = row.late]_vars

\* The prompt after a punch agrees with the daily status, although
\* _check_tardiness and calculate_status compute them from different data.
\* The screen asks only while the stored status takes a reason; and on a day
\* without overridden logs, a punch later than all others is asked about
\* exactly when it makes the day late (as the first) or left early (as a
\* later one): no prompt is missing, and none repeats the morning's lateness.
PromptMatchesStatus ==
    [][\A p \in Req :
         solo[p] /\ Completes(p) /\ call[p].kind = "punch" =>
           /\ tardy'[p] # None => row' # None /\ row'.status \in ReasonEligibleStatuses
           /\ \A own \in logs, f \in FirstClockIn, t \in LastClockOut :
                own.time = at[p] /\ voided = {} /\ (\A l \in logs \ {own} : l.time < at[p]) =>
                  LET status == CalculateStatus(f, t, IF row' = None THEN None ELSE row'.leave, Kind)
                  IN /\ tardy'[p] = "LATE" <=>
                          logs = {own} /\ status \in {"LATE", "LATE_AND_EARLY_LEAVE"}
                     /\ tardy'[p] = "EARLY_LEAVE" <=>
                          logs # {own} /\ status \in {"EARLY_LEAVE", "LATE_AND_EARLY_LEAVE"}]_vars

\* Two phone punches that did not overlap are a window apart.
PunchesSpaced ==
    [][\A p \in Req : solo[p] /\ call[p].kind = "punch" =>
         \A l \in logs' \ logs, m \in Live :
           m.by = "phone" => ~TooClose(l.time, m.time)]_vars

-----------------------------------------------------------------------------
(* What the documentation says and the code does not do.                   *)

\* generate_daily_summary "Preserves any pre-set leave_type/remark across
\* recompute": the remark, with requests one after the other.
RecomputeKeepsRemark ==
    [][\A p \in Req :
         solo[p] /\ pc'[p] # pc[p] /\ row # None /\ call[p].kind # "bulk" =>
           row'.remark = row.remark]_vars

=============================================================================
