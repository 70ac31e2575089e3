------------------------------ MODULE ListPages ------------------------------
(***************************************************************************)
(* The pages that show or save what a request of theirs answers:           *)
(*   "report"    DailyReportSection of /reports: a table that follows its  *)
(*               filters, with a list of employees to select from;         *)
(*   "export"    ExportSection: the same filters, a file at the button;    *)
(*   "generate"  GenerateSection: a date and a button;                     *)
(*   "log"       /team, /attendance: a table that follows two dates;       *)
(*   "today"     the dashboard's punches of today, and SystemConfigSection *)
(*               of /admin, a table without filters.                       *)
(* An effect of a page runs with the event that schedules it, the clearing *)
(* of a selection with the list that lost it.  The filters' other fields   *)
(* (dates, status, submission) are one "range".  The server's data stand    *)
(* still here, so that an answer is read when it arrives.  A manager's     *)
(* report is HR's without the checkbox; what a manager may see, and how a  *)
(* day is judged, are other modules' subjects.                             *)
(***************************************************************************)
EXTENDS Integers, FiniteSetsExt

CONSTANTS
    None,
    Kinds,      \* the kinds of page of the instance
    Emps,       \* the employees
    Dept,       \* their departments
    Ranges,     \* values of the filters that need no list
    MaxEvents,  \* bound: what the user does
    MaxFaults   \* bound: requests or answers lost

AllKinds == {"report", "export", "generate", "log", "today"}
Depts == {Dept[e] : e \in Emps}
Filters == [emp : Emps \union {None}, dept : Depts \union {None}, former : BOOLEAN, range : Ranges]

ASSUME ListPagesAssumption ==
    /\ Kinds \subseteq AllKinds /\ None \notin Emps /\ None \notin Depts /\ Ranges # {}
    /\ MaxEvents \in Nat /\ MaxFaults \in Nat

VARIABLES
    kind,
    resigned,   \* the server: the employees terminated
    filters,
    list,       \* employees: who can be selected, and whose departments can
    run,        \* runs of the effect that loads the table
    table,      \* the answer shown: its run and filters; or None
    loading,    \* isLoading
    error,      \* error, which hides the table
    busy,       \* isExporting, isGenerating
    file,       \* the file saved last, or None
    calls,      \* requests under way
    events, faults,
    ended,      \* history: the latest run whose answer has come
    overtaken   \* history: whether the last answer was older than that

page == <<filters, list, run, table, loading, error, busy, file>>
bounds == <<events, faults>>
history == <<ended, overtaken>>
vars == <<kind, resigned, page, calls, bounds, history>>

\* A table loads by itself; a selection needs the list of employees.
Loads == kind \in {"report", "log", "today"}
Lists == kind \in {"report", "export"}

\* A request; n tells it from others like it.
Call(op, f, r) ==
    [n |-> Min({i \in 0..Cardinality(calls) : \A c \in calls : c.op = op => c.n # i}),
     op |-> op, of |-> f, run |-> r, hrm |-> FALSE]

NoFilters == [emp |-> None, dept |-> None, former |-> FALSE, range |-> CHOOSE r \in Ranges : TRUE]

Init ==
    /\ kind \in Kinds /\ resigned \in SUBSET Emps
    /\ filters = NoFilters /\ list = {} /\ table = None /\ error = FALSE
    /\ run = (IF Loads THEN 1 ELSE 0) /\ loading = Loads
    /\ busy = FALSE /\ file = None
    /\ LET Sent(op) == [n |-> 0, op |-> op, of |-> NoFilters, hrm |-> FALSE,
                        run |-> IF op = "load" THEN 1 ELSE 0]
       IN calls = (IF Loads THEN {Sent("load")} ELSE {}) \union (IF Lists THEN {Sent("list")} ELSE {})
    /\ events = 0 /\ faults = 0 /\ ended = 0 /\ overtaken = FALSE

Event == events < MaxEvents /\ events' = events + 1 /\ UNCHANGED <<kind, resigned, faults>>
Fault == faults < MaxFaults /\ faults' = faults + 1 /\ UNCHANGED <<kind, resigned, events>>
Quietly == UNCHANGED <<kind, resigned, bounds>>

----------------------------------------------------------------------------
(* What the user does.                                                     *)

\* The filters become f, some calls end and others begin.  A table that
\* loads is loaded again; the dashboard goes on showing what it shows.
Refilter(f, gone, more) ==
    /\ filters' = f
    /\ IF Loads
       THEN /\ run' = run + 1
            /\ loading' = (loading \/ kind # "today")
            /\ error' = (error /\ kind = "today")
            /\ calls' = (calls \ gone) \union more \union {Call("load", f, run + 1)}
       ELSE calls' = (calls \ gone) \union more /\ UNCHANGED <<run, loading, error>>
    /\ UNCHANGED <<table, busy, file, history>>

\* setSelectedEmployee, setDepartment: out of the list, or everybody.
Select ==
    /\ Event /\ Lists /\ UNCHANGED list
    /\ \/ \E e \in (list \union {None}) \ {filters.emp} : Refilter([filters EXCEPT !.emp = e], {}, {})
       \/ \E d \in ({Dept[e] : e \in list} \union {None}) \ {filters.dept} :
             Refilter([filters EXCEPT !.dept = d], {}, {})

SetRange ==
    /\ Event /\ kind # "today" /\ UNCHANGED list
    /\ \E r \in Ranges \ {filters.range} : Refilter([filters EXCEPT !.range = r], {}, {})

\* Mutant: the report does not depend on the checkbox.
TickListing ==
    /\ Event /\ Lists
    /\ filters' = [filters EXCEPT !.former = ~@]
    /\ calls' = calls \union {Call("list", filters', 0)}
    /\ UNCHANGED <<list, run, table, loading, error, busy, file, history>>

\* setShowTerminated: another list is asked for, uncancelled like the last.
Tick ==
    /\ Event /\ Lists /\ UNCHANGED list
    /\ LET f == [filters EXCEPT !.former = ~@]
       IN Refilter(f, {}, {Call("list", f, 0)})

\* The effects that load depend on the language, for their error message.
SwitchLanguage ==
    /\ Event /\ Loads /\ UNCHANGED list
    /\ Refilter(filters, {}, {})

\* doExport, handleGenerate: either button disables both.
Start ==
    /\ Event /\ ~Loads /\ ~busy /\ busy' = TRUE
    /\ \E hrm \in IF kind = "export" THEN BOOLEAN ELSE {FALSE} :
          calls' = calls \union {[Call("job", filters, 0) EXCEPT !.hrm = hrm]}
    /\ UNCHANGED <<filters, list, run, table, loading, error, file, history>>

----------------------------------------------------------------------------
(* The server.                                                             *)

Asked(f, e) == f.emp \in {None, e} /\ f.dept \in {None, Dept[e]}

\* Mutant: the resigned are hidden only within a department.
RowsOfAll(f) == {e \in Emps : Asked(f, e) /\ (f.former \/ f.dept = None \/ e \notin resigned)}

\* get_daily_report: an employee asked for by id is reported, resigned or
\* not; find_by_department leaves the resigned out again.
Rows(f) ==
    {e \in Emps : /\ Asked(f, e)
                  /\ f.emp # None \/ f.former \/ e \notin resigned
                  /\ f.dept # None => f.former \/ e \notin resigned}

\* list_employees for HR.
Listed(f) == {e \in Emps : f.former \/ e \notin resigned}

----------------------------------------------------------------------------
(* Answers.                                                                *)

\* Mutant: a selection that has left the list stays.
ListArrivesKeeping(c) ==
    /\ c.op = "list" /\ Quietly
    /\ list' = Listed(c.of) /\ calls' = calls \ {c}
    /\ UNCHANGED <<filters, run, table, loading, error, busy, file, history>>

\* setEmployees; the effect after it clears a selection the list lacks.
ListArrives(c) ==
    /\ c.op = "list" /\ Quietly
    /\ list' = Listed(c.of)
    /\ LET f == [filters EXCEPT
                   !.emp = IF @ \in Listed(c.of) THEN @ ELSE None,
                   !.dept = IF \E e \in Listed(c.of) : Dept[e] = @ THEN @ ELSE None]
       IN IF f # filters
          THEN Refilter(f, {c}, {})
          ELSE /\ calls' = calls \ {c}
               /\ UNCHANGED <<filters, run, table, loading, error, busy, file, history>>

\* The lists' requests fail silently.
ListFails(c) ==
    /\ c.op = "list" /\ Fault
    /\ calls' = calls \ {c}
    /\ UNCHANGED <<page, history>>

\* The dashboard's effect is cancelled by the next; the others are not.
Cancelled(c) == kind = "today" /\ c.run < run

\* The table is drawn unless a spinner or an error stands in its place.
OnScreen == ~loading /\ ~error

\* An answer of a table's request is handled.
LoadEnds(c) ==
    /\ c.op = "load"
    /\ calls' = calls \ {c}
    /\ IF Cancelled(c)
       THEN UNCHANGED <<loading, history>>
       ELSE /\ loading' = FALSE
            /\ overtaken' = (c.run < ended)
            /\ ended' = (IF c.run < ended THEN ended ELSE c.run)
    /\ UNCHANGED <<filters, list, run, busy, file>>

LoadAnswered(c) ==
    /\ Quietly /\ LoadEnds(c)
    /\ table' = (IF Cancelled(c) THEN table ELSE [run |-> c.run, of |-> c.of])
    /\ UNCHANGED error

\* The error of the dashboard and of SystemConfigSection stays when a later
\* load succeeds.
LoadFails(c) ==
    /\ Fault /\ LoadEnds(c)
    /\ error' = (error \/ ~Cancelled(c)) /\ UNCHANGED table

\* buildExportFilename: an employee's name stands for the department's too,
\* and the HRM file is named for its dates only.
FileName(f, hrm) ==
    [emp |-> IF hrm THEN None ELSE f.emp,
     dept |-> IF hrm \/ f.emp # None THEN None ELSE f.dept,
     range |-> f.range]

\* Mutant: the file is named when it arrives.
JobAnsweredNaming(c) ==
    /\ c.op = "job" /\ Quietly
    /\ calls' = calls \ {c} /\ busy' = FALSE
    /\ file' = (IF kind = "export" THEN [name |-> FileName(filters, c.hrm), of |-> c.of]
                ELSE file)
    /\ UNCHANGED <<filters, list, run, table, loading, error, history>>

\* The file is saved under the name of the filters of the click.
JobAnswered(c) ==
    /\ c.op = "job" /\ Quietly
    /\ calls' = calls \ {c} /\ busy' = FALSE
    /\ file' = (IF kind = "export" THEN [name |-> FileName(c.of, c.hrm), of |-> c.of]
                ELSE file)
    /\ UNCHANGED <<filters, list, run, table, loading, error, history>>

\* Mutant: the button is enabled again only by success.
JobFailsBusy(c) ==
    /\ c.op = "job" /\ Fault
    /\ calls' = calls \ {c}
    /\ UNCHANGED <<page, history>>

JobFails(c) ==
    /\ c.op = "job" /\ Fault
    /\ calls' = calls \ {c} /\ busy' = FALSE
    /\ UNCHANGED <<filters, list, run, table, loading, error, file, history>>

CallStep(c) == ListArrives(c) \/ LoadAnswered(c) \/ JobAnswered(c)

Next ==
    \/ Select \/ SetRange \/ Tick \/ SwitchLanguage \/ Start
    \/ \E c \in calls : CallStep(c) \/ ListFails(c) \/ LoadFails(c) \/ JobFails(c)

Spec == Init /\ [][Next]_vars

\* The server answers what it is sent.
FairSpec == Spec /\ WF_vars(\E c \in calls : CallStep(c))

----------------------------------------------------------------------------
(* Properties.                                                             *)

Requests ==
    [n : Nat, op : {"load", "list", "job"}, of : Filters, run : Nat, hrm : BOOLEAN]
Tables == [run : Nat, of : Filters]
FileNames == [emp : Emps \union {None}, dept : Depts \union {None}, range : Ranges]

\* The page's state, requests and answers have their types; only pages that
\* load have loads under way, and only pages that select have lists.
TypeOK ==
    /\ kind \in Kinds /\ resigned \subseteq Emps /\ filters \in Filters /\ list \subseteq Emps
    /\ run \in Nat /\ (table = None \/ table \in Tables)
    /\ loading \in BOOLEAN /\ error \in BOOLEAN /\ busy \in BOOLEAN
    /\ file = None \/ (file.name \in FileNames /\ file.of \in Filters)
    /\ calls \subseteq Requests /\ Cardinality({c \in calls : c.op = "job"}) <= 1
    /\ ~Loads => {c \in calls : c.op = "load"} = {}
    /\ ~Lists => {c \in calls : c.op = "list"} = {}
    /\ ended \in Nat /\ overtaken \in BOOLEAN

\* A selection is one the list on screen offers, whatever list came last.
SelectionListed ==
    /\ filters.emp # None => filters.emp \in list
    /\ filters.dept # None => filters.dept \in {Dept[e] : e \in list}

\* Nothing is under way for the table, and its last answer was its latest.
Settled == (\A c \in calls : c.op # "load") /\ ~overtaken

\* A table at rest is of the filters on screen and of the language's last
\* load, although its requests are not cancelled and each depends on all the
\* filters; an answer overtaken by a later one's is excepted.
SettledTableIsCurrent ==
    Loads /\ Settled /\ ~error => OnScreen /\ table.of = filters /\ table.run = run

\* A table at rest shows an employee who had resigned only if the checkbox is
\* ticked, or the employee is selected: after the box is unticked too, when
\* the selection is only cleared by the next list.
ResignedOnlyIfAsked ==
    kind = "report" /\ Settled /\ ~error =>
        \A e \in Rows(table.of) \intersect resigned : filters.former \/ filters.emp = e

\* The report's employees, those to select from and those shown, are the ones
\* the user can see that they were asked for.
ListInv == TypeOK /\ SelectionListed /\ ResignedOnlyIfAsked

\* A file named for an employee or a department and for dates holds nobody
\* else's rows and no other dates, though the filters stay enabled while it
\* is under way.
FileHoldsWhatItSays ==
    file # None =>
        /\ \A e \in Rows(file.of) : file.name.emp \in {None, e} /\ file.name.dept \in {None, Dept[e]}
        /\ file.of.range = file.name.range

\* The spinner and the buttons come back.
PagesComeBack == []<>(~loading /\ ~busy)

=============================================================================
