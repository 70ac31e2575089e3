---------------------------- MODULE SystemConfig ----------------------------
(***************************************************************************)
(* One key of the system configuration and the pages that edit it: two     *)
(* HR users' browsers on /admin, and the server's set_config.  Five kinds  *)
(* of section edit five kinds of key:                                      *)
(*   "draft"     RanksTab, LeaveTypesTab: a list edited locally, then      *)
(*               saved as a whole;                                         *)
(*   "list"      DepartmentManagementSection: a list saved as a whole at   *)
(*               every addition and removal;                               *)
(*   "switch"    OrgScopingSection, OverrideLockSection: <<>> or <<x>>;    *)
(*   "form"      OfficeLocationSection, GracePeriodSection: <<v>>, or <<>> *)
(*               for an empty field;                                       *)
(*   "calendar"  CalendarStatusSection and the readers of one year's       *)
(*               workday calendar: <<>> without entries, Full with them.   *)
(* A handler that runs between two awaits is one action, on the page and   *)
(* on the server; effects run with the event that schedules them.  Every   *)
(* call reads the row and writes it in two steps, since set_config does.   *)
(***************************************************************************)
EXTENDS Integers, SequencesExt

CONSTANTS
    None,
    Users,      \* the HR users with the page open
    Items,      \* entries of a list, values of a form
    Kinds,      \* the kinds of section of the instance
    MaxEvents,  \* bound: what users do, and calendar reads elsewhere
    MaxSaves,   \* bound: saves under way
    MaxFaults   \* bound: requests or answers lost, calendar fetches failed

AllKinds == {"draft", "list", "switch", "form", "calendar"}

Lists == SetToAllKPermutations(Items)

ASSUME SystemConfigAssumption ==
    /\ None \notin Users \union Lists /\ Kinds \subseteq AllKinds
    /\ Items # {} /\ IsFiniteSet(Items)
    /\ MaxEvents \in Nat /\ MaxSaves \in Nat /\ MaxFaults \in Nat

VARIABLES
    kind,
    row,        \* the server: the key's value, None without a row
    view,       \* a page: the list, switch, field or status it shows
    loading,    \* a page: isLoading
    error,      \* a page: error, which hides the editor or the table
    gen,        \* a page: runs of its load effect; earlier ones are cancelled
    busy,       \* a page: isSubmitting, refreshingYear
    calls,      \* requests under way
    events, faults,
    known,      \* history: whether what a page was last told of the row is
                \* "current" or "old"; "nothing" before
    todo,       \* history: the edits of a draft since it was last told
    wanted,     \* history: the entries that all saves together asked for
    spoilt      \* history: a save began without knowledge of the row, beside
                \* another one, or got lost

server == <<row>>
page == <<view, loading, error, gen, busy>>
bounds == <<events, faults>>
history == <<known, todo, wanted, spoilt>>
vars == <<kind, server, page, calls, bounds, history>>

On == CHOOSE x \in Items : TRUE
Full == <<On>>
Values ==
    CASE kind \in {"draft", "list"} -> Lists
      [] kind = "form" -> {<<>>} \union {<<x>> : x \in Items}
      [] OTHER -> {<<>>, <<On>>}

\* What a GET of the key answers: the default stands in for a missing row.
ServerValue == IF row = None /\ kind # "calendar" THEN <<>> ELSE row

\* A new request; n tells it from others like it.
Call(u, op, g, list) ==
    [n |-> Min({i \in 0..Cardinality(calls) : \A c \in calls : c.u = u => c.n # i}),
     u |-> u, op |-> op, gen |-> g, list |-> list, val |-> None, new |-> FALSE, step |-> "sent"]

Init ==
    /\ kind \in Kinds
    /\ row \in {None, Full}
    /\ view = [u \in Users |-> <<>>] /\ loading = [u \in Users |-> TRUE]
    /\ error = [u \in Users |-> FALSE] /\ gen = [u \in Users |-> 1]
    /\ busy = [u \in Users |-> FALSE]
    /\ events = 1 /\ faults = 0
    /\ calls = {[n |-> 0, u |-> u, op |-> IF kind = "calendar" THEN "status" ELSE "load",
                 gen |-> 1, list |-> None, val |-> None, new |-> FALSE, step |-> "sent"] : u \in Users}
    /\ known = [u \in Users |-> "nothing"] /\ todo = [u \in Users |-> {}]
    /\ wanted = (IF row = None THEN {} ELSE ToSet(row)) /\ spoilt = FALSE

Event == events < MaxEvents /\ events' = events + 1 /\ UNCHANGED <<kind, server, faults>>
Fault == faults < MaxFaults /\ faults' = faults + 1 /\ UNCHANGED <<kind, server, events>>
Quietly == UNCHANGED <<kind, bounds>>

Becomes(c, d) == calls' = (calls \ {c}) \union {d}

----------------------------------------------------------------------------
(* What users do.                                                          *)

\* Whether a page shows its controls.
Usable(u) == ~loading[u] /\ ~error[u]

Saving == {c \in calls : c.op \in {"save", "refresh"}}

\* A PUT of the whole value; asked is what the user means by it.
Put(u, list, asked) ==
    /\ Cardinality(Saving) < MaxSaves
    /\ calls' = calls \union {Call(u, "save", gen[u], list)}
    /\ busy' = [busy EXCEPT ![u] = TRUE]
    /\ spoilt' = (spoilt \/ known[u] # "current" \/ Saving # {})
    /\ wanted' = IF spoilt' THEN {} ELSE asked
    /\ UNCHANGED <<view, loading, error, gen, known, todo>>

\* handleAdd, handleRemove of a draft.  Enter adds while a save is under way.
\* A list holds an entry once: to filter it out is to remove its place.
Edit(u) ==
    /\ Event /\ kind = "draft" /\ Usable(u)
    /\ \/ \E x \in Items \ ToSet(view[u]) :
             /\ view' = [view EXCEPT ![u] = Append(view[u], x)]
             /\ todo' = [todo EXCEPT ![u] = (@ \ {<<x, FALSE>>}) \union {<<x, TRUE>>}]
       \/ \E i \in DOMAIN view[u] :
             LET x == view[u][i]
             IN /\ ~busy[u]
                /\ view' = [view EXCEPT ![u] = RemoveAt(view[u], i)]
                /\ todo' = [todo EXCEPT ![u] = (@ \ {<<x, TRUE>>}) \union {<<x, FALSE>>}]
    /\ UNCHANGED <<loading, error, gen, busy, calls, known, wanted, spoilt>>

\* move: two neighbours of a draft change places.
Move(u) ==
    /\ Event /\ kind = "draft" /\ Usable(u) /\ ~busy[u]
    /\ \E i \in 1..(Len(view[u]) - 1) :
          view' = [view EXCEPT ![u] = [@ EXCEPT ![i] = view[u][i + 1], ![i + 1] = view[u][i]]]
    /\ UNCHANGED <<loading, error, gen, busy, calls, history>>

\* A form's field takes any text, during a save too.
Type(u) ==
    /\ Event /\ kind = "form" /\ Usable(u)
    /\ \E v \in Values \ {view[u]} : view' = [view EXCEPT ![u] = v]
    /\ UNCHANGED <<loading, error, gen, busy, calls, history>>

\* Mutant: the save button is shown although the list never loaded.
SaveDespiteError(u) ==
    /\ Event /\ kind \in {"draft", "form"} /\ ~loading[u] /\ ~busy[u]
    /\ kind = "form" => view[u] # <<>>
    /\ Put(u, view[u], ToSet(view[u]))

\* handleSave of a draft, handleSubmit of a form with a valid value.
Save(u) ==
    /\ Event /\ kind \in {"draft", "form"} /\ Usable(u) /\ ~busy[u]
    /\ IF kind = "form"
       THEN view[u] # <<>> /\ Put(u, view[u], ToSet(view[u]))
       ELSE Put(u, view[u], {x \in Items : \/ <<x, TRUE>> \in todo[u]
                                           \/ (x \in wanted /\ <<x, FALSE>> \notin todo[u])})

\* saveDepartments: the page's list with one department more or less.  Enter
\* adds while a save is under way, and before the list has been loaded.
AddNow(u) ==
    /\ Event /\ kind = "list"
    /\ \E x \in Items \ ToSet(view[u]) : Put(u, Append(view[u], x), wanted \union {x})

RemoveNow(u) ==
    /\ Event /\ kind = "list" /\ ~busy[u]
    /\ \E i \in DOMAIN view[u] : Put(u, RemoveAt(view[u], i), wanted \ {view[u][i]})

Toggle(u) ==
    /\ Event /\ kind = "switch" /\ Usable(u) /\ ~busy[u]
    /\ LET next == IF view[u] = <<>> THEN <<On>> ELSE <<>> IN Put(u, next, ToSet(next))

Refresh(u) ==
    /\ Event /\ kind = "calendar" /\ Usable(u) /\ ~busy[u]
    /\ calls' = calls \union {Call(u, "refresh", gen[u], None)}
    /\ busy' = [busy EXCEPT ![u] = TRUE]
    /\ UNCHANGED <<view, loading, error, gen, history>>

\* A new t runs the load effects that depend on it again; isLoading stays.
SwitchLanguage(u) ==
    /\ Event /\ kind \in {"draft", "form"}
    /\ gen' = [gen EXCEPT ![u] = @ + 1]
    /\ calls' = calls \union {Call(u, "load", gen[u] + 1, None)}
    /\ UNCHANGED <<view, loading, error, busy, history>>

\* Elsewhere somebody opens a month, or a report, of the calendar's year.
ReadElsewhere ==
    /\ Event /\ kind = "calendar"
    /\ \E op \in {"month", "report"} : calls' = calls \union {Call(None, op, 0, None)}
    /\ UNCHANGED <<page, history>>

----------------------------------------------------------------------------
(* The server.                                                             *)

\* A GET of the key or of the calendars' status.
Read(c) ==
    /\ c.op \in {"load", "status"} /\ c.step = "sent"
    /\ Becomes(c, [c EXCEPT !.step = "done", !.val = ServerValue, !.new = TRUE])
    /\ Quietly /\ UNCHANGED <<server, page, history>>

\* A reader finds the calendar in the row, whatever it holds, or goes on to
\* fetch it.
ReadCalendar(c) ==
    /\ c.op \in {"month", "report"} /\ c.step = "sent"
    /\ Becomes(c, IF row # None THEN [c EXCEPT !.step = "done", !.val = row]
                                ELSE [c EXCEPT !.step = "fetch"])
    /\ Quietly /\ UNCHANGED <<server, page, history>>

Fetching(c) == c.step = "fetch" \/ (c.op = "refresh" /\ c.step = "sent")

\* A report stores the calendar in the name of "reporting_service", which is
\* no employee: the foreign key of updated_by refuses the row.
Fetched(c) ==
    /\ Fetching(c)
    /\ Becomes(c, [c EXCEPT !.list = Full, !.step = IF c.op = "report" THEN "refused" ELSE "put"])
    /\ Quietly /\ UNCHANGED <<server, page, history>>

\* Mutant: a month stores an empty calendar too.
FetchFailedStoring(c) ==
    /\ Fetching(c) /\ Fault
    /\ Becomes(c, IF c.op \in {"refresh", "month"} THEN [c EXCEPT !.list = <<>>, !.step = "put"]
                  ELSE [c EXCEPT !.list = <<>>, !.step = "done", !.val = <<>>])
    /\ UNCHANGED <<page, history>>

\* fetch_calendar_from_cdn answers [] on any failure.  A refresh stores it.
FetchFailed(c) ==
    /\ Fetching(c) /\ Fault
    /\ Becomes(c, IF c.op = "refresh" THEN [c EXCEPT !.list = <<>>, !.step = "put"]
                  ELSE [c EXCEPT !.list = <<>>, !.step = "done", !.val = <<>>])
    /\ UNCHANGED <<page, history>>

\* set_config reads the row ...
PutRead(c) ==
    /\ c.step = "put" \/ (c.op = "save" /\ c.step = "sent")
    /\ Becomes(c, [c EXCEPT !.step = "write", !.val = row])
    /\ Quietly /\ UNCHANGED <<server, page, history>>

\* ... and inserts one, unless somebody has in the meantime, or updates it:
\* of an attribute that is set to the value it was read with, the session
\* writes nothing.
PutWrite(c) ==
    /\ c.step = "write"
    /\ IF c.val = None /\ row # None
       THEN Becomes(c, [c EXCEPT !.step = "refused"]) /\ UNCHANGED server
       ELSE /\ row' = IF c.val = c.list THEN row ELSE c.list
            /\ calls' = {[d EXCEPT !.new = FALSE] : d \in calls \ {c}} \union
                         {[c EXCEPT !.step = "done", !.val = c.list, !.new = TRUE]}
    /\ known' = [u \in Users |-> IF known[u] = "nothing" \/ row' = row THEN known[u] ELSE "old"]
    /\ Quietly /\ UNCHANGED <<page, todo, wanted, spoilt>>

----------------------------------------------------------------------------
(* Answers.                                                                *)

Done(c) == calls' = calls \ {c}

Told(c, v) ==
    /\ view' = [view EXCEPT ![c.u] = v]
    /\ known' = [known EXCEPT ![c.u] = IF c.new THEN "current" ELSE "old"]
    /\ todo' = [todo EXCEPT ![c.u] = {}]

\* The answer replaces what the page shows, edits included, unless the effect
\* has run again since.  An office location not set leaves the fields alone.
LoadAnswered(c) ==
    /\ c.op = "load" /\ c.step = "done" /\ Done(c)
    /\ IF c.gen = gen[c.u]
       THEN /\ Told(c, IF kind = "form" /\ c.val = <<>> THEN view[c.u] ELSE c.val)
            /\ loading' = [loading EXCEPT ![c.u] = FALSE]
            /\ error' = [error EXCEPT ![c.u] = FALSE]
       ELSE UNCHANGED <<view, known, todo, loading, error>>
    /\ Quietly /\ UNCHANGED <<server, gen, busy, wanted, spoilt>>

\* Only a draft keeps its editor hidden after a load that failed.
LoadFails(c) ==
    /\ c.op = "load" /\ Fault /\ Done(c)
    /\ IF c.gen = gen[c.u]
       THEN /\ loading' = [loading EXCEPT ![c.u] = FALSE]
            /\ error' = [error EXCEPT ![c.u] = (kind = "draft")]
       ELSE UNCHANGED <<loading, error>>
    /\ UNCHANGED <<view, gen, busy, history>>

\* Mutant: a department saved is not taken into the page's list.
SaveAnsweredKeepingList(c) ==
    /\ c.op = "save" /\ c.step = "done" /\ Done(c)
    /\ busy' = [busy EXCEPT ![c.u] = FALSE]
    /\ Told(c, IF kind \in {"form", "list"} THEN view[c.u] ELSE c.val)
    /\ Quietly /\ UNCHANGED <<server, loading, error, gen, wanted, spoilt>>

\* The page takes the list or switch it saved from the answer; edits made in
\* the meantime are gone.
SaveAnswered(c) ==
    /\ c.op = "save" /\ c.step = "done" /\ Done(c)
    /\ busy' = [busy EXCEPT ![c.u] = FALSE]
    /\ Told(c, IF kind = "form" THEN view[c.u] ELSE c.val)
    /\ Quietly /\ UNCHANGED <<server, loading, error, gen, wanted, spoilt>>

\* After a refresh the page asks for the status, and stays busy until then.
RefreshAnswered(c) ==
    /\ c.op = "refresh" /\ c.step = "done"
    /\ Becomes(c, [c EXCEPT !.op = "status", !.step = "sent", !.val = None])
    /\ Quietly /\ UNCHANGED <<server, page, history>>

\* fetchStatus: at the mount, with gen 1 and no list, and after a refresh,
\* which ends with it.  It is never cancelled.
StatusAnswered(c) ==
    /\ c.op = "status" /\ c.step = "done" /\ Done(c) /\ Told(c, c.val)
    /\ loading' = [loading EXCEPT ![c.u] = FALSE]
    /\ error' = [error EXCEPT ![c.u] = FALSE]
    /\ busy' = [busy EXCEPT ![c.u] = @ /\ c.list = None]
    /\ Quietly /\ UNCHANGED <<server, gen, wanted, spoilt>>

StatusFails(c) ==
    /\ c.op = "status" /\ Fault /\ Done(c)
    /\ loading' = [loading EXCEPT ![c.u] = FALSE]
    /\ error' = [error EXCEPT ![c.u] = TRUE]
    /\ busy' = [busy EXCEPT ![c.u] = @ /\ c.list = None]
    /\ UNCHANGED <<view, gen, history>>

\* Mutant: setIsSubmitting(false) is left out of the error path.
SaveEndsBadlyBusy(c) ==
    /\ c.op \in {"save", "refresh"} /\ Done(c)
    /\ (c.step = "refused" /\ Quietly /\ UNCHANGED server) \/ Fault
    /\ spoilt' = TRUE /\ wanted' = {}
    /\ UNCHANGED <<view, loading, error, gen, busy, known, todo>>

\* Refused, or the request or its answer lost: a message, and nothing else.
SaveEndsBadly(c) ==
    /\ c.op \in {"save", "refresh"} /\ Done(c)
    /\ (c.step = "refused" /\ Quietly /\ UNCHANGED server) \/ Fault
    /\ busy' = [busy EXCEPT ![c.u] = FALSE] /\ spoilt' = TRUE /\ wanted' = {}
    /\ UNCHANGED <<view, loading, error, gen, known, todo>>

\* The reader elsewhere has its calendar, or its error 500.
ReaderAnswered(c) ==
    /\ c.op \in {"month", "report"} /\ c.step \in {"done", "refused"} /\ Done(c)
    /\ Quietly /\ UNCHANGED <<server, page, history>>

----------------------------------------------------------------------------
UserStep(u) ==
    Edit(u) \/ Move(u) \/ Type(u) \/ Save(u) \/ AddNow(u) \/ RemoveNow(u) \/ Toggle(u)
    \/ Refresh(u) \/ SwitchLanguage(u)

ServerStep(c) ==
    Read(c) \/ ReadCalendar(c) \/ Fetched(c) \/ FetchFailed(c) \/ PutRead(c) \/ PutWrite(c)

Answer(c) ==
    LoadAnswered(c) \/ LoadFails(c) \/ SaveAnswered(c) \/ RefreshAnswered(c)
    \/ StatusAnswered(c) \/ StatusFails(c) \/ SaveEndsBadly(c) \/ ReaderAnswered(c)

Next ==
    \/ \E u \in Users : UserStep(u)
    \/ ReadElsewhere
    \/ \E c \in calls : ServerStep(c) \/ Answer(c)

Spec == Init /\ [][Next]_vars

\* Requests are served and answered, or fail.
FairSpec == Spec /\ WF_vars(\E c \in calls : ServerStep(c) \/ Answer(c))

----------------------------------------------------------------------------
(* Properties.                                                             *)

Ops == {"load", "status", "save", "refresh", "month", "report"}
Steps == {"sent", "fetch", "put", "write", "done", "refused"}

\* The row, the pages and the requests hold values of the section's kind.
TypeOK ==
    /\ kind \in Kinds /\ row \in Values \union {None}
    /\ view \in [Users -> Values \union {None}]
    /\ kind # "calendar" => \A u \in Users : view[u] # None
    /\ loading \in [Users -> BOOLEAN] /\ error \in [Users -> BOOLEAN]
    /\ busy \in [Users -> BOOLEAN] /\ gen \in [Users -> Nat]
    /\ \A c \in calls : /\ c.u \in Users \union {None} /\ c.op \in Ops /\ c.step \in Steps
                        /\ c.list \in Values \union {None} /\ c.val \in Values \union {None}
    /\ known \in [Users -> {"nothing", "current", "old"}]
    /\ todo \in [Users -> SUBSET (Items \X BOOLEAN)]
    /\ wanted \subseteq Items /\ spoilt \in BOOLEAN

\* A list of ranks or leave types that the page has never got is never saved,
\* whatever loads fail and languages change.
NeverSavedUnloaded ==
    kind = "draft" => \A c \in Saving : known[c.u] # "nothing"

\* Values keep their types, and no list is replaced by one built on nothing.
ConfigInv == TypeOK /\ NeverSavedUnloaded

\* As long as each save knows the row and no two overlap, the row has exactly
\* the entries the saves asked for: additions and removals made through
\* whole-list saves, discarded drafts left out.
SerialUseIsExact ==
    kind # "calendar" /\ ~spoilt /\ Saving = {} => ToSet(ServerValue) = wanted

\* Entries of a cached calendar are lost to nothing but a refresh: months
\* and reports that miss, fetch and store beside each other never lose them.
OnlyRefreshEmpties ==
    [][row = Full /\ row' # Full /\ kind = "calendar" =>
          \E c \in calls : c.op = "refresh" /\ c.step = "write" /\ c \notin calls']_vars

\* No section stays busy: a save or a refresh ends, with its status.
SectionsComeBack == \A u \in Users : busy[u] ~> ~busy[u]

=============================================================================
