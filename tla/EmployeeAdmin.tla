---------------------------- MODULE EmployeeAdmin ----------------------------
(***************************************************************************)
(* The employees, their reporting tree, and EmployeeManagementSection of   *)
(* /admin in the browsers of several HR users, who are employees too.      *)
(* A row keeps what the properties tell apart: the employee's manager      *)
(* (reports_to) and whether the employee is terminated.  The rank goes the *)
(* way of reports_to; name, department, role, shift and password are       *)
(* stored as they come.                                                    *)
(*                                                                         *)
(* A change takes two steps of the server: the token is checked and what   *)
(* the service looks up first, then the row is read and committed.  The    *)
(* page has no lock and cancels nothing: every call may overlap any other. *)
(* Which form is open is left out: an update's answer closes any.          *)
(***************************************************************************)
EXTENDS Integers, FiniteSets

CONSTANTS
    None,
    Emps,       \* employee ids
    Users,      \* the employees of role HR and ADMIN with the page open
    Admins,     \* those of role ADMIN, by their tokens
    Starts,     \* the employees to start from, and those with attendance
    PageSize,   \* the limit of a list of employees
    MaxEvents,  \* bound: requests that users make, and punches
    MaxFaults   \* bound: requests or answers lost

Row == [boss : Emps \union {None}, off : BOOLEAN]
Staffs == [Emps -> Row \union {None}]

----------------------------------------------------------------------------
(* The reporting tree.                                                     *)

Here(s) == {e \in Emps : s[e] # None}

\* The ids of a set reported to from inside it come with their reports.
ClosedUnder(s, S) == \A e \in Here(s) : s[e].boss \in S => e \in S

\* Mutant: one level of reports.
DirectReports(s, root) == {e \in Here(s) : e = root \/ s[e].boss = root}

\* get_subtree_emp_ids: the root and everybody who reports to it, directly or
\* not; also of a tree with a cycle.
Subtree(s, root) ==
    {e \in Here(s) : \A S \in SUBSET Emps : root \in S /\ ClosedUnder(s, S) => e \in S}

\* No employees report to each other in a circle: following reports_to from
\* anybody leads to the top.
Acyclic(s) == ~\E S \in SUBSET Here(s) : S # {} /\ \A e \in S : s[e].boss \in S

\* reports_to refers to employees.
Rooted(s) == \A e \in Here(s) : s[e].boss \in Here(s) \union {None}

ASSUME EmployeeAdminAssumption ==
    /\ None \notin Emps \union Row
    /\ IsFiniteSet(Emps) /\ Users \subseteq Emps /\ Admins \subseteq Users
    /\ PageSize \in Nat /\ MaxEvents \in Nat /\ MaxFaults \in Nat
    /\ Starts \subseteq [staff : Staffs, logs : SUBSET Emps]
    /\ \A s \in Starts : /\ Acyclic(s.staff) /\ Rooted(s.staff) /\ s.logs \subseteq Here(s.staff)
                         /\ Users \subseteq Here(s.staff) /\ \E u \in Users : ~s.staff[u].off

VARIABLES
    staff,      \* the table employees
    logs,       \* employees with attendance_logs
    list,       \* a page: employees
    showTerminated, loading, error,
    calls,      \* requests under way
    events, faults,
    listed,     \* history: the filter of the list that a page shows
    mixed,      \* history: a page's filter changed beside another call
    raced,      \* history: two changes were decided on at once
    ghost       \* history: the token of a deleted employee was used

server == <<staff, logs>>
page == <<list, showTerminated, loading, error>>
bounds == <<events, faults>>
history == <<listed, mixed, raced, ghost>>
vars == <<server, page, calls, bounds, history>>

\* The rows of some employees, as an answer holds them.
Rows(s, S) == [e \in Emps |-> IF e \in S THEN s[e] ELSE None]
NoRows == [e \in Emps |-> None]

Call(n, u, op, e, b, all) ==
    [n |-> n, u |-> u, op |-> op, emp |-> e, boss |-> b, all |-> all, step |-> "sent",
     answer |-> NoRows]

Init ==
    /\ \E s \in Starts : staff = s.staff /\ logs = s.logs
    /\ list = [u \in Users |-> NoRows] /\ showTerminated = [u \in Users |-> FALSE]
    /\ loading = [u \in Users |-> TRUE] /\ error = [u \in Users |-> FALSE]
    /\ calls = {Call(0, u, "fetch", None, None, FALSE) : u \in Users}
    /\ events = 0 /\ faults = 0
    /\ listed = [u \in Users |-> FALSE] /\ mixed = [u \in Users |-> FALSE] /\ raced = FALSE
    /\ ghost = FALSE

Event == events < MaxEvents /\ events' = events + 1 /\ UNCHANGED <<server, faults>>
Fault == faults < MaxFaults /\ faults' = faults + 1 /\ UNCHANGED <<server, events>>
Quietly == UNCHANGED bounds

Of(u) == {c \in calls : c.u = u}

----------------------------------------------------------------------------
(* The page.                                                               *)

\* Whether the table is on screen.
Table(u) == ~loading[u] /\ ~error[u]

\* The managers that a form offers: the listed ones, without the employee it
\* is about and the terminated.
Options(l, e) == {b \in Here(l) : b # e /\ ~l[b].off}

\* The checkbox; its effect fetches the list, and the table goes.
ToggleTerminated(u) ==
    /\ Event
    /\ showTerminated' = [showTerminated EXCEPT ![u] = ~@]
    /\ calls' = calls \union {Call(events', u, "fetch", None, None, ~showTerminated[u])}
    /\ loading' = [loading EXCEPT ![u] = TRUE]
    /\ mixed' = [mixed EXCEPT ![u] = Of(u) # {}]
    /\ UNCHANGED <<list, error, listed, raced, ghost>>

Send(u, op, e, b) ==
    /\ Event
    /\ calls' = calls \union {Call(events', u, op, e, b, showTerminated[u])}
    /\ UNCHANGED <<page, history>>

\* handleCreate: any id, and a manager offered, or none.
SubmitCreate(u) ==
    \E e \in Emps : \E b \in Options(list[u], None) \union {None} : Send(u, "create", e, b)

\* handleUpdate of a row's form.  It always sends reports_to: the manager that
\* the select shows or null, whether the user has touched the select or not.
\* Untouched it shows the listed manager, or nobody when that one is not
\* offered: "none" stands in for a manager who is terminated or not listed.
SubmitUpdate(u, e) ==
    /\ Table(u) /\ e \in Here(list[u])
    /\ \E b \in Options(list[u], e) \union {None} : Send(u, "update", e, b)

\* The buttons of another employee's row.
Button(u, e) == Table(u) /\ e \in Here(list[u]) /\ u # e
Terminate(u, e) == Button(u, e) /\ ~list[u][e].off /\ Send(u, "terminate", e, None)
Reactivate(u, e) == Button(u, e) /\ list[u][e].off /\ Send(u, "reactivate", e, None)
Delete(u, e) ==
    /\ Button(u, e) /\ ~list[u][e].off /\ u \in Admins /\ Send(u, "delete", e, None)

----------------------------------------------------------------------------
(* The server.                                                             *)

\* Mutant: a token counts until it expires.
SignedInByToken(u) == TRUE

\* get_current_user: the token of a terminated employee is refused, that of
\* a deleted one is not.
SignedIn(u) == staff[u] # None => ~staff[u].off

\* An employee punches; the log refers to the row.
Punch(e) ==
    /\ events < MaxEvents /\ events' = events + 1
    /\ staff[e] # None /\ SignedIn(e) /\ e \notin logs
    /\ logs' = logs \union {e}
    /\ UNCHANGED <<staff, faults, page, calls, history>>

\* What a change looks up before it: create_employee's checks,
\* _validate_reports_to, and the router's own of terminate and delete.
Allowed(c) ==
    /\ SignedIn(c.u)
    /\ c.op = "create" =>
          staff[c.emp] = None /\ c.boss \in (Here(staff) \ {c.emp}) \union {None}
    /\ c.op = "update" =>
          c.boss \in (Here(staff) \ (Subtree(staff, c.emp) \union {c.emp})) \union {None}
    /\ c.op \in {"terminate", "delete"} => c.u # c.emp
    /\ c.op = "delete" => c.u \in Admins /\ c.emp \notin logs

Becomes(c, d) == calls' = (calls \ {c}) \union {d}

Deciding == {c \in calls : c.step = "write"}

\* A change is let through, or refused.
Admit(c) ==
    /\ c.op # "fetch" /\ c.step = "sent"
    /\ Becomes(c, [c EXCEPT !.step = IF Allowed(c) THEN "write" ELSE "refused"])
    /\ raced' = (raced \/ Deciding # {})
    /\ ghost' = (ghost \/ staff[c.u] = None)
    /\ Quietly /\ UNCHANGED <<server, page, listed, mixed>>

\* Whether the database takes the change: no row to change, an id taken since
\* the check, and foreign keys refuse it.
Storable(c) ==
    /\ (c.op = "create") = (staff[c.emp] = None)
    /\ c.op = "update" => c.boss \in Here(staff) \union {None}
    /\ c.op = "delete" => c.emp \notin logs

\* Mutant: reports keep the id of a deleted manager.
StoredKeepingReports(c) ==
    CASE c.op = "create" -> [staff EXCEPT ![c.emp] = [boss |-> None, off |-> FALSE]]
      [] c.op = "update" -> [staff EXCEPT ![c.emp].boss = c.boss]
      [] c.op = "terminate" -> [staff EXCEPT ![c.emp].off = TRUE]
      [] c.op = "reactivate" -> [staff EXCEPT ![c.emp].off = FALSE]
      [] c.op = "delete" -> [staff EXCEPT ![c.emp] = None]

\* The constructor in create_employee names neither reports_to nor rank.
\* ON DELETE SET NULL leaves the reports of a deleted manager at the top.
Stored(c) ==
    CASE c.op = "create" -> [staff EXCEPT ![c.emp] = [boss |-> None, off |-> FALSE]]
      [] c.op = "update" -> [staff EXCEPT ![c.emp].boss = c.boss]
      [] c.op = "terminate" -> [staff EXCEPT ![c.emp].off = TRUE]
      [] c.op = "reactivate" -> [staff EXCEPT ![c.emp].off = FALSE]
      [] c.op = "delete" -> [e \in Emps |-> IF e = c.emp THEN None
                                            ELSE IF staff[e] # None /\ staff[e].boss = c.emp
                                            THEN [staff[e] EXCEPT !.boss = None] ELSE staff[e]]

\* Mutant: a delete takes the attendance logs with it.
WriteCascading(c) ==
    /\ c.step = "write"
    /\ IF Storable(c) \/ (c.op = "delete" /\ staff[c.emp] # None)
       THEN /\ staff' = Stored(c)
            /\ logs' = IF c.op = "delete" THEN logs \ {c.emp} ELSE logs
            /\ Becomes(c, [c EXCEPT !.step = "done", !.answer = Rows(staff', {c.emp})])
       ELSE Becomes(c, [c EXCEPT !.step = "refused"]) /\ UNCHANGED server
    /\ Quietly /\ UNCHANGED <<page, history>>

\* The repository reads the row and commits the change; the answer is the row.
Write(c) ==
    /\ c.step = "write"
    /\ IF Storable(c)
       THEN /\ staff' = Stored(c)
            /\ Becomes(c, [c EXCEPT !.step = "done", !.answer = Rows(staff', {c.emp})])
       ELSE Becomes(c, [c EXCEPT !.step = "refused"]) /\ UNCHANGED staff
    /\ Quietly /\ UNCHANGED <<logs, page, history>>

\* find_all, in no particular order: a page of those asked for.
Pages(all) ==
    LET found == {e \in Here(staff) : all \/ ~staff[e].off}
    IN  {S \in SUBSET found : IF Cardinality(found) <= PageSize THEN S = found
                              ELSE Cardinality(S) = PageSize}

ReadList(c) ==
    /\ c.op = "fetch" /\ c.step = "sent"
    /\ IF SignedIn(c.u)
       THEN \E S \in Pages(c.all) :
               Becomes(c, [c EXCEPT !.step = "done", !.answer = Rows(staff, S)])
       ELSE Becomes(c, [c EXCEPT !.step = "refused"])
    /\ Quietly /\ UNCHANGED <<server, page, history>>

----------------------------------------------------------------------------
(* Answers.                                                                *)

\* A list replaces the one shown, in the order of the answers.
ListArrives(c) ==
    /\ c.op = "fetch" /\ c.step = "done"
    /\ calls' = calls \ {c}
    /\ list' = [list EXCEPT ![c.u] = c.answer]
    /\ loading' = [loading EXCEPT ![c.u] = FALSE]
    /\ error' = [error EXCEPT ![c.u] = FALSE]
    /\ listed' = [listed EXCEPT ![c.u] = c.all]
    /\ Quietly /\ UNCHANGED <<server, showTerminated, mixed, raced, ghost>>

ListFails(c) ==
    /\ c.op = "fetch" /\ calls' = calls \ {c}
    /\ (c.step = "refused" /\ Quietly /\ UNCHANGED server) \/ Fault
    /\ loading' = [loading EXCEPT ![c.u] = FALSE]
    /\ error' = [error EXCEPT ![c.u] = TRUE]
    /\ UNCHANGED <<list, showTerminated, history>>

\* The list is fetched again, with the filter of the click.
ChangeAnswered(c) ==
    /\ c.op # "fetch" /\ c.step = "done"
    /\ Becomes(c, Call(c.n, c.u, "fetch", None, None, c.all))
    /\ loading' = [loading EXCEPT ![c.u] = TRUE]
    /\ Quietly /\ UNCHANGED <<server, list, showTerminated, error, history>>

\* Refused, or the request or its answer lost: a message.
ChangeFails(c) ==
    /\ c.op # "fetch" /\ calls' = calls \ {c}
    /\ (c.step = "refused" /\ Quietly /\ UNCHANGED server) \/ Fault
    /\ UNCHANGED <<page, history>>

----------------------------------------------------------------------------
UserStep(u) ==
    \/ ToggleTerminated(u) \/ SubmitCreate(u)
    \/ \E e \in Emps : SubmitUpdate(u, e) \/ Terminate(u, e) \/ Reactivate(u, e) \/ Delete(u, e)

ServerStep(c) == Admit(c) \/ Write(c) \/ ReadList(c)
Answer(c) == ListArrives(c) \/ ListFails(c) \/ ChangeAnswered(c) \/ ChangeFails(c)

Next ==
    \/ \E u \in Users : UserStep(u)
    \/ \E e \in Emps : Punch(e)
    \/ \E c \in calls : ServerStep(c) \/ Answer(c)

Spec == Init /\ [][Next]_vars

----------------------------------------------------------------------------
(* Properties.                                                             *)

Ops == {"fetch", "create", "update", "terminate", "reactivate", "delete"}

\* A request names an employee, but for a fetch, which changes nothing.
CallOK(c) ==
    /\ c \in [n : 0..MaxEvents, u : Users, op : Ops, emp : Emps \union {None},
              boss : Emps \union {None}, all : BOOLEAN,
              step : {"sent", "write", "done", "refused"}, answer : Staffs]
    /\ IF c.op = "fetch" THEN c.step # "write" ELSE c.emp \in Emps

\* The table, the lists of the pages and the answers under way are rows of
\* employees.
TypeOK ==
    /\ staff \in Staffs /\ logs \subseteq Emps
    /\ list \in [Users -> Staffs]
    /\ showTerminated \in [Users -> BOOLEAN] /\ loading \in [Users -> BOOLEAN]
    /\ error \in [Users -> BOOLEAN]
    /\ \A c \in calls : CallOK(c)
    /\ listed \in [Users -> BOOLEAN] /\ mixed \in [Users -> BOOLEAN]
    /\ raced \in BOOLEAN /\ ghost \in BOOLEAN /\ events \in 0..MaxEvents

\* Everybody reports to an employee who exists or to nobody, and attendance
\* logs belong to one, also when a manager is deleted between the check of an
\* assignment and its commit, or an employee punches while being deleted.
TreeIsRooted == Rooted(staff) /\ logs \subseteq Here(staff)

\* Two updates that are each checked before the other commits can close a
\* circle.  Nothing else can, whatever is created, deleted and reassigned.
CyclesNeedARace == raced \/ Acyclic(staff)

\* Users cannot all lock each other out one change at a time.  Excepted are a
\* history in which two changes of any kind were once decided on at the same
\* time (two mutual terminations can, employees.py:192) and one in which the
\* token of a deleted user was used.
SomeoneCanSignIn == raced \/ ghost \/ \E u \in Users : staff[u] # None /\ ~staff[u].off

\* An employee with attendance history is never removed, and the history
\* stays.
HistoryIsKept == [][logs \subseteq logs' /\ \A e \in logs : staff'[e] # None]_vars

\* Whatever changes and refreshes overlap, the list is the one the checkbox
\* asks for, unless the box was ticked beside another call of the page.
ListFollowsCheckbox ==
    \A u \in Users : Table(u) /\ ~mixed[u] => listed[u] = showTerminated[u]

=============================================================================
