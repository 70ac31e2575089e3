------------------------- MODULE EmployeeAdminProofs -------------------------
(***************************************************************************)
(* Theorems about EmployeeAdmin, for any employees, users and bounds.      *)
(* The reporting tree stays free of circles because an update is admitted  *)
(* only for a manager outside the employee's subtree, and the tree cannot  *)
(* change between that check and the commit while one change is decided on *)
(* at a time.  Circles are stated without recursion: a circle is a set of  *)
(* employees whose managers are all in the set.                            *)
(***************************************************************************)
EXTENDS EmployeeAdmin, TLAPS

----------------------------------------------------------------------------
(* Trees.                                                                  *)

\* None is nobody's id and no row of the table.
LEMMA NoneIsNobody == None \notin Emps /\ None \notin Row
  BY EmployeeAdminAssumption

\* The row of somebody in the table is a row.
LEMMA RowOfOneHere ==
  ASSUME NEW s \in Staffs, NEW e \in Here(s)
  PROVE  e \in Emps /\ s[e] \in Row /\ s[e].boss \in Emps \union {None} /\ s[e].off \in BOOLEAN
  BY DEF Staffs, Here, Row

\* A table in which nobody has a manager that is new to them has no circle
\* that was not there before: un-assigning, hiring, deleting, terminating.
LEMMA PrunedStaysAcyclic ==
  ASSUME NEW s, NEW t, Acyclic(s),
         \A e \in Here(t) : t[e].boss # None => e \in Here(s) /\ s[e].boss = t[e].boss
  PROVE  Acyclic(t)
<1> SUFFICES ASSUME NEW S \in SUBSET Here(t), S # {}, \A e \in S : t[e].boss \in S
             PROVE  FALSE
  BY DEF Acyclic
<1>1. \A e \in S : t[e].boss # None
  BY NoneIsNobody DEF Here
<1>2. S \in SUBSET Here(s) /\ \A e \in S : s[e].boss \in S
  BY <1>1
<1> QED
  BY <1>2 DEF Acyclic

\* Everybody is in their own subtree, and so is who reports to somebody in it.
LEMMA SubtreeIsClosed ==
  ASSUME NEW s, NEW e \in Here(s)
  PROVE  /\ e \in Subtree(s, e)
         /\ \A x \in Here(s) : s[x].boss \in Subtree(s, e) => x \in Subtree(s, e)
<1>1. e \in Subtree(s, e)
  BY DEF Subtree
<1>2. ASSUME NEW x \in Here(s), s[x].boss \in Subtree(s, e)
      PROVE  x \in Subtree(s, e)
  <2>1. ASSUME NEW S \in SUBSET Emps, e \in S, ClosedUnder(s, S)
        PROVE  x \in S
    <3>1. s[x].boss \in S
      BY <1>2, <2>1 DEF Subtree
    <3> QED
      BY <2>1, <3>1 DEF ClosedUnder
  <2> QED
    BY <2>1 DEF Subtree
<1> QED
  BY <1>1, <1>2

\* A manager from outside the subtree of an employee closes no circle: with
\* the subtree taken out of it, the circle would have been there before.
LEMMA ReassignedStaysAcyclic ==
  ASSUME NEW s \in Staffs, Acyclic(s), NEW e \in Here(s), NEW b \in Emps \ Subtree(s, e)
  PROVE  Acyclic([s EXCEPT ![e].boss = b])
<1> DEFINE t == [s EXCEPT ![e].boss = b]
<1>1. Here(t) \subseteq Here(s) /\ \A x \in Here(s) \ {e} : t[x] = s[x]
  BY DEF Here, Staffs
<1>2. t[e].boss = b
  BY RowOfOneHere DEF Here, Staffs, Row
<1> SUFFICES ASSUME NEW S \in SUBSET Here(t), S # {}, \A x \in S : t[x].boss \in S
             PROVE  FALSE
  BY DEF Acyclic
<1> HIDE DEF t
<1>3. CASE e \notin S
  <2>1. S \in SUBSET Here(s) /\ \A x \in S : s[x].boss \in S
    BY <1>1, <1>3
  <2> QED
    BY <2>1 DEF Acyclic
<1>4. CASE e \in S
  <2> DEFINE R == S \ Subtree(s, e)
  <2>1. b \in R
    BY <1>2, <1>4
  <2>2. \A x \in R : s[x].boss \in R
    <3> SUFFICES ASSUME NEW x \in R PROVE s[x].boss \in S /\ s[x].boss \notin Subtree(s, e)
      OBVIOUS
    <3>1. x \in Here(s) /\ x # e
      BY <1>1, SubtreeIsClosed
    <3>2. s[x].boss \in S
      BY <1>1, <3>1
    <3>3. s[x].boss \notin Subtree(s, e)
      BY <3>1, SubtreeIsClosed
    <3> QED
      BY <3>2, <3>3
  <2>3. R \in SUBSET Here(s)
    BY <1>1
  <2> QED
    BY <2>1, <2>2, <2>3 DEF Acyclic
<1> QED
  BY <1>3, <1>4

----------------------------------------------------------------------------
(* What a change stores.                                                   *)

\* Everybody else keeps their row, but for reports of a deleted manager; a
\* manager that is new to somebody is the one the update asked for; and only a
\* termination or deletion keeps somebody from signing in.
Effect(c, t) ==
    /\ t \in Staffs
    /\ \A e \in Emps \ {c.emp} : (t[e] = None) = (staff[e] = None)
    /\ (t[c.emp] = None) = (c.op = "delete")
    /\ \A e \in Here(t) : t[e].boss # None =>
          /\ e \in Here(staff)
          /\ \/ staff[e].boss = t[e].boss
             \/ c.op = "update" /\ e = c.emp /\ t[e].boss = c.boss
    /\ c.op = "delete" => \A e \in Here(t) : t[e].boss # c.emp
    /\ \A e \in Here(t) \cap Here(staff) :
          ~staff[e].off => ~t[e].off \/ (c.op = "terminate" /\ e = c.emp)

LEMMA StoredHasEffect ==
  ASSUME TypeOK, NEW c \in calls, c.op # "fetch", Storable(c)
  PROVE  Effect(c, Stored(c))
<1> USE NoneIsNobody
<1>1. staff \in Staffs /\ c.emp \in Emps /\ c.boss \in Emps \union {None} /\ c.op \in Ops
  BY DEF TypeOK, CallOK
<1>2. (c.op = "create") = (staff[c.emp] = None)
  BY DEF Storable
<1>3. \A e \in Here(staff) : staff[e] \in Row
  BY <1>1, RowOfOneHere
<1>4. CASE c.op = "create"
  <2>1. Stored(c) = [staff EXCEPT ![c.emp] = [boss |-> None, off |-> FALSE]]
    BY <1>4 DEF Stored
  <2> DEFINE t == Stored(c)
             r == [boss |-> None, off |-> FALSE]
  <2>2. r \in Row /\ r.boss = None /\ r.off = FALSE
    BY <1>1, <1>2, <1>3, <1>4 DEF Row, Here
  <2>3. t[c.emp] = r /\ t \in Staffs /\ \A e \in Emps \ {c.emp} : t[e] = staff[e]
    BY <1>1, <1>2, <1>3, <1>4, <2>1, <2>2 DEF Staffs, Row, Here
  <2> HIDE DEF t, r
  <2>4. Effect(c, t)
    BY <1>1, <1>2, <1>3, <1>4, <2>2, <2>3 DEF Effect, Here
  <2> QED
    BY <2>4 DEF t
<1>5. CASE c.op = "update"
  <2>1. Stored(c) = [staff EXCEPT ![c.emp].boss = c.boss]
    BY <1>5 DEF Stored
  <2> QED
    BY <1>1, <1>2, <1>3, <1>5, <2>1 DEF Effect, Staffs, Row, Here
<1>6. CASE c.op = "terminate"
  <2>1. Stored(c) = [staff EXCEPT ![c.emp].off = TRUE]
    BY <1>6 DEF Stored
  <2> DEFINE t == Stored(c)
             r == [boss |-> staff[c.emp].boss, off |-> TRUE]
  <2>2. r \in Row /\ r.boss = staff[c.emp].boss /\ r.off = TRUE
    BY <1>1, <1>2, <1>3, <1>6 DEF Row, Here
  <2>3. t[c.emp] = r /\ t \in Staffs /\ \A e \in Emps \ {c.emp} : t[e] = staff[e]
    <3>1. staff[c.emp] \in Row
      BY <1>1, <1>2, <1>3, <1>6 DEF Here
    <3>2. t = [staff EXCEPT ![c.emp] = r]
      BY <1>1, <2>1, <3>1 DEF Staffs, Row
    <3> QED
      BY <1>1, <2>2, <3>2 DEF Staffs
  <2> HIDE DEF t, r
  <2>4. Effect(c, t)
    BY <1>1, <1>2, <1>3, <1>6, <2>2, <2>3 DEF Effect, Here
  <2> QED
    BY <2>4 DEF t
<1>7. CASE c.op = "reactivate"
  <2>1. Stored(c) = [staff EXCEPT ![c.emp].off = FALSE]
    BY <1>7 DEF Stored
  <2> DEFINE t == Stored(c)
             r == [boss |-> staff[c.emp].boss, off |-> FALSE]
  <2>2. r \in Row /\ r.boss = staff[c.emp].boss /\ r.off = FALSE
    BY <1>1, <1>2, <1>3, <1>7 DEF Row, Here
  <2>3. t[c.emp] = r /\ t \in Staffs /\ \A e \in Emps \ {c.emp} : t[e] = staff[e]
    <3>1. staff[c.emp] \in Row
      BY <1>1, <1>2, <1>3, <1>7 DEF Here
    <3>2. t = [staff EXCEPT ![c.emp] = r]
      BY <1>1, <2>1, <3>1 DEF Staffs, Row
    <3> QED
      BY <1>1, <2>2, <3>2 DEF Staffs
  <2> HIDE DEF t, r
  <2>4. Effect(c, t)
    BY <1>1, <1>2, <1>3, <1>7, <2>2, <2>3 DEF Effect, Here
  <2> QED
    BY <2>4 DEF t
<1>8. CASE c.op = "delete"
  <2>1. Stored(c) = [e \in Emps |-> IF e = c.emp THEN None
                                    ELSE IF staff[e] # None /\ staff[e].boss = c.emp
                                    THEN [staff[e] EXCEPT !.boss = None] ELSE staff[e]]
    BY <1>8 DEF Stored
  <2> QED
    BY <1>1, <1>2, <1>3, <1>8, <2>1 DEF Effect, Staffs, Row, Here
<1> QED
  BY <1>1, <1>4, <1>5, <1>6, <1>7, <1>8 DEF Ops

----------------------------------------------------------------------------
(* Types.                                                                  *)

\* A new request is well typed.
LEMMA CallTypes ==
  ASSUME NEW n \in 0..MaxEvents, NEW u \in Users, NEW op \in Ops, NEW e \in Emps \union {None},
         NEW b \in Emps \union {None}, NEW all \in BOOLEAN, op # "fetch" => e \in Emps
  PROVE  CallOK(Call(n, u, op, e, b, all))
<1>1. NoRows \in Staffs
  BY DEF NoRows, Staffs
<1> QED
  BY <1>1 DEF CallOK, Call

\* So is one whose step changes, and one that gets an answer.
LEMMA StepTypes ==
  ASSUME NEW c, CallOK(c), NEW st \in {"sent", "write", "done", "refused"},
         c.op = "fetch" => st # "write"
  PROVE  CallOK([c EXCEPT !.step = st])
  BY DEF CallOK

LEMMA AnswerTypes ==
  ASSUME NEW c, CallOK(c), NEW a \in Staffs
  PROVE  CallOK([c EXCEPT !.step = "done", !.answer = a])
  BY DEF CallOK

\* An answer holds rows of the table.
LEMMA RowsTypes ==
  ASSUME NEW s \in Staffs, NEW S \in SUBSET Emps
  PROVE  Rows(s, S) \in Staffs
  BY DEF Rows, Staffs

\* What users do is well typed.
LEMMA UserTypes ==
  ASSUME TypeOK, NEW u \in Users, UserStep(u)
  PROVE  TypeOK'
<1> USE EmployeeAdminAssumption
<1>1. CASE ToggleTerminated(u)
  <2>1. events' \in 0..MaxEvents
    BY <1>1 DEF ToggleTerminated, Event, TypeOK
  <2>2. CallOK(Call(events', u, "fetch", None, None, ~showTerminated[u]))
    BY <2>1, CallTypes DEF TypeOK, Ops
  <2> QED
    BY <1>1, <2>1, <2>2 DEF ToggleTerminated, Event, TypeOK, CallOK, server
<1>2. ASSUME NEW op \in Ops, NEW e \in Emps, NEW b \in Emps \union {None}, Send(u, op, e, b)
      PROVE  TypeOK'
  <2>1. events' \in 0..MaxEvents
    BY <1>2 DEF Send, Event, TypeOK
  <2>2. CallOK(Call(events', u, op, e, b, showTerminated[u]))
    BY <2>1, CallTypes DEF TypeOK
  <2> QED
    BY <1>2, <2>1, <2>2 DEF Send, Event, TypeOK, CallOK, server, page, history
<1>3. CASE SubmitCreate(u)
  BY <1>2, <1>3 DEF SubmitCreate, Options, Here, Ops
<1>4. ASSUME NEW e \in Emps, SubmitUpdate(u, e) PROVE TypeOK'
  BY <1>2, <1>4 DEF SubmitUpdate, Options, Here, Ops
<1>5. ASSUME NEW e \in Emps, Terminate(u, e) PROVE TypeOK'
  BY <1>2, <1>5 DEF Terminate, Ops
<1>6. ASSUME NEW e \in Emps, Reactivate(u, e) PROVE TypeOK'
  BY <1>2, <1>6 DEF Reactivate, Ops
<1>7. ASSUME NEW e \in Emps, Delete(u, e) PROVE TypeOK'
  BY <1>2, <1>7 DEF Delete, Ops
<1> QED
  BY <1>1, <1>3, <1>4, <1>5, <1>6, <1>7 DEF UserStep

\* What the server does is.
LEMMA ServerTypes ==
  ASSUME TypeOK, NEW c \in calls, ServerStep(c)
  PROVE  TypeOK'
<1>1. CallOK(c) /\ staff \in Staffs
  BY DEF TypeOK
<1>2. CASE Admit(c)
  <2> DEFINE d == [c EXCEPT !.step = IF Allowed(c) THEN "write" ELSE "refused"]
  <2>1. CallOK(d)
    BY <1>1, <1>2, StepTypes DEF Admit
  <2> QED
    BY <1>2, <2>1 DEF Admit, Becomes, Quietly, TypeOK, CallOK, server, page, bounds, Deciding
<1>3. CASE Write(c)
  <2>1. CASE Storable(c)
    <3>1. c.op # "fetch"
      BY <1>1, <1>3 DEF Write, CallOK
    <3>2. staff' \in Staffs
      BY <1>3, <2>1, <3>1, StoredHasEffect DEF Write, Effect
    <3>3. c.emp \in Emps
      BY <1>1, <3>1 DEF CallOK
    <3>4. CallOK([c EXCEPT !.step = "done", !.answer = Rows(staff', {c.emp})])
      BY <1>1, <3>2, <3>3, RowsTypes, AnswerTypes
    <3> QED
      BY <1>3, <2>1, <3>2, <3>4 DEF Write, Becomes, Quietly, TypeOK, CallOK, page, bounds, history
  <2>2. CASE ~Storable(c)
    <3>1. CallOK([c EXCEPT !.step = "refused"])
      BY <1>1, StepTypes
    <3> QED
      BY <1>3, <2>2, <3>1 DEF Write, Becomes, Quietly, TypeOK, CallOK, page, bounds, history
  <2> QED
    BY <2>1, <2>2
<1>4. CASE ReadList(c)
  <2>1. CASE SignedIn(c.u)
    <3>1. PICK S \in Pages(c.all) : Becomes(c, [c EXCEPT !.step = "done", !.answer = Rows(staff, S)])
      BY <1>4, <2>1 DEF ReadList
    <3>2. S \in SUBSET Emps
      BY DEF Pages, Here
    <3>3. CallOK([c EXCEPT !.step = "done", !.answer = Rows(staff, S)])
      BY <1>1, <3>2, RowsTypes, AnswerTypes
    <3> QED
      BY <1>4, <3>1, <3>3 DEF ReadList, Becomes, Quietly, TypeOK, CallOK, server, page, bounds, history
  <2>2. CASE ~SignedIn(c.u)
    <3>1. CallOK([c EXCEPT !.step = "refused"])
      BY <1>1, StepTypes
    <3> QED
      BY <1>4, <2>2, <3>1 DEF ReadList, Becomes, Quietly, TypeOK, CallOK, server, page, bounds, history
  <2> QED
    BY <2>1, <2>2
<1> QED
  BY <1>2, <1>3, <1>4 DEF ServerStep

\* What answers do is.
LEMMA AnswersTypes ==
  ASSUME TypeOK, NEW c \in calls, Answer(c)
  PROVE  TypeOK'
<1> USE DEF Quietly, Fault, server, page, bounds, history
<1>1. CallOK(c)
  BY DEF TypeOK
<1>2. CASE ListArrives(c)
  BY <1>1, <1>2 DEF ListArrives, TypeOK, CallOK
<1>3. CASE ListFails(c)
  BY <1>1, <1>3 DEF ListFails, TypeOK, CallOK
<1>4. CASE ChangeAnswered(c)
  <2>1. CallOK(Call(c.n, c.u, "fetch", None, None, c.all))
    BY <1>1, CallTypes DEF CallOK, Ops
  <2> QED
    BY <1>1, <1>4, <2>1 DEF ChangeAnswered, Becomes, TypeOK, CallOK
<1>5. CASE ChangeFails(c)
  BY <1>1, <1>5 DEF ChangeFails, TypeOK, CallOK
<1> QED
  BY <1>2, <1>3, <1>4, <1>5 DEF Answer

----------------------------------------------------------------------------
(* The invariant.                                                          *)

\* While changes are decided on one at a time, what was looked up for the one
\* that is being committed still holds.
Decided ==
    raced \/ \A c \in Deciding :
        /\ \A d \in Deciding : d = c
        /\ c.op = "update" => c.boss \notin Subtree(staff, c.emp)
        /\ c.op \in {"terminate", "delete"} =>
              c.u # c.emp /\ (ghost \/ (staff[c.u] # None /\ ~staff[c.u].off))

\* A page whose filter never changed beside a call asks with one filter.
FilterInv ==
    \A u \in Users : mixed[u] \/
        /\ \A c \in calls : c.u = u => c.all = showTerminated[u]
        /\ listed[u] = showTerminated[u] \/ loading[u] \/ error[u]

ServerInv == TreeIsRooted /\ Decided /\ CyclesNeedARace /\ SomeoneCanSignIn
IInv == TypeOK /\ ServerInv /\ FilterInv

LEMMA InitInv == Init => IInv
<1> SUFFICES ASSUME Init PROVE IInv
  OBVIOUS
<1>1. PICK s \in Starts : staff = s.staff /\ logs = s.logs
  BY DEF Init
<1>2. /\ staff \in Staffs /\ logs \subseteq Here(staff)
      /\ Acyclic(staff) /\ Rooted(staff) /\ \E u \in Users : ~staff[u].off
      /\ \A u \in Users : u \in Here(staff)
  BY <1>1, EmployeeAdminAssumption
<1>3. \A c \in calls : \E u \in Users : c = Call(0, u, "fetch", None, None, FALSE)
  BY DEF Init
<1>4. TypeOK
  <2>1. 0 \in 0..MaxEvents
    BY EmployeeAdminAssumption
  <2>2. NoRows \in Staffs
    BY DEF NoRows, Staffs
  <2>3. ASSUME NEW u \in Users PROVE CallOK(Call(0, u, "fetch", None, None, FALSE))
    BY <2>1, <2>2 DEF CallOK, Call, Ops
  <2>4. \A c \in calls : CallOK(c)
    BY <1>3, <2>3
  <2> QED
    BY <1>2, <2>1, <2>2, <2>4 DEF TypeOK, Init, Here
<1>5. Deciding = {}
  BY <1>3 DEF Deciding, Call
<1>6. TreeIsRooted /\ Decided /\ CyclesNeedARace
  BY <1>2, <1>5 DEF TreeIsRooted, Decided, CyclesNeedARace
<1>7. SomeoneCanSignIn
  BY <1>2 DEF SomeoneCanSignIn, Here
<1>8. FilterInv
  <2>1. \A c \in calls : c.all = FALSE
    BY <1>3 DEF Call
  <2> QED
    BY <2>1 DEF FilterInv, Init
<1> QED
  BY <1>4, <1>6, <1>7, <1>8 DEF IInv, ServerInv

\* A step that leaves the table alone and lets no change through.
LEMMA IdleStep ==
  ASSUME ServerInv, UNCHANGED <<staff, logs, raced, ghost>>, Deciding' \subseteq Deciding
  PROVE  ServerInv'
  BY DEF ServerInv, TreeIsRooted, Decided, CyclesNeedARace, SomeoneCanSignIn

\* A punch is one of an employee in the table.
LEMMA PunchInv ==
  ASSUME TypeOK, ServerInv, NEW e \in Emps, Punch(e)
  PROVE  TypeOK' /\ ServerInv'
<1> USE DEF Punch, page, history
<1>1. TypeOK'
  BY EmployeeAdminAssumption DEF TypeOK, CallOK
<1>2. TreeIsRooted'
  BY DEF ServerInv, TreeIsRooted, Here
<1>3. Decided' /\ CyclesNeedARace' /\ SomeoneCanSignIn'
  BY DEF ServerInv, Decided, Deciding, CyclesNeedARace, SomeoneCanSignIn
<1> QED
  BY <1>1, <1>2, <1>3 DEF ServerInv

\* A change is let through: what was looked up holds, and it is the only one.
LEMMA AdmitInv ==
  ASSUME TypeOK, ServerInv, NEW c \in calls, Admit(c)
  PROVE  ServerInv'
<1> USE DEF Admit, Quietly, server, page
<1>1. TreeIsRooted' /\ CyclesNeedARace' /\ SomeoneCanSignIn'
  BY DEF ServerInv, TreeIsRooted, CyclesNeedARace, SomeoneCanSignIn
<1>2. Decided'
  <2> SUFFICES ASSUME ~raced' PROVE Decided'
    BY DEF Decided
  <2> DEFINE d == [c EXCEPT !.step = IF Allowed(c) THEN "write" ELSE "refused"]
  <2>1. CallOK(c)
    BY DEF TypeOK
  <2>2. d.op = c.op /\ d.u = c.u /\ d.emp = c.emp /\ d.boss = c.boss
        /\ (d.step = "write" => Allowed(c))
    BY <2>1 DEF CallOK
  <2>3. Deciding = {}
    OBVIOUS
  <2>4. \A x \in Deciding' : x = d /\ Allowed(c)
    BY <2>2, <2>3 DEF Deciding, Becomes
  <2> HIDE DEF d
  <2>5. Allowed(c) /\ c.op = "update" => c.boss \notin Subtree(staff, c.emp)
    BY NoneIsNobody DEF Allowed, Subtree, Here
  <2>6. Allowed(c) /\ c.op \in {"terminate", "delete"} =>
            c.u # c.emp /\ (ghost' \/ (staff[c.u] # None /\ ~staff[c.u].off))
    BY DEF Allowed, SignedIn
  <2> QED
    BY <2>2, <2>4, <2>5, <2>6 DEF Decided
<1> QED
  BY <1>1, <1>2 DEF ServerInv

\* A change is committed.
LEMMA WriteInv ==
  ASSUME TypeOK, ServerInv, NEW c \in calls, Write(c)
  PROVE  ServerInv'
<1> USE DEF Write, Quietly, page, bounds, history
<1>1. CallOK(c) /\ c \in Deciding
  BY DEF TypeOK, Deciding
<1>2. c.op # "fetch" /\ c.emp \in Emps
  BY <1>1 DEF CallOK
<1>3. Deciding' \subseteq Deciding \ {c}
  <2>1. PICK d : d.step # "write" /\ calls' = (calls \ {c}) \union {d}
    <3>1. CASE Storable(c)
      BY <1>1, <3>1 DEF Becomes, CallOK
    <3>2. CASE ~Storable(c)
      BY <1>1, <3>2 DEF Becomes, CallOK
    <3> QED
      BY <3>1, <3>2
  <2> QED
    BY <2>1 DEF Deciding
<1>4. CASE ~Storable(c)
  BY <1>3, <1>4, IdleStep
<1>5. CASE Storable(c)
  <2>1. Effect(c, staff') /\ staff' = Stored(c)
    BY <1>2, <1>5, StoredHasEffect
  <2>2. TreeIsRooted'
    <3>1. \A e \in logs : e \in Here(staff')
      BY <1>2, <1>5, <2>1 DEF ServerInv, TreeIsRooted, Effect, Storable, Here
    <3>2. ASSUME NEW e \in Here(staff'), staff'[e].boss # None
          PROVE  staff'[e].boss \in Here(staff')
      <4>1. staff'[e].boss \in Here(staff)
        BY <1>2, <1>5, <2>1, <3>2 DEF Effect, Storable, ServerInv, TreeIsRooted, Rooted
      <4> QED
        BY <1>2, <2>1, <3>2, <4>1 DEF Effect, Here
    <3> QED
      BY <3>1, <3>2 DEF TreeIsRooted, Rooted
  <2>3. Decided'
    BY <1>1, <1>3 DEF ServerInv, Decided
  <2>4. CyclesNeedARace'
    <3> SUFFICES ASSUME ~raced PROVE Acyclic(staff')
      BY DEF CyclesNeedARace
    <3>1. Acyclic(staff) /\ (c.op = "update" => c.boss \notin Subtree(staff, c.emp))
      BY <1>1 DEF ServerInv, CyclesNeedARace, Decided
    <3>2. CASE c.op = "update" /\ c.boss # None
      <4>1. c.emp \in Here(staff) /\ c.boss \in Emps \ Subtree(staff, c.emp) /\ staff \in Staffs
        BY <1>1, <1>2, <1>5, <3>1, <3>2 DEF Storable, Here, CallOK, TypeOK
      <4>2. staff' = [staff EXCEPT ![c.emp].boss = c.boss]
        BY <2>1, <3>2 DEF Stored
      <4> QED
        BY <3>1, <4>1, <4>2, ReassignedStaysAcyclic
    <3>3. CASE ~(c.op = "update" /\ c.boss # None)
      <4>1. \A e \in Here(staff') : staff'[e].boss # None =>
               e \in Here(staff) /\ staff[e].boss = staff'[e].boss
        BY <2>1, <3>3 DEF Effect
      <4> QED
        BY <3>1, <4>1, PrunedStaysAcyclic
    <3> QED
      BY <3>2, <3>3
  <2>5. SomeoneCanSignIn'
    <3> SUFFICES ASSUME ~raced, ~ghost
                 PROVE  \E u \in Users : staff'[u] # None /\ ~staff'[u].off
      BY DEF SomeoneCanSignIn
    <3>1. CASE c.op \in {"terminate", "delete"}
      <4>1. c.u # c.emp /\ staff[c.u] # None /\ ~staff[c.u].off /\ c.u \in Users /\ c.u \in Emps
        BY <1>1, <3>1, EmployeeAdminAssumption DEF ServerInv, Decided, CallOK
      <4>2. staff'[c.u] # None /\ ~staff'[c.u].off
        BY <2>1, <4>1 DEF Effect, Here
      <4> QED
        BY <4>1, <4>2
    <3>2. CASE c.op \notin {"terminate", "delete"}
      <4>1. PICK u \in Users : staff[u] # None /\ ~staff[u].off
        BY DEF ServerInv, SomeoneCanSignIn
      <4>2. u \in Emps
        BY EmployeeAdminAssumption
      <4>3. staff'[u] # None /\ ~staff'[u].off
        BY <2>1, <3>2, <4>1, <4>2 DEF Effect, Here
      <4> QED
        BY <4>3
    <3> QED
      BY <3>1, <3>2
  <2> QED
    BY <2>2, <2>3, <2>4, <2>5 DEF ServerInv
<1> QED
  BY <1>4, <1>5

\* What users do leaves the table alone, and the filter's invariant.
LEMMA UserInv ==
  ASSUME TypeOK, ServerInv, FilterInv, NEW u \in Users, UserStep(u)
  PROVE  ServerInv' /\ FilterInv'
<1> USE EmployeeAdminAssumption
<1>1. CASE ToggleTerminated(u)
  <2> USE <1>1 DEF ToggleTerminated, Event, server
  <2>1. Deciding' \subseteq Deciding
    BY DEF Deciding, Call
  <2>2. ASSUME NEW v \in Users, ~mixed'[v]
        PROVE  /\ \A c \in calls' : c.u = v => c.all = showTerminated'[v]
               /\ listed'[v] = showTerminated'[v] \/ loading'[v] \/ error'[v]
    <3> DEFINE d == Call(events', u, "fetch", None, None, ~showTerminated[u])
    <3>1. calls' = calls \union {d} /\ d.u = u /\ d.all = ~showTerminated[u]
      BY DEF Call
    <3> HIDE DEF d
    <3>2. CASE v = u
      <4>1. Of(u) = {}
        BY <2>2, <3>2 DEF TypeOK
      <4>2. showTerminated'[v] = ~showTerminated[u] /\ loading'[v]
        BY <3>2 DEF TypeOK
      <4> QED
        BY <3>1, <3>2, <4>1, <4>2 DEF Of
    <3>3. CASE v # u
      <4>1. /\ ~mixed[v] /\ showTerminated'[v] = showTerminated[v]
            /\ loading'[v] = loading[v] /\ UNCHANGED <<listed, error>>
        BY <2>2, <3>3 DEF TypeOK
      <4> QED
        BY <3>1, <3>3, <4>1 DEF FilterInv
    <3> QED
      BY <3>2, <3>3
  <2>3. FilterInv'
    BY <2>2 DEF FilterInv
  <2> QED
    BY <2>1, <2>3, IdleStep
<1>2. ASSUME NEW op, NEW e, NEW b, Send(u, op, e, b)
      PROVE  ServerInv' /\ FilterInv'
  <2> USE <1>2 DEF Send, Event, server, page, history
  <2>1. Deciding' \subseteq Deciding
    BY DEF Deciding, Call
  <2>2. FilterInv'
    BY DEF FilterInv, Call
  <2> QED
    BY <2>1, <2>2, IdleStep
<1>3. CASE SubmitCreate(u)
  BY <1>2, <1>3 DEF SubmitCreate
<1>4. ASSUME NEW e \in Emps, SubmitUpdate(u, e) PROVE ServerInv' /\ FilterInv'
  BY <1>2, <1>4 DEF SubmitUpdate
<1>5. ASSUME NEW e \in Emps, Terminate(u, e) PROVE ServerInv' /\ FilterInv'
  BY <1>2, <1>5 DEF Terminate
<1>6. ASSUME NEW e \in Emps, Reactivate(u, e) PROVE ServerInv' /\ FilterInv'
  BY <1>2, <1>6 DEF Reactivate
<1>7. ASSUME NEW e \in Emps, Delete(u, e) PROVE ServerInv' /\ FilterInv'
  BY <1>2, <1>7 DEF Delete
<1> QED
  BY <1>1, <1>3, <1>4, <1>5, <1>6, <1>7 DEF UserStep

\* A request that moves on keeps its filter.
LEMMA SameFilter ==
  ASSUME FilterInv, UNCHANGED <<page, listed, mixed>>, NEW c \in calls, NEW d,
         d.u = c.u, d.all = c.all, calls' = (calls \ {c}) \union {d}
  PROVE  FilterInv'
  BY DEF FilterInv, page

\* The server changes no filter.
LEMMA ServerFilter ==
  ASSUME TypeOK, FilterInv, NEW c \in calls, ServerStep(c)
  PROVE  FilterInv'
<1>1. CallOK(c)
  BY DEF TypeOK
<1>2. CASE Admit(c)
  <2> DEFINE d == [c EXCEPT !.step = IF Allowed(c) THEN "write" ELSE "refused"]
  <2>1. d.u = c.u /\ d.all = c.all
    BY <1>1 DEF CallOK
  <2>2. calls' = (calls \ {c}) \union {d}
    BY <1>2 DEF Admit, Becomes
  <2> HIDE DEF d
  <2> QED
    BY <1>2, <2>1, <2>2, SameFilter DEF Admit, page
<1>3. ASSUME NEW st, Becomes(c, [c EXCEPT !.step = st]), UNCHANGED <<page, listed, mixed>>
      PROVE  FilterInv'
  <2> DEFINE d == [c EXCEPT !.step = st]
  <2>1. d.u = c.u /\ d.all = c.all
    BY <1>1 DEF CallOK
  <2>2. calls' = (calls \ {c}) \union {d}
    BY <1>3 DEF Becomes
  <2> HIDE DEF d
  <2> QED
    BY <1>3, <2>1, <2>2, SameFilter
<1>4. ASSUME NEW a, Becomes(c, [c EXCEPT !.step = "done", !.answer = a]),
             UNCHANGED <<page, listed, mixed>>
      PROVE  FilterInv'
  <2> DEFINE d == [c EXCEPT !.step = "done", !.answer = a]
  <2>1. d.u = c.u /\ d.all = c.all
    BY <1>1 DEF CallOK
  <2>2. calls' = (calls \ {c}) \union {d}
    BY <1>4 DEF Becomes
  <2> HIDE DEF d
  <2> QED
    BY <1>4, <2>1, <2>2, SameFilter
<1>5. CASE Write(c)
  BY <1>3, <1>4, <1>5 DEF Write, page, history
<1>6. CASE ReadList(c)
  BY <1>3, <1>4, <1>6 DEF ReadList, page, history
<1> QED
  BY <1>2, <1>5, <1>6 DEF ServerStep

\* An answer leaves the table alone; a list is shown with its own filter.
LEMMA AnswerInv ==
  ASSUME TypeOK, ServerInv, FilterInv, NEW c \in calls, Answer(c)
  PROVE  ServerInv' /\ FilterInv'
<1> USE DEF Quietly, Fault, server, page, bounds, history
<1>1. CallOK(c)
  BY DEF TypeOK
<1>2. CASE ListArrives(c)
  <2>1. Deciding' \subseteq Deciding
    BY <1>2 DEF ListArrives, Deciding
  <2>2. FilterInv'
    BY <1>1, <1>2 DEF ListArrives, FilterInv, TypeOK, CallOK
  <2> QED
    BY <1>2, <2>1, <2>2, IdleStep DEF ListArrives
<1>3. CASE ListFails(c)
  <2>1. Deciding' \subseteq Deciding
    BY <1>3 DEF ListFails, Deciding
  <2>2. FilterInv'
    BY <1>1, <1>3 DEF ListFails, FilterInv, TypeOK, CallOK
  <2> QED
    BY <1>3, <2>1, <2>2, IdleStep DEF ListFails
<1>4. CASE ChangeAnswered(c)
  <2>1. Deciding' \subseteq Deciding
    BY <1>4 DEF ChangeAnswered, Becomes, Deciding, Call
  <2>2. FilterInv'
    BY <1>1, <1>4 DEF ChangeAnswered, Becomes, Call, FilterInv, TypeOK, CallOK
  <2> QED
    BY <1>4, <2>1, <2>2, IdleStep DEF ChangeAnswered
<1>5. CASE ChangeFails(c)
  <2>1. Deciding' \subseteq Deciding
    BY <1>5 DEF ChangeFails, Deciding
  <2>2. FilterInv'
    BY <1>5 DEF ChangeFails, FilterInv
  <2> QED
    BY <1>5, <2>1, <2>2, IdleStep DEF ChangeFails
<1> QED
  BY <1>2, <1>3, <1>4, <1>5 DEF Answer

\* Every step keeps the invariant.
LEMMA NextInv == IInv /\ [Next]_vars => IInv'
<1> SUFFICES ASSUME IInv, [Next]_vars PROVE IInv'
  OBVIOUS
<1> USE DEF IInv
<1>1. ASSUME NEW u \in Users, UserStep(u) PROVE IInv'
  BY <1>1, UserTypes, UserInv
<1>2. ASSUME NEW e \in Emps, Punch(e) PROVE IInv'
  <2>1. FilterInv'
    BY <1>2 DEF Punch, page, history, FilterInv
  <2> QED
    BY <1>2, <2>1, PunchInv
<1>3. ASSUME NEW c \in calls, ServerStep(c) PROVE IInv'
  <2>1. CASE Admit(c)
    BY <1>3, <2>1, ServerTypes, ServerFilter, AdmitInv
  <2>2. CASE Write(c)
    BY <1>3, <2>2, ServerTypes, ServerFilter, WriteInv
  <2>3. CASE ReadList(c)
    <3>1. Deciding' \subseteq Deciding
      <4>1. CallOK(c)
        BY DEF TypeOK
      <4> QED
        BY <2>3, <4>1 DEF ReadList, Becomes, Deciding, CallOK
    <3>2. ServerInv'
      BY <2>3, <3>1, IdleStep DEF ReadList, server, history
    <3> QED
      BY <1>3, <3>2, ServerTypes, ServerFilter
  <2> QED
    BY <1>3, <2>1, <2>2, <2>3 DEF ServerStep
<1>4. ASSUME NEW c \in calls, Answer(c) PROVE IInv'
  BY <1>4, AnswersTypes, AnswerInv
<1>5. CASE UNCHANGED vars
  BY <1>5 DEF vars, server, page, bounds, history, TypeOK, ServerInv, TreeIsRooted, Decided,
      Deciding, CyclesNeedARace, SomeoneCanSignIn, FilterInv
<1> QED
  BY <1>1, <1>2, <1>3, <1>4, <1>5 DEF Next

----------------------------------------------------------------------------
(* Theorems.                                                               *)

\* The invariant holds throughout.
THEOREM Invariance == Spec => []IInv
<1> QED
  BY InitInv, NextInv, PTL DEF Spec

\* The table, the lists and the requests are well typed.
THEOREM TypeCorrect == Spec => []TypeOK
<1>1. IInv => TypeOK
  BY DEF IInv
<1> QED
  BY <1>1, Invariance, PTL

\* Managers and the owners of attendance logs are employees, however deletions
\* overlap assignments and punches.
THEOREM TreeStaysRooted == Spec => []TreeIsRooted
<1>1. IInv => TreeIsRooted
  BY DEF IInv, ServerInv
<1> QED
  BY <1>1, Invariance, PTL

\* As long as changes are decided on one at a time, nobody reports to
\* themselves over any number of managers.
THEOREM TreeStaysAcyclic == Spec => []CyclesNeedARace
<1>1. IInv => CyclesNeedARace
  BY DEF IInv, ServerInv
<1> QED
  BY <1>1, Invariance, PTL

\* As long as changes are decided on one at a time and no deleted employee's
\* token is used, one of the users can still sign in.
THEOREM NobodyLocksAllOut == Spec => []SomeoneCanSignIn
<1>1. IInv => SomeoneCanSignIn
  BY DEF IInv, ServerInv
<1> QED
  BY <1>1, Invariance, PTL

\* A page shows the list that its checkbox asks for, unless the box was ticked
\* beside another call.
THEOREM FilterIsFollowed == Spec => []ListFollowsCheckbox
<1>1. IInv => ListFollowsCheckbox
  BY DEF IInv, FilterInv, ListFollowsCheckbox, Table
<1> QED
  BY <1>1, Invariance, PTL

\* No step removes an attendance log or an employee who has one.
THEOREM HistoryStays == Spec => HistoryIsKept
<1> DEFINE Keeps == logs \subseteq logs' /\ \A e \in logs : staff'[e] # None
<1>1. ASSUME IInv, [Next]_vars PROVE [Keeps]_vars
  <2>1. logs \subseteq Here(staff) /\ TypeOK
    BY <1>1 DEF IInv, ServerInv, TreeIsRooted
  <2>2. CASE UNCHANGED server
    BY <2>1, <2>2 DEF server, Here
  <2>3. ASSUME NEW e \in Emps, Punch(e) PROVE Keeps
    BY <2>1, <2>3 DEF Punch, Here
  <2>4. ASSUME NEW c \in calls, Write(c) PROVE Keeps
    <3>1. CASE Storable(c)
      <4>1. c.op # "fetch" /\ c.emp \in Emps
        BY <2>1, <2>4 DEF TypeOK, CallOK, Write
      <4>2. Effect(c, staff') /\ logs' = logs
        BY <2>1, <2>4, <3>1, <4>1, StoredHasEffect DEF Write
      <4> QED
        BY <2>1, <3>1, <4>1, <4>2 DEF Effect, Storable, Here
    <3>2. CASE ~Storable(c)
      BY <2>1, <2>4, <3>2 DEF Write, Here
    <3> QED
      BY <3>1, <3>2
  <2>5. ASSUME NEW u \in Users, UserStep(u) PROVE UNCHANGED server
    BY <2>5 DEF UserStep, ToggleTerminated, SubmitCreate, SubmitUpdate, Terminate, Reactivate,
        Delete, Send, Event
  <2>6. ASSUME NEW c \in calls, Answer(c) PROVE UNCHANGED server
    BY <2>6 DEF Answer, ListArrives, ListFails, ChangeAnswered, ChangeFails, Fault
  <2>7. ASSUME NEW c \in calls, Admit(c) \/ ReadList(c) PROVE UNCHANGED server
    BY <2>7 DEF Admit, ReadList
  <2> QED
    BY <1>1, <2>2, <2>3, <2>4, <2>5, <2>6, <2>7 DEF Next, ServerStep, vars
<1> QED
  BY <1>1, Invariance, PTL DEF Spec, HistoryIsKept

=============================================================================
