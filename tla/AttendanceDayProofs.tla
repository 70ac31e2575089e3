------------------------- MODULE AttendanceDayProofs -------------------------
(***************************************************************************)
(* Proofs about AttendanceDay, for every set of requests, every set of     *)
(* calls, every calendar day and every choice of the shift constants.      *)
(*                                                                         *)
(* IndInv is inductive: one lemma per action below, each with one step per *)
(* conjunct.  The theorems at the end follow from it.                      *)
(***************************************************************************)
EXTENDS AttendanceDay, FiniteSetTheorems, TLAPS

-----------------------------------------------------------------------------
(* The operators the actions are built from.                               *)

\* The placeholder is a row and carries no time.
LEMMA AbsentRowIsRow ==
  /\ AbsentRow \in Row
  /\ AbsentRow.first = None /\ AbsentRow.last = None
  BY DEF AbsentRow, Row, Opt, Statuses, PunchedStatuses

\* An UPDATE mixes three rows column by column: the result is a row, and each
\* of its times is one the new or the stored row had.
LEMMA UpdatedIsRow ==
  ASSUME NEW old \in Row, NEW new \in Row, NEW stored \in Row
  PROVE  /\ Updated(old, new, stored) \in Row
         /\ Updated(old, new, stored).first \in {new.first, stored.first}
         /\ Updated(old, new, stored).last \in {new.last, stored.last}
  BY DEF Updated, Changed, Row

\* Stamping an entry on a row keeps the row's times.
LEMMA StampedIsRow ==
  ASSUME NEW e \in Entry, NEW r \in Row
  PROVE  /\ Stamped(e, r) \in Row
         /\ Stamped(e, r).first = r.first /\ Stamped(e, r).last = r.last
  BY DEF Stamped, Asked, Entry, Row, Opt, Statuses, PunchedStatuses

\* calculate_status answers with a status or with None.
LEMMA CalculateStatusType ==
  ASSUME NEW first, NEW last, NEW leave
  PROVE  CalculateStatus(first, last, leave, Kind) \in Opt(Statuses)
  BY DEF CalculateStatus, TimingStatus, Statuses, PunchedStatuses, Opt

\* _check_tardiness answers LATE, EARLY_LEAVE or None.
LEMMA CheckTardinessType ==
  ASSUME NEW count, NEW time
  PROVE  CheckTardiness(count, time) \in Opt({"LATE", "EARLY_LEAVE"})
  BY DEF CheckTardiness, Opt

\* The times recomputed for the summary are those of logs that count.
LEMMA ReadTimesCount ==
  ASSUME TypeOK, IdsFit
  PROVE  FirstClockIn \union LastClockOut \subseteq Opt(Time) \intersect Opt(CountedTimes)
  BY DEF FirstClockIn, LastClockOut, Live, CountedTimes, IdsFit, Opt

\* A call in progress is a call.
LEMMA RunningCall ==
  ASSUME NEW p \in Req, TypeOK, CallsFit, pc[p] \in Running
  PROVE  call[p] \in Call /\ call[p].entry \in Entry
  BY DEF TypeOK, CallsFit, Opt, Call

-----------------------------------------------------------------------------
(* The initial state and the actions.                                      *)

\* An empty day satisfies the invariant.
LEMMA InitInv == Init => IndInv
  <1>. SUFFICES ASSUME Init PROVE IndInv
    OBVIOUS
  <1>1. TypeOK
    <2>1. now \in Time /\ 0 \in Time
      BY DayAssumption DEF Init, Time
    <2>2. None \in Opt(Row) /\ None \in Opt(Call) /\ None \in Opt({"LATE", "EARLY_LEAVE"})
      BY DEF Opt
    <2>. QED  BY <2>1, <2>2, AbsentRowIsRow DEF Init, TypeOK, Stages
  <1>2. CallsFit /\ RowsExist /\ IdsFit
    BY DEF Init, CallsFit, RowsExist, IdsFit, Running
  <1>3. CarriedTimesFit
    BY AbsentRowIsRow DEF Init, CarriedTimesFit, TimesFit, Opt
  <1>. QED  BY <1>1, <1>2, <1>3 DEF IndInv

\* A request starts at its first awaited call, or is answered at once.
LEMMA EntryPointFits ==
  ASSUME NEW c \in Calls
  PROVE  /\ c \in Call
         /\ EntryPoint(c) \in Running \union Finished
         /\ EntryPoint(c) \notin {"insert_in", "insert_out", "refresh"}
         /\ EntryPoint(c) = "mark" => SetsPunches(c.entry)
  <1>1. c \in Call /\ c.kind \in {"punch", "bulk", "override", "report", "reason"}
    BY DayAssumption DEF Call
  <1>2. /\ BulkEntryPoint(c) \in {"done", "rejected", "mark", "stamp_read"}
        /\ BulkEntryPoint(c) = "mark" => SetsPunches(c.entry)
    BY DEF BulkEntryPoint
  <1>3. CASE c.kind = "bulk"
    BY <1>1, <1>2, <1>3 DEF EntryPoint, Running, Finished
  <1>4. CASE c.kind # "bulk"
    <2>1. EntryPoint(c) \in {"rejected", "punch_check", "override_insert", "read_row", "reason_check"}
      BY <1>1, <1>4 DEF EntryPoint
    <2>. QED  BY <1>1, <2>1 DEF Running, Finished
  <1>. QED  BY <1>3, <1>4

\* A new request starts with an empty session and carries no time.
LEMMA ArriveInv ==
  ASSUME NEW p \in Req, IndInv, Arrive(p)
  PROVE  IndInv'
  <1>. USE DEF IndInv
  <1>a. PICK c \in Calls : /\ call' = [call EXCEPT ![p] = c]
                           /\ pc' = [pc EXCEPT ![p] = EntryPoint(c)]
    BY DEF Arrive, Goto
  <1>b. c \in Opt(Call)
    BY EntryPointFits DEF Opt
  <1>c. pc[p] = "idle" /\ UNCHANGED <<db, now, local>> /\ solo' \in [Req -> BOOLEAN]
    BY DEF Arrive
  <1>1. TypeOK'
    BY <1>a, <1>b, <1>c, EntryPointFits DEF TypeOK, db, local
  <1>2. CallsFit'
    <2>1. c # None
      BY EntryPointFits, DayAssumption, <1>a DEF Call
    <2>. QED  BY <1>a, <2>1, EntryPointFits DEF TypeOK, CallsFit
  <1>3. RowsExist'
    BY <1>a, <1>c, EntryPointFits DEF TypeOK, RowsExist, db, local
  <1>4. IdsFit'
    BY DEF TypeOK, IdsFit, Arrive, EntryPoint, BulkEntryPoint, Goto, db, local
  <1>5. CarriedTimesFit'
    BY DayAssumption DEF TypeOK, CarriedTimesFit, TimesFit, CountedTimes, Arrive, EntryPoint, BulkEntryPoint, Goto, db, local, Opt
  <1>. QED  BY <1>1, <1>2, <1>3, <1>4, <1>5

\* Ending a request leaves its local variables well-typed and empty.
LEMMA FinishFits ==
  ASSUME NEW p \in Req, TypeOK, NEW outcome \in Finished,
         NEW answer \in Opt({"LATE", "EARLY_LEAVE"}), Finish(p, outcome, answer)
  PROVE  /\ pc' \in [Req -> {"idle"} \union Running \union Finished]
         /\ stage' \in [Req -> Stages]
         /\ copy' \in [Req -> Opt(Row)]
         /\ pay' \in [Req -> Row]
         /\ pend' \in [Req -> SUBSET Nat]
         /\ at' \in [Req -> Time]
         /\ tardy' \in [Req -> Opt({"LATE", "EARLY_LEAVE"})]
  <1>1. 0 \in Time
    BY DayAssumption DEF Time
  <1>2. None \in Opt(Row) /\ "calc" \in Stages
    BY DEF Opt, Stages
  <1>. QED  BY <1>1, <1>2, AbsentRowIsRow DEF Finish, Goto, TypeOK

\* ... and carries no time any more.
LEMMA FinishCarriesNothing ==
  ASSUME NEW p \in Req, TypeOK, NEW outcome, NEW answer,
         Finish(p, outcome, answer), CountedTimes' = CountedTimes, CarriedTimesFit
  PROVE  \A q \in Req : TimesFit(pay[q])' /\ (copy'[q] # None => TimesFit(copy[q])')
  BY AbsentRowIsRow DEF Finish, TypeOK, CarriedTimesFit, TimesFit, Opt

\* Losing a request discards its session: the database is as it committed it.
LEMMA AbortInv ==
  ASSUME NEW p \in Req, IndInv, Abort(p)
  PROVE  IndInv'
  <1>. USE DEF IndInv
  <1>1. TypeOK'
    BY AbsentRowIsRow, DayAssumption DEF TypeOK, Abort, Finish, Active, Goto, db, local, Running, Finished, Stages, Opt, Time
  <1>2. CallsFit'
    BY DEF TypeOK, CallsFit, Abort, Finish, Active, Goto, db, local, Running
  <1>3. RowsExist'
    BY DEF TypeOK, RowsExist, Abort, Finish, Active, Goto, db, local
  <1>4. IdsFit'
    BY DEF TypeOK, IdsFit, Abort, Finish, Active, Goto, db, local
  <1>5. CarriedTimesFit'
    BY AbsentRowIsRow, DayAssumption DEF TypeOK, CarriedTimesFit, TimesFit, CountedTimes, Abort, Finish, Active, Goto, db, local, Opt
  <1>. QED  BY <1>1, <1>2, <1>3, <1>4, <1>5

\* The clock alone changes nothing that is stored.
LEMMA TickInv ==
  ASSUME IndInv, Tick
  PROVE  IndInv'
  <1>. USE DEF IndInv
  <1>1. TypeOK'
    BY DayAssumption DEF TypeOK, Tick, Goto, db, local, Running, Finished, Stages, Opt, Time
  <1>2. CallsFit'
    BY DEF TypeOK, CallsFit, Tick, Goto, db, local, Running
  <1>3. RowsExist'
    BY DEF TypeOK, RowsExist, Tick, Goto, db, local
  <1>4. IdsFit'
    BY DEF TypeOK, IdsFit, Tick, Goto, db, local
  <1>5. CarriedTimesFit'
    BY DayAssumption DEF TypeOK, CarriedTimesFit, TimesFit, CountedTimes, Tick, Goto, db, local, Opt
  <1>. QED  BY <1>1, <1>2, <1>3, <1>4, <1>5

\* The duplicate check only reads.
LEMMA PunchCheckInv ==
  ASSUME NEW p \in Req, IndInv, PunchCheck(p)
  PROVE  IndInv'
  <1>. USE DEF IndInv
  <1>1. TypeOK'
    BY AbsentRowIsRow, DayAssumption DEF TypeOK, PunchCheck, Finish, Goto, db, local, Running, Finished, Stages, Opt, Time
  <1>2. CallsFit'
    BY DEF TypeOK, CallsFit, PunchCheck, Finish, Goto, db, local, Running
  <1>3. RowsExist'
    BY DEF TypeOK, RowsExist, PunchCheck, Finish, Goto, db, local
  <1>4. IdsFit'
    BY DEF TypeOK, IdsFit, PunchCheck, Finish, Goto, db, local
  <1>5. CarriedTimesFit'
    BY AbsentRowIsRow, DayAssumption DEF TypeOK, CarriedTimesFit, TimesFit, CountedTimes, PunchCheck, Finish, Goto, db, local, Opt
  <1>. QED  BY <1>1, <1>2, <1>3, <1>4, <1>5

\* Stamping a punch takes the clock's reading, a time of day.
LEMMA PunchStampInv ==
  ASSUME NEW p \in Req, IndInv, PunchStamp(p)
  PROVE  IndInv'
  <1>. USE DEF IndInv
  <1>1. TypeOK'
    BY DayAssumption DEF TypeOK, PunchStamp, Goto, db, local, Running, Finished, Stages, Opt, Time
  <1>2. CallsFit'
    BY DEF TypeOK, CallsFit, PunchStamp, Goto, db, local, Running
  <1>3. RowsExist'
    BY DEF TypeOK, RowsExist, PunchStamp, Goto, db, local
  <1>4. IdsFit'
    BY DEF TypeOK, IdsFit, PunchStamp, Goto, db, local
  <1>5. CarriedTimesFit'
    BY DayAssumption DEF TypeOK, CarriedTimesFit, TimesFit, CountedTimes, PunchStamp, Goto, db, local, Opt
  <1>. QED  BY <1>1, <1>2, <1>3, <1>4, <1>5

\* The new log takes the next id of the sequence.
LEMMA PunchInsertInv ==
  ASSUME NEW p \in Req, IndInv, PunchInsert(p)
  PROVE  IndInv'
  <1>. USE DEF IndInv
  <1>1. TypeOK'
    BY DayAssumption DEF TypeOK, PunchInsert, NewLog, Log, Goto, db, local, Running, Finished, Stages, Opt, Time
  <1>2. CallsFit'
    BY DEF TypeOK, CallsFit, PunchInsert, NewLog, Log, Goto, db, local, Running
  <1>3. RowsExist'
    BY DEF TypeOK, RowsExist, PunchInsert, NewLog, Log, Goto, db, local
  <1>4. IdsFit'
    BY DEF TypeOK, IdsFit, PunchInsert, NewLog, Log, Goto, db, local
  <1>5. CarriedTimesFit'
    BY DayAssumption DEF TypeOK, CarriedTimesFit, TimesFit, CountedTimes, PunchInsert, NewLog, Log, Goto, db, local, Opt
  <1>. QED  BY <1>1, <1>2, <1>3, <1>4, <1>5

\* The decision to recompute only moves the request.
LEMMA PunchJudgeInv ==
  ASSUME NEW p \in Req, IndInv, PunchJudge(p)
  PROVE  IndInv'
  <1>. USE DEF IndInv
  <1>1. TypeOK'
    BY AbsentRowIsRow, CheckTardinessType, DayAssumption DEF TypeOK, PunchJudge, Finish, Goto, db, local, Running, Finished, Stages, Opt, Time
  <1>2. CallsFit'
    BY DEF TypeOK, CallsFit, PunchJudge, Finish, Goto, db, local, Running
  <1>3. RowsExist'
    BY DEF TypeOK, RowsExist, PunchJudge, Finish, Goto, db, local
  <1>4. IdsFit'
    BY DEF TypeOK, IdsFit, PunchJudge, Finish, Goto, db, local
  <1>5. CarriedTimesFit'
    BY AbsentRowIsRow, DayAssumption DEF TypeOK, CarriedTimesFit, TimesFit, CountedTimes, PunchJudge, Finish, Goto, db, local, Opt
  <1>. QED  BY <1>1, <1>2, <1>3, <1>4, <1>5

\* Loading the row starts a write with the times the row has.
LEMMA ReadRowInv ==
  ASSUME NEW p \in Req, IndInv, ReadRow(p)
  PROVE  IndInv'
  <1>. USE DEF IndInv
  <1>1. TypeOK'
    BY AbsentRowIsRow, DayAssumption DEF TypeOK, ReadRow, Kept, Goto, db, local, Running, Finished, Stages, Opt, Time
  <1>2. CallsFit'
    BY DEF TypeOK, CallsFit, ReadRow, Kept, Goto, db, local, Running
  <1>3. RowsExist'
    BY DEF TypeOK, RowsExist, ReadRow, Kept, Goto, db, local
  <1>4. IdsFit'
    BY DEF TypeOK, IdsFit, ReadRow, Kept, Goto, db, local
  <1>5. CarriedTimesFit'
    BY AbsentRowIsRow, DayAssumption DEF TypeOK, CarriedTimesFit, TimesFit, CountedTimes, ReadRow, Kept, Goto, db, local, Opt
  <1>. QED  BY <1>1, <1>2, <1>3, <1>4, <1>5

\* The clock-in that is read is the time of a log that counts.
LEMMA ReadFirstInv ==
  ASSUME NEW p \in Req, IndInv, ReadFirst(p)
  PROVE  IndInv'
  <1>. USE DEF IndInv
  <1>a. PICK t \in Opt(Time) : pay' = [pay EXCEPT ![p].first = t]
    BY ReadTimesCount DEF ReadFirst
  <1>b. pay' \in [Req -> Row]
    BY <1>a DEF TypeOK, Row
  <1>1. TypeOK'
    BY <1>b DEF TypeOK, ReadFirst, Goto, db, Running
  <1>2. CallsFit'
    BY DEF TypeOK, CallsFit, ReadFirst, Goto, db, local, Running
  <1>3. RowsExist'
    BY DEF TypeOK, RowsExist, ReadFirst, Goto, db, local
  <1>4. IdsFit'
    BY DEF TypeOK, IdsFit, ReadFirst, Goto, db, local
  <1>5. CarriedTimesFit'
    BY ReadTimesCount, DayAssumption DEF TypeOK, CarriedTimesFit, TimesFit, CountedTimes, ReadFirst, Goto, db, local, Opt
  <1>. QED  BY <1>1, <1>2, <1>3, <1>4, <1>5

\* So is the clock-out, whatever has been committed since the clock-in was read.
LEMMA ReadLastInv ==
  ASSUME NEW p \in Req, IndInv, ReadLast(p)
  PROVE  IndInv'
  <1>. USE DEF IndInv
  <1>a. PICK t \in Opt(Time) \intersect Opt(CountedTimes) :
          \/ NothingToSummarize(p)
          \/ \E s \in Statuses :
               /\ pay' = [pay EXCEPT ![p].last = t, ![p].status = s]
               /\ Goto(p, IF copy[p] = None THEN "select" ELSE "write")
               /\ UNCHANGED <<stage, copy, pend, at, tardy>>
    <2>1. PICK t \in LastClockOut :
            LET status == CalculateStatus(pay[p].first, t, pay[p].leave, Kind)
            IN IF status = None /\ pay[p].ot = None
               THEN NothingToSummarize(p)
               ELSE /\ pay' = [pay EXCEPT ![p].last = t,
                                          ![p].status = IF status = None THEN @ ELSE status]
                    /\ Goto(p, IF copy[p] = None THEN "select" ELSE "write")
                    /\ UNCHANGED <<stage, copy, pend, at, tardy>>
      BY DEF ReadLast
    <2>2. t \in Opt(Time) \intersect Opt(CountedTimes)
      BY ReadTimesCount
    <2>3. pay[p].status \in Statuses
      BY DEF TypeOK, Row
    <2>. DEFINE status == CalculateStatus(pay[p].first, t, pay[p].leave, Kind)
    <2>4. (IF status = None THEN pay[p].status ELSE status) \in Statuses
      BY <2>3, CalculateStatusType DEF Opt
    <2>5. CASE status = None /\ pay[p].ot = None
      BY <2>1, <2>2, <2>5
    <2>6. CASE ~(status = None /\ pay[p].ot = None)
      <3>1. /\ pay' = [pay EXCEPT ![p].last = t,
                                  ![p].status = IF status = None THEN pay[p].status ELSE status]
            /\ Goto(p, IF copy[p] = None THEN "select" ELSE "write")
            /\ UNCHANGED <<stage, copy, pend, at, tardy>>
        BY <2>1, <2>6
      <3>. QED  BY <2>2, <2>4, <3>1
    <2>. QED  BY <2>5, <2>6
  <1>b. UNCHANGED <<db, now, call, solo>>
    BY DEF ReadLast
  <1>1. TypeOK'
    <2>1. CASE Finish(p, "done", None)
      BY <1>b, <2>1, FinishFits DEF TypeOK, db, Finished, Opt
    <2>2. CASE stage' = [stage EXCEPT ![p] = "absent"] /\ Goto(p, "select")
               /\ UNCHANGED <<copy, pay, pend, at, tardy>>
      BY <1>b, <2>2 DEF TypeOK, db, Goto, Running, Stages
    <2>3. ASSUME NEW s \in Statuses,
                 pay' = [pay EXCEPT ![p].last = t, ![p].status = s],
                 Goto(p, IF copy[p] = None THEN "select" ELSE "write"),
                 UNCHANGED <<stage, copy, pend, at, tardy>>
          PROVE  TypeOK'
      <3>1. pay' \in [Req -> Row]
        BY <2>3 DEF TypeOK, Row
      <3>. QED  BY <1>b, <2>3, <3>1 DEF TypeOK, db, Goto, Running
    <2>. QED  BY <1>a, <2>1, <2>2, <2>3 DEF NothingToSummarize
  <1>2. CallsFit'
    BY DEF TypeOK, CallsFit, ReadLast, NothingToSummarize, Finish, Goto, db, local, Running
  <1>3. RowsExist'
    BY DEF TypeOK, RowsExist, ReadLast, NothingToSummarize, Finish, Goto, db, local
  <1>4. IdsFit'
    BY DEF TypeOK, IdsFit, ReadLast, NothingToSummarize, Finish, Goto, db, local
  <1>5. CarriedTimesFit'
    <2>1. CountedTimes' = CountedTimes /\ row' = row
      BY <1>b DEF CountedTimes, db
    <2>2. CASE Finish(p, "done", None)
      BY <2>1, <2>2, FinishCarriesNothing DEF CarriedTimesFit, TimesFit
    <2>3. CASE UNCHANGED <<copy, pay>>
      BY <2>1, <2>3 DEF CarriedTimesFit, TimesFit
    <2>4. ASSUME NEW s \in Statuses,
                 pay' = [pay EXCEPT ![p].last = t, ![p].status = s], copy' = copy
          PROVE  CarriedTimesFit'
      <3>1. /\ \A q \in Req : q # p => pay'[q] = pay[q]
            /\ pay'[p].last = t /\ pay'[p].first = pay[p].first
        BY <2>4 DEF TypeOK, Row
      <3>. QED  BY <2>1, <2>4, <3>1 DEF CarriedTimesFit, TimesFit
    <2>. QED  BY <1>a, <2>2, <2>3, <2>4 DEF NothingToSummarize
  <1>. QED  BY <1>1, <1>2, <1>3, <1>4, <1>5

\* The SELECT of the upsert copies the row.
LEMMA UpsertSelectInv ==
  ASSUME NEW p \in Req, IndInv, UpsertSelect(p)
  PROVE  IndInv'
  <1>. USE DEF IndInv
  <1>a. [AbsentRow EXCEPT !.ot = row.ot, !.late = row.late] \in Row \/ row = None
    BY AbsentRowIsRow DEF TypeOK, Row, Opt
  <1>b. pay' \in [Req -> Row] /\ copy' \in [Req -> Opt(Row)]
    BY <1>a, AbsentRowIsRow DEF TypeOK, UpsertSelect
  <1>1. TypeOK'
    BY <1>b DEF TypeOK, UpsertSelect, Goto, db, Running
  <1>2. CallsFit'
    BY DEF TypeOK, CallsFit, UpsertSelect, Goto, db, local, Running
  <1>3. RowsExist'
    BY DEF TypeOK, RowsExist, UpsertSelect, Goto, db, local
  <1>4. IdsFit'
    BY DEF TypeOK, IdsFit, UpsertSelect, Goto, db, local
  <1>5. CarriedTimesFit'
    BY AbsentRowIsRow, DayAssumption DEF TypeOK, CarriedTimesFit, TimesFit, CountedTimes, UpsertSelect, Goto, db, local, Opt
  <1>. QED  BY <1>1, <1>2, <1>3, <1>4, <1>5

\* The UPDATE mixes the loaded, the asked and the stored row: all three are fit.
LEMMA UpsertWriteInv ==
  ASSUME NEW p \in Req, IndInv, UpsertWrite(p)
  PROVE  IndInv'
  <1>. USE DEF IndInv
  <1>a. AfterWrite(p) \/ Finish(p, "failed", None)
    BY DEF UpsertWrite
  <1>b. \/ Finish(p, "done", None) \/ Finish(p, "failed", None)
        \/ Goto(p, "read_row") /\ UNCHANGED local
        \/ Goto(p, "refresh") /\ UNCHANGED local /\ row' # None
    <2>1. row' # None \/ Finish(p, "failed", None)
      <3>1. None \notin Row
        BY DayAssumption
      <3>2. CASE copy[p] # None
        BY <3>1, <3>2, UpdatedIsRow DEF UpsertWrite, TypeOK, RowsExist, Opt
      <3>3. CASE copy[p] = None
        BY <3>1, <3>3 DEF UpsertWrite, TypeOK
      <3>. QED  BY <3>2, <3>3
    <2>2. ASSUME AfterWrite(p)
          PROVE  \/ Finish(p, "done", None)
                 \/ Goto(p, "read_row") /\ UNCHANGED local
                 \/ Goto(p, "refresh") /\ UNCHANGED local
      <3>1. CASE stage[p] \in {"stamp", "late"}
        BY <2>2, <3>1 DEF AfterWrite
      <3>2. CASE stage[p] = "place"
        BY <2>2, <3>2 DEF AfterWrite
      <3>3. CASE stage[p] = "calc" /\ call[p].kind = "punch"
        BY <2>2, <3>3 DEF AfterWrite
      <3>4. CASE ~(\/ stage[p] \in {"stamp", "late"} \/ stage[p] = "place"
                   \/ stage[p] = "calc" /\ call[p].kind = "punch")
        BY <2>2, <3>4 DEF AfterWrite
      <3>. QED  BY <3>1, <3>2, <3>3, <3>4
    <2>. QED  BY <1>a, <2>1, <2>2
  <1>c. row' \in Opt(Row) /\ (row # None => row' # None)
    <2>1. None \notin Row
      BY DayAssumption
    <2>. QED  BY <2>1, UpdatedIsRow DEF UpsertWrite, TypeOK, RowsExist, Opt
  <1>d. UNCHANGED <<logs, voided, nextId, reason, now, call, solo>>
    BY DEF UpsertWrite
  <1>1. TypeOK'
    <2>1. CASE \E outcome \in Finished : Finish(p, outcome, None)
      BY <1>c, <1>d, <2>1, FinishFits DEF TypeOK, Opt
    <2>2. CASE UNCHANGED local /\ \E l \in Running : Goto(p, l)
      BY <1>c, <1>d, <2>2 DEF TypeOK, local, Goto
    <2>. QED  BY <1>b, <2>1, <2>2 DEF Running, Finished
  <1>2. CallsFit'
    BY <1>b, <1>d DEF TypeOK, CallsFit, UpsertWrite, Finish, Goto, Running
  <1>3. RowsExist'
    BY <1>b, <1>c DEF TypeOK, RowsExist, Finish, Goto, local
  <1>4. IdsFit'
    BY <1>b, <1>d DEF TypeOK, IdsFit, Finish, local
  <1>5. CarriedTimesFit'
    <2>1. CountedTimes' = CountedTimes
      BY <1>d DEF CountedTimes
    <2>2. row' # None => TimesFit(row')
      <3>1. CASE copy[p] # None
        BY <3>1, UpdatedIsRow DEF UpsertWrite, TypeOK, RowsExist, Opt, CarriedTimesFit, TimesFit
      <3>2. CASE copy[p] = None
        BY <3>2 DEF UpsertWrite, CarriedTimesFit
      <3>. QED  BY <3>1, <3>2
    <2>3. CASE \E outcome \in Finished : Finish(p, outcome, None)
      BY <2>1, <2>2, <2>3, FinishCarriesNothing DEF CarriedTimesFit, TimesFit
    <2>4. CASE UNCHANGED local
      BY <2>1, <2>2, <2>4 DEF CarriedTimesFit, TimesFit, local
    <2>. QED  BY <1>b, <2>3, <2>4 DEF Finished
  <1>. QED  BY <1>1, <1>2, <1>3, <1>4, <1>5

\* The refreshed object is the stored row, which exists.
LEMMA RefreshInv ==
  ASSUME NEW p \in Req, IndInv, Refresh(p)
  PROVE  IndInv'
  <1>. USE DEF IndInv
  <1>a. row # None /\ row \in Row /\ call[p] \in Call
    BY RunningCall DEF Refresh, RowsExist, TypeOK, Opt, Running
  <1>b. UNCHANGED <<db, now, call, solo>>
    BY DEF Refresh
  <1>c. \/ \E answer \in Opt({"LATE", "EARLY_LEAVE"}) : Finish(p, "done", answer)
        \/ \E r \in Row, l \in {"read_first", "write"}, s \in {"calc", "late"} :
             /\ r.first = row.first /\ r.last = row.last
             /\ copy' = [copy EXCEPT ![p] = row]
             /\ pay' = [pay EXCEPT ![p] = r]
             /\ stage' = [stage EXCEPT ![p] = s]
             /\ Goto(p, l)
             /\ UNCHANGED <<pend, at, tardy>>
    <2>1. CASE stage[p] = "stamp"
      BY <1>a, <2>1 DEF Refresh
    <2>2. CASE stage[p] = "calc" /\ call[p].lateReason # None
      <3>1. [row EXCEPT !.late = call[p].lateReason] \in Row
        BY <1>a, <2>2 DEF Row, Call, Opt
      <3>2. /\ [row EXCEPT !.late = call[p].lateReason].first = row.first
            /\ [row EXCEPT !.late = call[p].lateReason].last = row.last
        BY <1>a DEF Row
      <3>3. /\ copy' = [copy EXCEPT ![p] = row]
            /\ pay' = [pay EXCEPT ![p] = [row EXCEPT !.late = call[p].lateReason]]
            /\ stage' = [stage EXCEPT ![p] = "late"]
            /\ Goto(p, "write")
            /\ UNCHANGED <<pend, at, tardy>>
        BY <2>2 DEF Refresh
      <3>. QED  BY <3>1, <3>2, <3>3
    <2>3. CASE PunchAnswer(p, row)
      BY <2>3 DEF PunchAnswer, TypeOK, Opt
    <2>. QED  BY <2>1, <2>2, <2>3 DEF Refresh
  <1>1. TypeOK'
    <2>1. CASE \E answer \in Opt({"LATE", "EARLY_LEAVE"}) : Finish(p, "done", answer)
      BY <1>b, <2>1, FinishFits DEF TypeOK, db, Finished
    <2>2. CASE ~\E answer \in Opt({"LATE", "EARLY_LEAVE"}) : Finish(p, "done", answer)
      BY <1>a, <1>b, <1>c, <2>2 DEF TypeOK, db, Goto, Running, Stages, Opt
    <2>. QED  BY <2>1, <2>2
  <1>2. CallsFit'
    BY DEF TypeOK, CallsFit, Refresh, PunchAnswer, Finish, Goto, db, local, Running
  <1>3. RowsExist'
    BY DEF TypeOK, RowsExist, Refresh, PunchAnswer, Finish, Goto, db, local
  <1>4. IdsFit'
    BY DEF TypeOK, IdsFit, Refresh, PunchAnswer, Finish, Goto, db, local
  <1>5. CarriedTimesFit'
    <2>1. CountedTimes' = CountedTimes /\ row' = row
      BY <1>b DEF CountedTimes, db
    <2>2. CASE \E answer \in Opt({"LATE", "EARLY_LEAVE"}) : Finish(p, "done", answer)
      BY <2>1, <2>2, FinishCarriesNothing DEF CarriedTimesFit, TimesFit
    <2>3. CASE ~\E answer \in Opt({"LATE", "EARLY_LEAVE"}) : Finish(p, "done", answer)
      BY <1>a, <1>c, <2>1, <2>3 DEF CarriedTimesFit, TimesFit, TypeOK
    <2>. QED  BY <2>2, <2>3
  <1>. QED  BY <1>1, <1>2, <1>3, <1>4, <1>5

\* The flags an override is about to commit are those of existing logs.
LEMMA BulkMarkInv ==
  ASSUME NEW p \in Req, IndInv, BulkMark(p)
  PROVE  IndInv'
  <1>. USE DEF IndInv
  <1>a. pc' \in [Req -> {"idle"} \union Running \union Finished]
    BY DEF BulkMark, TypeOK, Goto, Running
  <1>b. pend' \in [Req -> SUBSET Nat]
    <2>1. {l.id : l \in Live} \in SUBSET Nat
      BY DEF Live, TypeOK, Log
    <2>. QED  BY <2>1 DEF BulkMark, TypeOK
  <1>1. TypeOK'
    BY <1>a, <1>b DEF TypeOK, BulkMark, db
  <1>2. CallsFit'
    BY DEF TypeOK, CallsFit, BulkMark, Goto, Running, SetsPunches
  <1>3. RowsExist'
    BY DEF TypeOK, RowsExist, BulkMark, Live, Goto, db, local
  <1>4. IdsFit'
    BY DEF TypeOK, IdsFit, BulkMark, Live, Goto, db, local
  <1>5. CarriedTimesFit'
    BY DayAssumption DEF TypeOK, CarriedTimesFit, TimesFit, CountedTimes, BulkMark, Live, Goto, db, local, Opt
  <1>. QED  BY <1>1, <1>2, <1>3, <1>4, <1>5

\* The new log takes the next id; the flags it commits are of older logs.
LEMMA BulkInsertKeepsIds ==
  ASSUME NEW p \in Req, NEW time, TypeOK, IdsFit, BulkInsert(p, time)
  PROVE  IdsFit'
  <1>1. nextId \in Nat /\ nextId' = nextId + 1
    BY DEF BulkInsert, TypeOK
  <1>2. NewLog(p, time, "bulk").id = nextId /\ NewLog(p, time, "bulk").by = "bulk"
    BY DEF NewLog
  <1>3. \A l \in logs' : l.id < nextId'
    BY <1>1, <1>2 DEF BulkInsert, IdsFit, TypeOK, Log
  <1>4. \A i \in voided' : i < nextId'
    BY <1>1 DEF BulkInsert, IdsFit, TypeOK
  <1>5. \A q \in Req : \A i \in pend'[q] : i < nextId'
    BY <1>1 DEF BulkInsert, IdsFit, TypeOK
  <1>6. \A l \in logs' : l.by = "manager" => l.id \in voided'
    BY <1>2 DEF BulkInsert, IdsFit
  <1>. QED  BY <1>3, <1>4, <1>5, <1>6 DEF IdsFit

\* Committing a log and the pending flags keeps the tables well-typed.
LEMMA BulkInsertFits ==
  ASSUME NEW p \in Req, NEW time, TypeOK, NewLog(p, time, "bulk") \in Log, BulkInsert(p, time)
  PROVE  /\ logs' \in SUBSET Log /\ nextId' \in Nat
         /\ voided' \in SUBSET Nat /\ pend' \in [Req -> SUBSET Nat]
  <1>1. logs' \in SUBSET Log /\ nextId' \in Nat
    BY DEF TypeOK, BulkInsert
  <1>2. voided' \in SUBSET Nat
    BY DEF TypeOK, BulkInsert
  <1>3. pend' \in [Req -> SUBSET Nat]
    BY DEF TypeOK, BulkInsert
  <1>. QED  BY <1>1, <1>2, <1>3

\* The override's clock-in is a counted log with the next id.
LEMMA BulkInsertInInv ==
  ASSUME NEW p \in Req, IndInv, BulkInsertIn(p)
  PROVE  IndInv'
  <1>. USE DEF IndInv
  <1>a. call[p] \in Call /\ call[p].entry.in \in Time
    <2>1. call[p] \in Call /\ call[p].entry \in Entry /\ call[p].entry.in # None
      BY RunningCall DEF BulkInsertIn, CallsFit, Running
    <2>. QED  BY <2>1 DEF Entry, Opt
  <1>b. NewLog(p, call[p].entry.in, "bulk") \in Log
    BY <1>a DEF NewLog, Log, TypeOK
  <1>c. pc' \in [Req -> {"idle"} \union Running \union Finished]
    BY DEF BulkInsertIn, AfterPunches, TypeOK, Goto, Running
  <1>d. BulkInsert(p, call[p].entry.in)
    BY DEF BulkInsertIn
  <1>1. TypeOK'
    BY <1>b, <1>c, <1>d, BulkInsertFits DEF TypeOK, BulkInsert
  <1>2. CallsFit'
    BY DEF TypeOK, CallsFit, BulkInsertIn, BulkInsert, NewLog, AfterPunches, Log, Goto, db, local, Running
  <1>3. RowsExist'
    BY DEF TypeOK, RowsExist, BulkInsertIn, BulkInsert, NewLog, AfterPunches, Log, Goto, db, local
  <1>4. IdsFit'
    BY <1>d, BulkInsertKeepsIds
  <1>5. CarriedTimesFit'
    BY DayAssumption DEF TypeOK, CarriedTimesFit, TimesFit, CountedTimes, BulkInsertIn, BulkInsert, NewLog, AfterPunches, Log, Goto, db, local, Opt
  <1>. QED  BY <1>1, <1>2, <1>3, <1>4, <1>5

\* So is its clock-out.
LEMMA BulkInsertOutInv ==
  ASSUME NEW p \in Req, IndInv, BulkInsertOut(p)
  PROVE  IndInv'
  <1>. USE DEF IndInv
  <1>a. call[p] \in Call /\ call[p].entry.out \in Time
    <2>1. call[p] \in Call /\ call[p].entry \in Entry /\ call[p].entry.out # None
      BY RunningCall DEF BulkInsertOut, CallsFit, Running
    <2>. QED  BY <2>1 DEF Entry, Opt
  <1>b. NewLog(p, call[p].entry.out, "bulk") \in Log
    BY <1>a DEF NewLog, Log, TypeOK
  <1>c. pc' \in [Req -> {"idle"} \union Running \union Finished]
    BY DEF BulkInsertOut, AfterPunches, TypeOK, Goto, Running
  <1>d. BulkInsert(p, call[p].entry.out)
    BY DEF BulkInsertOut
  <1>1. TypeOK'
    BY <1>b, <1>c, <1>d, BulkInsertFits DEF TypeOK, BulkInsert
  <1>2. CallsFit'
    BY DEF TypeOK, CallsFit, BulkInsertOut, BulkInsert, NewLog, AfterPunches, Log, Goto, db, local, Running
  <1>3. RowsExist'
    BY DEF TypeOK, RowsExist, BulkInsertOut, BulkInsert, NewLog, AfterPunches, Log, Goto, db, local
  <1>4. IdsFit'
    BY <1>d, BulkInsertKeepsIds
  <1>5. CarriedTimesFit'
    BY DayAssumption DEF TypeOK, CarriedTimesFit, TimesFit, CountedTimes, BulkInsertOut, BulkInsert, NewLog, AfterPunches, Log, Goto, db, local, Opt
  <1>. QED  BY <1>1, <1>2, <1>3, <1>4, <1>5

\* Stamping columns on the row leaves its times alone.
LEMMA StampReadInv ==
  ASSUME NEW p \in Req, IndInv, StampRead(p)
  PROVE  IndInv'
  <1>. USE DEF IndInv
  <1>1. TypeOK'
    BY AbsentRowIsRow, RunningCall, StampedIsRow, DayAssumption DEF TypeOK, StampRead, Goto, db, local, Running, Finished, Stages, Opt, Time
  <1>2. CallsFit'
    BY DEF TypeOK, CallsFit, StampRead, Goto, db, local, Running
  <1>3. RowsExist'
    BY DEF TypeOK, RowsExist, StampRead, Goto, db, local
  <1>4. IdsFit'
    BY DEF TypeOK, IdsFit, StampRead, Goto, db, local
  <1>a. call[p].entry \in Entry
    BY RunningCall DEF StampRead, Running
  <1>5. CarriedTimesFit'
    <2>1. CountedTimes' = CountedTimes /\ row' = row
      BY DEF StampRead, CountedTimes, db
    <2>2. CASE row # None
      BY <1>a, <2>1, <2>2, StampedIsRow DEF StampRead, TypeOK, Opt, CarriedTimesFit, TimesFit
    <2>3. CASE row = None
      BY <1>a, <2>1, <2>3, StampedIsRow, AbsentRowIsRow DEF StampRead, TypeOK, Opt, CarriedTimesFit, TimesFit
    <2>. QED  BY <2>2, <2>3
  <1>. QED  BY <1>1, <1>2, <1>3, <1>4, <1>5

\* A manager's log is committed together with its overridden flag.
LEMMA OverrideInsertInv ==
  ASSUME NEW p \in Req, IndInv, OverrideInsert(p)
  PROVE  IndInv'
  <1>. USE DEF IndInv
  <1>a. NewLog(p, now, "manager") \in Log
    BY DEF NewLog, Log, TypeOK
  <1>1. TypeOK'
    BY <1>a, FinishFits DEF TypeOK, OverrideInsert, Finished, Opt
  <1>2. CallsFit'
    BY DEF TypeOK, CallsFit, OverrideInsert, Finish, NewLog, Log, Goto, db, local, Running
  <1>3. RowsExist'
    BY DEF TypeOK, RowsExist, OverrideInsert, Finish, NewLog, Log, Goto, db, local
  <1>4. IdsFit'
    BY DEF TypeOK, IdsFit, OverrideInsert, Finish, NewLog, Log, Goto, db, local
  <1>5. CarriedTimesFit'
    BY AbsentRowIsRow, DayAssumption DEF TypeOK, CarriedTimesFit, TimesFit, CountedTimes, OverrideInsert, Finish, NewLog, Log, Goto, db, local, Opt
  <1>. QED  BY <1>1, <1>2, <1>3, <1>4, <1>5

\* The gate of a reason only reads.
LEMMA ReasonCheckInv ==
  ASSUME NEW p \in Req, IndInv, ReasonCheck(p)
  PROVE  IndInv'
  <1>. USE DEF IndInv
  <1>1. TypeOK'
    BY AbsentRowIsRow, DayAssumption DEF TypeOK, ReasonCheck, Finish, Goto, db, local, Running, Finished, Stages, Opt, Time
  <1>2. CallsFit'
    BY DEF TypeOK, CallsFit, ReasonCheck, Finish, Goto, db, local, Running
  <1>3. RowsExist'
    BY DEF TypeOK, RowsExist, ReasonCheck, Finish, Goto, db, local
  <1>4. IdsFit'
    BY DEF TypeOK, IdsFit, ReasonCheck, Finish, Goto, db, local
  <1>5. CarriedTimesFit'
    BY AbsentRowIsRow, DayAssumption DEF TypeOK, CarriedTimesFit, TimesFit, CountedTimes, ReasonCheck, Finish, Goto, db, local, Opt
  <1>. QED  BY <1>1, <1>2, <1>3, <1>4, <1>5

\* Storing a reason touches neither log nor row.
LEMMA ReasonInsertInv ==
  ASSUME NEW p \in Req, IndInv, ReasonInsert(p)
  PROVE  IndInv'
  <1>. USE DEF IndInv
  <1>1. TypeOK'
    BY AbsentRowIsRow, DayAssumption DEF TypeOK, ReasonInsert, Finish, Goto, db, local, Running, Finished, Stages, Opt, Time
  <1>2. CallsFit'
    BY DEF TypeOK, CallsFit, ReasonInsert, Finish, Goto, db, local, Running
  <1>3. RowsExist'
    BY DEF TypeOK, RowsExist, ReasonInsert, Finish, Goto, db, local
  <1>4. IdsFit'
    BY DEF TypeOK, IdsFit, ReasonInsert, Finish, Goto, db, local
  <1>5. CarriedTimesFit'
    BY AbsentRowIsRow, DayAssumption DEF TypeOK, CarriedTimesFit, TimesFit, CountedTimes, ReasonInsert, Finish, Goto, db, local, Opt
  <1>. QED  BY <1>1, <1>2, <1>3, <1>4, <1>5

\* The invariant survives every step of the system, and stuttering.
LEMMA NextInv == IndInv /\ [Next]_vars => IndInv'
  <1>. SUFFICES ASSUME IndInv, [Next]_vars PROVE IndInv'
    OBVIOUS
  <1>1. ASSUME NEW p \in Req, Arrive(p) PROVE IndInv'
    BY <1>1, ArriveInv
  <1>2. ASSUME NEW p \in Req, Step(p) PROVE IndInv'
    <2>1. CASE PunchCheck(p)  BY <2>1, PunchCheckInv
    <2>2. CASE PunchStamp(p)  BY <2>2, PunchStampInv
    <2>3. CASE PunchInsert(p)  BY <2>3, PunchInsertInv
    <2>4. CASE PunchJudge(p)  BY <2>4, PunchJudgeInv
    <2>5. CASE ReadRow(p)  BY <2>5, ReadRowInv
    <2>6. CASE ReadFirst(p)  BY <2>6, ReadFirstInv
    <2>7. CASE ReadLast(p)  BY <2>7, ReadLastInv
    <2>8. CASE UpsertSelect(p)  BY <2>8, UpsertSelectInv
    <2>9. CASE UpsertWrite(p)  BY <2>9, UpsertWriteInv
    <2>10. CASE Refresh(p)  BY <2>10, RefreshInv
    <2>11. CASE BulkMark(p)  BY <2>11, BulkMarkInv
    <2>12. CASE BulkInsertIn(p)  BY <2>12, BulkInsertInInv
    <2>13. CASE BulkInsertOut(p)  BY <2>13, BulkInsertOutInv
    <2>14. CASE StampRead(p)  BY <2>14, StampReadInv
    <2>15. CASE OverrideInsert(p)  BY <2>15, OverrideInsertInv
    <2>16. CASE ReasonCheck(p)  BY <2>16, ReasonCheckInv
    <2>17. CASE ReasonInsert(p)  BY <2>17, ReasonInsertInv
    <2>. QED
      BY <1>2, <2>1, <2>2, <2>3, <2>4, <2>5, <2>6, <2>7, <2>8, <2>9, <2>10, <2>11, <2>12, <2>13, <2>14, <2>15, <2>16, <2>17 DEF Step
  <1>3. ASSUME NEW p \in Req, Abort(p) PROVE IndInv'
    BY <1>3, AbortInv
  <1>4. CASE Tick
    BY <1>4, TickInv
  <1>5. CASE UNCHANGED vars
    <2>1. TypeOK'
      BY <1>5 DEF vars, TypeOK, IndInv
    <2>2. CallsFit' /\ RowsExist' /\ IdsFit'
      BY <1>5 DEF vars, CallsFit, RowsExist, IdsFit, IndInv
    <2>3. CarriedTimesFit'
      BY <1>5 DEF vars, CarriedTimesFit, TimesFit, CountedTimes, IndInv
    <2>. QED  BY <2>1, <2>2, <2>3 DEF IndInv
  <1>. QED  BY <1>1, <1>2, <1>3, <1>4, <1>5 DEF Next, Rest

-----------------------------------------------------------------------------
(* The theorems.                                                           *)

\* The inductive invariant holds in every reachable state.
THEOREM Invariance == Spec => []IndInv
  <1>1. Init => IndInv
    BY InitInv
  <1>2. IndInv /\ [Next]_vars => IndInv'
    BY NextInv
  <1>. QED  BY <1>1, <1>2, PTL DEF Spec

\* Type correctness of the tables and of every request's session.
THEOREM TypeCorrect == Spec => []TypeOK
  <1>1. IndInv => TypeOK
    BY DEF IndInv
  <1>. QED  BY <1>1, Invariance, PTL

\* No interleaving of punches, reports and overrides puts a time into the
\* summary that no employee punched and no bulk override entered.
THEOREM TimesAreGenuine == Spec => []TimesComeFromLogs
  <1>1. IndInv => TimesComeFromLogs
    BY DEF IndInv, CarriedTimesFit, TimesComeFromLogs
  <1>. QED  BY <1>1, Invariance, PTL

\* What a step may do to the log: nothing, or add one log and flag some.
LEMMA LogStep ==
  ASSUME [Next]_vars
  PROVE  \/ UNCHANGED <<logs, voided>>
         \/ \E p \in Req : \E time : BulkInsert(p, time)
         \/ \E p \in Req : PunchInsert(p)
         \/ \E p \in Req : OverrideInsert(p)
  <1>1. ASSUME NEW p \in Req, Step(p)
        PROVE  \/ UNCHANGED <<logs, voided>>
               \/ \E time : BulkInsert(p, time)
               \/ PunchInsert(p) \/ OverrideInsert(p)
    <2>1. CASE PunchCheck(p)  BY <2>1 DEF PunchCheck, db
    <2>2. CASE PunchStamp(p)  BY <2>2 DEF PunchStamp, db
    <2>3. CASE PunchInsert(p)  BY <2>3
    <2>4. CASE PunchJudge(p)  BY <2>4 DEF PunchJudge, db
    <2>5. CASE ReadRow(p)  BY <2>5 DEF ReadRow, db
    <2>6. CASE ReadFirst(p)  BY <2>6 DEF ReadFirst, db
    <2>7. CASE ReadLast(p)  BY <2>7 DEF ReadLast, db
    <2>8. CASE UpsertSelect(p)  BY <2>8 DEF UpsertSelect, db
    <2>9. CASE UpsertWrite(p)  BY <2>9 DEF UpsertWrite, db
    <2>10. CASE Refresh(p)  BY <2>10 DEF Refresh, db
    <2>11. CASE BulkMark(p)  BY <2>11 DEF BulkMark, db
    <2>12. CASE BulkInsertIn(p)  BY <2>12 DEF BulkInsertIn
    <2>13. CASE BulkInsertOut(p)  BY <2>13 DEF BulkInsertOut
    <2>14. CASE StampRead(p)  BY <2>14 DEF StampRead, db
    <2>15. CASE OverrideInsert(p)  BY <2>15
    <2>16. CASE ReasonCheck(p)  BY <2>16 DEF ReasonCheck, db
    <2>17. CASE ReasonInsert(p)  BY <2>17 DEF ReasonInsert, db
    <2>. QED
      BY <1>1, <2>1, <2>2, <2>3, <2>4, <2>5, <2>6, <2>7, <2>8, <2>9, <2>10, <2>11, <2>12, <2>13, <2>14, <2>15, <2>16, <2>17 DEF Step
  <1>2. ASSUME NEW p \in Req, Arrive(p) \/ Abort(p)
        PROVE  UNCHANGED <<logs, voided>>
    BY <1>2 DEF Arrive, Abort, db
  <1>3. CASE Tick \/ UNCHANGED vars
    BY <1>3 DEF Tick, db, vars
  <1>. QED  BY <1>1, <1>2, <1>3 DEF Next, Rest

\* The punch log is an immutable stream: logs stay, and stay overridden.
THEOREM AppendOnly == Spec => LogsAppendOnly
  <1>1. [Next]_vars => [logs \subseteq logs' /\ voided \subseteq voided']_vars
    BY LogStep DEF BulkInsert, PunchInsert, OverrideInsert
  <1>. QED  BY <1>1, PTL DEF Spec, LogsAppendOnly

\* A day with a live log keeps one.  A bulk override flags only older logs
\* and, in the same transaction, commits one with a fresh id; a manager's
\* override flags only itself.
LEMMA LiveStays ==
  ASSUME IndInv, [Next]_vars, Live # {}
  PROVE  Live' # {}
  <1>. USE DEF IndInv
  <1>1. CASE UNCHANGED <<logs, voided>>
    BY <1>1 DEF Live
  <1>2. ASSUME NEW p \in Req, NEW time, BulkInsert(p, time) PROVE Live' # {}
    <2>1. nextId \notin voided \union pend[p] /\ nextId \in Nat
      BY DEF IdsFit, TypeOK
    <2>2. NewLog(p, time, "bulk").id = nextId
      BY DEF NewLog
    <2>. QED  BY <1>2, <2>1, <2>2 DEF Live, BulkInsert
  <1>3. ASSUME NEW p \in Req, PunchInsert(p) PROVE Live' # {}
    BY <1>3 DEF Live, PunchInsert
  <1>4. ASSUME NEW p \in Req, OverrideInsert(p) PROVE Live' # {}
    <2>1. PICK l \in logs : l.id \notin voided
      BY DEF Live
    <2>2. l.id # nextId
      BY <2>1 DEF IdsFit, TypeOK, Log
    <2>. QED  BY <1>4, <2>1, <2>2 DEF Live, OverrideInsert
  <1>. QED  BY <1>1, <1>2, <1>3, <1>4, LogStep

\* A day that was worked stays worked, whatever overrides overlap and abort.
THEOREM StaysPunched == Spec => PunchedDayStaysPunched
  <1>1. IndInv /\ [Next]_vars => [Live # {} => Live' # {}]_vars
    BY LiveStays
  <1>. QED  BY <1>1, Invariance, PTL DEF Spec, PunchedDayStaysPunched

-----------------------------------------------------------------------------
(* Requests that run alone.  Alone says what it is to be alone; Stages-    *)
(* Fit, CountedStay and PhonesFit hold of every request; the rest says,    *)
(* of a request that runs alone, what it has done so far.                  *)

\* Nobody runs beside a request that has been alone since it arrived.
Alone ==
    \A p \in Req : solo[p] =>
        /\ call[p] \in Call /\ pc[p] # "idle"
        /\ \A q \in Req : q # p => ~Active(q)

\* Which requests pass through which steps and stages.
StageFits(p) ==
    /\ pc[p] \in {"punch_check", "punch_stamp", "punch_insert", "punch_judge"} =>
          call[p].kind = "punch"
    /\ pc[p] \in {"mark", "insert_in", "insert_out", "stamp_read"} => call[p].kind = "bulk"
    /\ pc[p] = "override_insert" => call[p].kind = "override"
    /\ pc[p] \in {"reason_check", "reason_insert"} => call[p].kind = "reason"
    /\ pc[p] \in {"read_row", "read_first", "read_last", "select", "write", "refresh"} =>
          call[p].kind \in {"punch", "bulk", "report"}
    /\ pc[p] \in {"read_first", "read_last"} => stage[p] = "calc"
    /\ pc[p] = "select" => stage[p] \in {"calc", "place", "absent"}
    /\ pc[p] = "refresh" => stage[p] \in {"stamp", "late"}
                            \/ (stage[p] = "calc" /\ call[p].kind = "punch")
    /\ pc[p] \in {"write", "refresh", "select"} =>
          /\ stage[p] \in {"stamp", "place"} => call[p].kind = "bulk" /\ SetsColumns(call[p].entry)
          /\ stage[p] = "late" => call[p].kind = "punch" /\ call[p].lateReason # None
          /\ stage[p] = "absent" => call[p].kind = "report" /\ Workday /\ Employed
    /\ pc[p] = "stamp_read" => SetsColumns(call[p].entry)
    /\ Active(p) /\ call[p].kind = "bulk" =>
          SetsPunches(call[p].entry) \/ SetsColumns(call[p].entry)

StagesFit == \A p \in Req : StageFits(p)

\* A day that has counted a punch, even an overridden one, has a live one.
CountedStay == (\E l \in logs : l.by # "manager") => Live # {}

\* The clock stamps phone punches and does not run back.
PhonesFit ==
    /\ \A l \in logs : l.by = "phone" => l.time <= now
    /\ \A p \in Req : pc[p] = "punch_insert" => at[p] <= now

\* A recompute has the row, the times of the log and the status they give.
Recomputing(p) ==
    /\ pc[p] \in {"read_first", "read_last"} \/ (pc[p] \in {"select", "write"} /\ stage[p] = "calc") =>
          /\ copy[p] = row
          /\ pay[p].leave = Kept(row).leave /\ pay[p].ot = Kept(row).ot /\ pay[p].late = Kept(row).late
    /\ pc[p] = "read_last" \/ (pc[p] \in {"select", "write"} /\ stage[p] = "calc") =>
          pay[p].first \in FirstClockIn
    /\ pc[p] \in {"select", "write"} /\ stage[p] = "calc" =>
          LET status == CalculateStatus(pay[p].first, pay[p].last, pay[p].leave, Kind)
          IN /\ pay[p].last \in LastClockOut
             /\ IF status = None THEN pay[p].ot # None ELSE pay[p].status = status
             /\ pc[p] = "select" => row = None

\* A report that found nothing to summarize is about to write an absence.
MarkingAbsent(p) ==
    pc[p] \in {"select", "write"} /\ stage[p] = "absent" =>
        /\ Live = {}
        /\ row # None => row.leave = None /\ row.ot = None
        /\ pc[p] = "write" =>
              /\ copy[p] = row
              /\ pay[p] = IF row = None THEN AbsentRow
                          ELSE [AbsentRow EXCEPT !.ot = row.ot, !.late = row.late]

\* A punch keeps its distance, counts once it is stored, and stores the
\* reason it carries last.
Punching(p) ==
    call[p].kind = "punch" =>
        /\ pc[p] = "punch_stamp" =>
              \A m \in Live : m.by = "phone" => now - m.time >= DupWindow
        /\ pc[p] = "punch_insert" =>
              \A m \in Live : m.by = "phone" => at[p] - m.time >= DupWindow
        /\ pc[p] \notin {"punch_check", "punch_stamp", "punch_insert"} => Live # {}
        /\ pc[p] = "write" /\ stage[p] = "late" =>
              row # None /\ copy[p] = row /\ pay[p] = [row EXCEPT !.late = call[p].lateReason]
        /\ pc[p] = "refresh" /\ stage[p] = "late" => row.late = call[p].lateReason

\* What an entry asks of the row.
ColumnsSet(e, r) ==
    /\ e.leave # Unset => r.leave = e.leave
    /\ e.remark # Unset => r.remark = e.remark
    /\ e.ot # Unset => r.ot = e.ot
    /\ e.late # Unset => r.late = e.late

\* The row of a day that is stamped: a day without leave or punches is absent.
StampedAs(e, r) ==
    /\ ColumnsSet(e, r)
    /\ r.leave = None /\ Live = {} => r.status = "ABSENT"

TimesOf(e) == {e.in, e.out} \ {None}
LiveTimes == {l.time : l \in Live}

\* A bulk override flags what counted, counts what it brings, stamps its
\* columns, and recomputes the row with them.
Overriding(p) ==
    call[p].kind = "bulk" =>
        LET e == call[p].entry
        IN /\ pc[p] = "insert_in" => pend[p] = {l.id : l \in Live}
           /\ pc[p] = "insert_out" =>
                 IF e.in = None THEN pend[p] = {l.id : l \in Live}
                 ELSE pend[p] = {} /\ LiveTimes = {e.in}
           /\ pc[p] \notin {"mark", "insert_in", "insert_out"} /\ SetsPunches(e) =>
                 LiveTimes = TimesOf(e)
           /\ pc[p] = "write" /\ stage[p] = "stamp" =>
                 row # None /\ copy[p] = row /\ pay[p] = Stamped(e, row)
           /\ pc[p] \in {"select", "write"} /\ stage[p] = "place" =>
                 row = None /\ copy[p] = None /\ pay[p] = Stamped(e, AbsentRow)
           /\ \/ pc[p] \in {"read_row", "read_first", "read_last", "refresh"}
              \/ pc[p] \in {"select", "write"} /\ stage[p] = "calc"
              => StampedAs(e, Kept(row))
           /\ \/ pc[p] \in {"read_first", "read_last"}
              \/ pc[p] \in {"select", "write"} /\ stage[p] = "calc"
              => pay[p].remark = Kept(row).remark

\* What a request that runs alone has done so far.
SoFar(p) ==
    solo[p] /\ Active(p) =>
        Recomputing(p) /\ MarkingAbsent(p) /\ Punching(p) /\ Overriding(p)

AloneInv == Alone /\ StagesFit /\ CountedStay /\ PhonesFit /\ \A p \in Req : SoFar(p)

\* A step moves one request: the others, their calls and the clock stay.
LEMMA OneAtATime ==
  ASSUME NEW p \in Req, TypeOK, Step(p) \/ Abort(p)
  PROVE  /\ Active(p)
         /\ call' = call /\ solo' = solo /\ now' = now
         /\ \A q \in Req : q # p =>
               /\ pc'[q] = pc[q] /\ stage'[q] = stage[q] /\ copy'[q] = copy[q] /\ pay'[q] = pay[q]
               /\ pend'[q] = pend[q] /\ at'[q] = at[q]
  <1>. USE DEF TypeOK, Goto, Finish, db, local
  <1>1. CASE Abort(p)
    BY <1>1 DEF Abort
  <1>2. CASE PunchCheck(p) \/ PunchStamp(p) \/ PunchInsert(p) \/ PunchJudge(p)
    BY <1>2 DEF PunchCheck, PunchStamp, PunchInsert, PunchJudge, Active, Running
  <1>3. CASE ReadRow(p) \/ ReadFirst(p)
    BY <1>3 DEF ReadRow, ReadFirst, Active, Running
  <1>4. CASE ReadLast(p)
    BY <1>4 DEF ReadLast, NothingToSummarize, Active, Running
  <1>5. CASE UpsertSelect(p)
    BY <1>5 DEF UpsertSelect, Active, Running
  <1>6. CASE UpsertWrite(p)
    <2>1. AfterWrite(p) \/ Finish(p, "failed", None)
      BY <1>6 DEF UpsertWrite
    <2>2. \/ Goto(p, "refresh") /\ UNCHANGED local
          \/ Goto(p, "read_row") /\ UNCHANGED local
          \/ Finish(p, "done", None) \/ Finish(p, "failed", None)
      BY <2>1 DEF AfterWrite
    <2>. QED  BY <1>6, <2>2 DEF UpsertWrite, Active, Running
  <1>7. CASE Refresh(p)
    BY <1>7 DEF Refresh, PunchAnswer, Active, Running
  <1>8. CASE BulkMark(p) \/ BulkInsertIn(p) \/ BulkInsertOut(p)
    BY <1>8 DEF BulkMark, BulkInsertIn, BulkInsertOut, BulkInsert, Active, Running
  <1>9. CASE StampRead(p)
    BY <1>9 DEF StampRead, Active, Running
  <1>10. CASE OverrideInsert(p) \/ ReasonCheck(p) \/ ReasonInsert(p)
    BY <1>10 DEF OverrideInsert, ReasonCheck, ReasonInsert, Active, Running
  <1>. QED
    BY <1>1, <1>2, <1>3, <1>4, <1>5, <1>6, <1>7, <1>8, <1>9, <1>10 DEF Step

LEMMA AloneInit == Init => AloneInv
  <1>. SUFFICES ASSUME Init PROVE AloneInv
    OBVIOUS
  <1>1. Alone /\ \A p \in Req : SoFar(p)
    BY DEF Init, Alone, SoFar
  <1>2. StagesFit
    BY DEF Init, StagesFit, StageFits, Active, Running
  <1>3. CountedStay /\ PhonesFit
    BY DEF Init, CountedStay, PhonesFit
  <1>. QED  BY <1>1, <1>2, <1>3 DEF AloneInv

LEMMA AloneStays ==
  ASSUME IndInv, Alone, [Next]_vars
  PROVE  Alone'
  <1>. USE DEF IndInv
  <1>1. ASSUME NEW p \in Req, Step(p) \/ Abort(p)
        PROVE  Alone'
    <2>1. pc'[p] # "idle"
      <3>1. CASE Abort(p)
        BY <3>1 DEF Abort, Finish, Goto, TypeOK
      <3>2. CASE UpsertWrite(p)
        <4>1. AfterWrite(p) \/ Finish(p, "failed", None)
          BY <3>2 DEF UpsertWrite
        <4>. QED  BY <4>1 DEF AfterWrite, Finish, Goto, TypeOK
      <3>3. CASE PunchJudge(p) \/ ReadLast(p) \/ Refresh(p)
        BY <3>3 DEF PunchJudge, ReadLast, Refresh, NothingToSummarize, PunchAnswer, Finish, Goto, TypeOK
      <3>4. CASE BulkMark(p) \/ BulkInsertIn(p) \/ BulkInsertOut(p) \/ StampRead(p)
        BY <3>4 DEF BulkMark, BulkInsertIn, BulkInsertOut, StampRead, AfterPunches, Goto, TypeOK
      <3>5. CASE OverrideInsert(p) \/ ReasonCheck(p) \/ ReasonInsert(p) \/ PunchCheck(p)
        BY <3>5 DEF OverrideInsert, ReasonCheck, ReasonInsert, PunchCheck, Finish, Goto, TypeOK
      <3>6. CASE PunchStamp(p) \/ PunchInsert(p) \/ ReadRow(p) \/ ReadFirst(p) \/ UpsertSelect(p)
        BY <3>6 DEF PunchStamp, PunchInsert, ReadRow, ReadFirst, UpsertSelect, Goto, TypeOK
      <3>. QED  BY <1>1, <3>1, <3>2, <3>3, <3>4, <3>5, <3>6 DEF Step
    <2>. QED  BY <1>1, <2>1, OneAtATime DEF Alone, Active
  <1>2. ASSUME NEW p \in Req, Arrive(p)
        PROVE  Alone'
    <2>1. PICK c \in Calls : call' = [call EXCEPT ![p] = c] /\ pc' = [pc EXCEPT ![p] = EntryPoint(c)]
      BY <1>2 DEF Arrive, Goto
    <2>2. solo' = [q \in Req |-> q = p /\ \A r \in Req : ~Active(r)]
      BY <1>2 DEF Arrive
    <2>3. c \in Call /\ EntryPoint(c) # "idle"
      BY EntryPointFits DEF Running, Finished
    <2>. QED  BY <2>1, <2>2, <2>3 DEF Alone, Active, TypeOK
  <1>3. CASE Tick \/ UNCHANGED vars
    BY <1>3 DEF Tick, vars, Alone, Active
  <1>. QED  BY <1>1, <1>2, <1>3 DEF Next, Rest

\* The end of a request leaves nothing to say of it.
LEMMA FinishEnds ==
  ASSUME NEW p \in Req, TypeOK, NEW outcome \in Finished, NEW answer, Finish(p, outcome, answer)
  PROVE  ~Active(p)' /\ pc'[p] = outcome /\ (call' = call => StageFits(p)')
  <1>1. pc'[p] = outcome /\ pc'[p] \notin Running
    BY DEF Finish, Goto, TypeOK, Finished, Running
  <1>. QED  BY <1>1 DEF Active, StageFits, Finished

\* Each step leads to a step that fits the call and the stage.
LEMMA StageStep ==
  ASSUME NEW p \in Req, IndInv, StageFits(p), Step(p)
  PROVE  StageFits(p)'
  <1>. USE DEF IndInv
  <1>a. call[p] \in Call /\ call' = call /\ pc[p] \in Running
    BY OneAtATime, RunningCall DEF Active
  <1>1. CASE \E o \in Finished : \E a : Finish(p, o, a)
    BY <1>1, <1>a, FinishEnds
  <1>2. CASE pc[p] \in {"punch_check", "punch_stamp", "punch_insert", "punch_judge"}
             /\ ~\E o \in Finished : \E a : Finish(p, o, a)
    <2>1. pc'[p] \in {"punch_stamp", "punch_insert", "punch_judge", "read_row"}
      <3>1. PunchCheck(p) \/ PunchStamp(p) \/ PunchInsert(p) \/ PunchJudge(p)
        BY <1>2 DEF Step, ReadRow, ReadFirst, ReadLast, UpsertSelect, UpsertWrite, Refresh, BulkMark,
                    BulkInsertIn, BulkInsertOut, StampRead, OverrideInsert, ReasonCheck, ReasonInsert
      <3>. QED  BY <1>2, <3>1 DEF PunchCheck, PunchStamp, PunchInsert, PunchJudge, Goto, TypeOK, Finished
    <2>. QED  BY <1>2, <1>a, <2>1 DEF StageFits, Active, Running
  <1>3. CASE ReadRow(p)
    BY <1>3, <1>a DEF ReadRow, Goto, TypeOK, StageFits, Active, Running
  <1>4. CASE ReadFirst(p)
    BY <1>4, <1>a DEF ReadFirst, Goto, TypeOK, StageFits, Active, Running
  <1>5. CASE ReadLast(p) /\ ~\E o \in Finished : \E a : Finish(p, o, a)
    <2>1. \/ /\ call[p].kind = "report" /\ Workday /\ Employed
             /\ stage'[p] = "absent" /\ pc'[p] = "select"
          \/ stage'[p] = stage[p] /\ pc'[p] \in {"select", "write"}
      BY <1>5 DEF ReadLast, NothingToSummarize, Goto, TypeOK, Finished
    <2>. QED  BY <1>5, <1>a, <2>1 DEF ReadLast, StageFits, Active, Running
  <1>6. CASE UpsertSelect(p)
    BY <1>6, <1>a DEF UpsertSelect, Goto, TypeOK, StageFits, Active, Running
  <1>7. CASE UpsertWrite(p) /\ ~\E o \in Finished : \E a : Finish(p, o, a)
    <2>1. AfterWrite(p)
      BY <1>7 DEF UpsertWrite, Finished
    <2>2. stage'[p] = stage[p] /\
          \/ pc'[p] = "refresh" /\ \/ stage[p] \in {"stamp", "late"}
                                   \/ stage[p] = "calc" /\ call[p].kind = "punch"
          \/ pc'[p] = "read_row" /\ stage[p] = "place"
      BY <1>7, <2>1 DEF AfterWrite, Goto, TypeOK, Finished, local
    <2>. QED  BY <1>7, <1>a, <2>2 DEF UpsertWrite, StageFits, Active, Running
  <1>8. CASE Refresh(p) /\ ~\E o \in Finished : \E a : Finish(p, o, a)
    <2>1. \/ stage[p] = "stamp" /\ stage'[p] = "calc" /\ pc'[p] = "read_first"
          \/ /\ stage[p] = "calc" /\ call[p].lateReason # None
             /\ stage'[p] = "late" /\ pc'[p] = "write"
      BY <1>8 DEF Refresh, PunchAnswer, Goto, TypeOK, Finished
    <2>. QED  BY <1>8, <1>a, <2>1 DEF Refresh, StageFits, Active, Running
  <1>9. CASE BulkMark(p)
    BY <1>9, <1>a DEF BulkMark, Goto, TypeOK, StageFits, Active, Running
  <1>10. CASE BulkInsertIn(p) \/ BulkInsertOut(p)
    <2>1. stage'[p] = stage[p] /\
          \/ pc'[p] \in {"insert_out", "read_row"}
          \/ pc'[p] = "stamp_read" /\ SetsColumns(call[p].entry)
      BY <1>10 DEF BulkInsertIn, BulkInsertOut, BulkInsert, AfterPunches, Goto, TypeOK
    <2>. QED  BY <1>10, <1>a, <2>1 DEF BulkInsertIn, BulkInsertOut, StageFits, Active, Running
  <1>11. CASE StampRead(p)
    <2>1. \/ pc'[p] = "write" /\ stage'[p] = "stamp"
          \/ pc'[p] = "select" /\ stage'[p] = "place"
          \/ pc'[p] = "read_row"
      BY <1>11 DEF StampRead, Goto, TypeOK
    <2>. QED  BY <1>11, <1>a, <2>1 DEF StampRead, StageFits, Active, Running
  <1>12. CASE OverrideInsert(p) \/ ReasonInsert(p) \/ ReasonCheck(p)
    <2>1. \/ \E o \in Finished : \E a : Finish(p, o, a)
          \/ ReasonCheck(p) /\ pc'[p] = "reason_insert"
      BY <1>12 DEF OverrideInsert, ReasonInsert, ReasonCheck, Goto, TypeOK, Finished
    <2>. QED  BY <1>1, <1>a, <2>1 DEF ReasonCheck, StageFits, Active, Running
  <1>. QED
    BY <1>1, <1>2, <1>3, <1>4, <1>5, <1>6, <1>7, <1>8, <1>9, <1>10, <1>11, <1>12
       DEF Step, PunchCheck, PunchStamp, PunchInsert, PunchJudge

LEMMA StagesStay ==
  ASSUME IndInv, StagesFit, [Next]_vars
  PROVE  StagesFit'
  <1>. USE DEF IndInv
  <1>1. ASSUME NEW p \in Req, Step(p) \/ Abort(p)
        PROVE  StagesFit'
    <2>1. StageFits(p)'
      <3>1. CASE Step(p)
        BY <3>1, StageStep DEF StagesFit
      <3>2. CASE Abort(p)
        BY <3>2, FinishEnds DEF Abort, Finished
      <3>. QED  BY <1>1, <3>1, <3>2
    <2>2. ASSUME NEW q \in Req, q # p
          PROVE  StageFits(q)'
      <3>1. pc'[q] = pc[q] /\ stage'[q] = stage[q] /\ call' = call
        BY <1>1, <2>2, OneAtATime
      <3>2. StageFits(q)
        BY DEF StagesFit
      <3>. QED  BY <3>1, <3>2 DEF StageFits, Active
    <2>. QED  BY <2>1, <2>2 DEF StagesFit
  <1>2. ASSUME NEW p \in Req, Arrive(p)
        PROVE  StagesFit'
    <2>1. PICK c \in Calls : call' = [call EXCEPT ![p] = c] /\ pc' = [pc EXCEPT ![p] = EntryPoint(c)]
      BY <1>2 DEF Arrive, Goto
    <2>2. stage' = stage
      BY <1>2 DEF Arrive, local
    <2>3. StageFits(p)'
      <3>1. c.kind \in {"punch", "bulk", "override", "report", "reason"} /\ pc'[p] = EntryPoint(c)
            /\ call'[p] = c
        BY <2>1, EntryPointFits DEF Call, TypeOK
      <3>2. CASE c.kind = "bulk"
        <4>1. \/ pc'[p] \in Finished
              \/ pc'[p] = "mark" /\ SetsPunches(c.entry)
              \/ pc'[p] = "stamp_read" /\ SetsColumns(c.entry)
          BY <3>1, <3>2 DEF EntryPoint, BulkEntryPoint, Finished
        <4>. QED  BY <3>1, <3>2, <4>1 DEF StageFits, Active, Running, Finished
      <3>3. CASE c.kind # "bulk"
        BY <3>1, <3>3 DEF EntryPoint, StageFits, Active, Running
      <3>. QED  BY <3>2, <3>3
    <2>4. ASSUME NEW q \in Req, q # p
          PROVE  StageFits(q)'
      BY <2>1, <2>2, <2>4 DEF StagesFit, StageFits, Active, TypeOK
    <2>. QED  BY <2>3, <2>4 DEF StagesFit
  <1>3. CASE Tick \/ UNCHANGED vars
    BY <1>3 DEF Tick, vars, local, StagesFit, StageFits, Active
  <1>. QED  BY <1>1, <1>2, <1>3 DEF Next, Rest

LEMMA CountedStays ==
  ASSUME IndInv, CountedStay, [Next]_vars
  PROVE  CountedStay'
  <1>. USE DEF IndInv
  <1>1. CASE UNCHANGED <<logs, voided>>
    BY <1>1 DEF CountedStay, Live
  <1>2. ASSUME NEW p \in Req, NEW time, BulkInsert(p, time) PROVE Live' # {}
    <2>1. nextId \notin voided \union pend[p] /\ nextId \in Nat
      BY DEF IdsFit, TypeOK
    <2>2. NewLog(p, time, "bulk").id = nextId
      BY DEF NewLog
    <2>. QED  BY <1>2, <2>1, <2>2 DEF Live, BulkInsert
  <1>3. ASSUME NEW p \in Req, PunchInsert(p) PROVE Live' # {}
    <2>1. nextId \notin voided /\ NewLog(p, at[p], "phone").id = nextId
      BY DEF IdsFit, TypeOK, NewLog
    <2>. QED  BY <1>3, <2>1 DEF Live, PunchInsert
  <1>4. ASSUME NEW p \in Req, OverrideInsert(p) PROVE CountedStay'
    <2>1. logs' = logs \union {NewLog(p, now, "manager")} /\ NewLog(p, now, "manager").by = "manager"
      BY <1>4 DEF OverrideInsert, NewLog
    <2>2. (\E l \in logs' : l.by # "manager") => \E l \in logs : l.by # "manager"
      BY <2>1
    <2>. QED  BY <2>2, LiveStays DEF CountedStay
  <1>. QED  BY <1>1, <1>2, <1>3, <1>4, LogStep DEF CountedStay

LEMMA PhonesStay ==
  ASSUME IndInv, PhonesFit, [Next]_vars
  PROVE  PhonesFit'
  <1>. USE DEF IndInv
  <1>a. now \in Nat /\ at \in [Req -> Nat] /\ \A l \in logs : l.time \in Nat
    BY DEF TypeOK, Time, Log
  <1>1. ASSUME NEW p \in Req, Step(p) \/ Abort(p)
        PROVE  \A q \in Req : pc'[q] = "punch_insert" => at'[q] <= now'
    <2>1. call' = call /\ now' = now
      BY <1>1, OneAtATime
    <2>2. pc'[p] = "punch_insert" => PunchStamp(p)
      <3>1. CASE Abort(p)
        BY <3>1, FinishEnds DEF Abort, Finished
      <3>2. CASE UpsertWrite(p)
        <4>1. AfterWrite(p) \/ Finish(p, "failed", None)
          BY <3>2 DEF UpsertWrite
        <4>. QED  BY <4>1 DEF AfterWrite, Finish, Goto, TypeOK
      <3>3. CASE PunchJudge(p) \/ ReadLast(p) \/ Refresh(p)
        BY <3>3 DEF PunchJudge, ReadLast, Refresh, NothingToSummarize, PunchAnswer, Finish, Goto, TypeOK
      <3>4. CASE BulkMark(p) \/ BulkInsertIn(p) \/ BulkInsertOut(p) \/ StampRead(p)
        BY <3>4 DEF BulkMark, BulkInsertIn, BulkInsertOut, StampRead, AfterPunches, Goto, TypeOK
      <3>5. CASE OverrideInsert(p) \/ ReasonCheck(p) \/ ReasonInsert(p) \/ PunchCheck(p)
        BY <3>5 DEF OverrideInsert, ReasonCheck, ReasonInsert, PunchCheck, Finish, Goto, TypeOK
      <3>6. CASE PunchStamp(p) \/ PunchInsert(p) \/ ReadRow(p) \/ ReadFirst(p) \/ UpsertSelect(p)
        BY <3>6 DEF PunchStamp, PunchInsert, ReadRow, ReadFirst, UpsertSelect, Goto, TypeOK
      <3>. QED  BY <1>1, <3>1, <3>2, <3>3, <3>4, <3>5, <3>6 DEF Step
    <2>3. PunchStamp(p) => at'[p] = now
      BY DEF PunchStamp, TypeOK
    <2>. QED  BY <1>1, <1>a, <2>1, <2>2, <2>3, OneAtATime DEF PhonesFit
  <1>2. ASSUME NEW p \in Req, Arrive(p)
        PROVE  \A q \in Req : pc'[q] = "punch_insert" => at'[q] <= now'
    <2>1. PICK c \in Calls : pc' = [pc EXCEPT ![p] = EntryPoint(c)]
      BY <1>2 DEF Arrive, Goto
    <2>2. EntryPoint(c) # "punch_insert"
      BY EntryPointFits DEF EntryPoint, BulkEntryPoint, Call
    <2>. QED  BY <1>2, <2>1, <2>2 DEF Arrive, local, PhonesFit, TypeOK
  <1>3. CASE Tick \/ UNCHANGED vars
    BY <1>3, <1>a DEF Tick, vars, db, local, PhonesFit
  <1>4. now' \in Nat /\ now <= now'
    <2>1. ASSUME NEW p \in Req, Step(p) \/ Abort(p) PROVE now' = now
      BY <2>1, OneAtATime
    <2>2. ASSUME NEW p \in Req, Arrive(p) PROVE now' = now
      BY <2>2 DEF Arrive
    <2>. QED  BY <1>a, <2>1, <2>2 DEF Next, Rest, Tick, vars
  <1>5. \A l \in logs' : l.by = "phone" => l.time <= now'
    <2>1. CASE UNCHANGED <<logs, voided>>
      BY <1>a, <1>4, <2>1 DEF PhonesFit
    <2>2. ASSUME NEW p \in Req, NEW time, BulkInsert(p, time)
          PROVE  \A l \in logs' : l.by = "phone" => l.time <= now'
      BY <1>a, <1>4, <2>2 DEF BulkInsert, NewLog, PhonesFit
    <2>3. ASSUME NEW p \in Req, PunchInsert(p)
          PROVE  \A l \in logs' : l.by = "phone" => l.time <= now'
      <3>1. at[p] <= now /\ now' = now
        BY <2>3 DEF PunchInsert, PhonesFit
      <3>. QED  BY <2>3, <3>1 DEF PunchInsert, NewLog, PhonesFit
    <2>4. ASSUME NEW p \in Req, OverrideInsert(p)
          PROVE  \A l \in logs' : l.by = "phone" => l.time <= now'
      BY <1>a, <1>4, <2>4 DEF OverrideInsert, NewLog, PhonesFit
    <2>. QED  BY <2>1, <2>2, <2>3, <2>4, LogStep
  <1>. QED  BY <1>1, <1>2, <1>3, <1>5 DEF PhonesFit, Next, Rest

-----------------------------------------------------------------------------
(* What a request that runs alone has done, step by step.                  *)

LEMMA SameLog ==
  ASSUME UNCHANGED <<logs, voided>>
  PROVE  /\ Live' = Live /\ LiveTimes' = LiveTimes
         /\ FirstClockIn' = FirstClockIn /\ LastClockOut' = LastClockOut
  <1>1. Live' = Live
    BY DEF Live
  <1>. QED  BY <1>1 DEF LiveTimes, FirstClockIn, LastClockOut

\* The first clock-in is missing exactly on a day without live logs.
LEMMA NoLiveNoTimes ==
  ASSUME IndInv
  PROVE  /\ None \in FirstClockIn => Live = {}
         /\ None \in LastClockOut => Live = {}
         /\ Live = {} => FirstClockIn = {None} /\ LastClockOut = {None}
  BY RulesAssumption DEF FirstClockIn, LastClockOut, Time

\* A day is left unjudged only without leave and without times.
LEMMA NoStatus ==
  ASSUME NEW first, NEW last, NEW leave, CalculateStatus(first, last, leave, Kind) = None
  PROVE  first = None /\ last = None /\ leave = None
  BY DayAssumption DEF CalculateStatus, TimingStatus, Statuses, PunchedStatuses

\* A day without live logs has never counted one, and its row shows no times.
LEMMA NoLiveNoRowTimes ==
  ASSUME IndInv, CountedStay, Live = {}, row # None
  PROVE  row.first = None /\ row.last = None
  BY DEF IndInv, CarriedTimesFit, TimesFit, CountedTimes, CountedStay, Opt

\* The UPDATE of an object that is as stored stores what was set on it.
LEMMA UpdatedAlone ==
  ASSUME NEW new \in Row, NEW stored \in Row
  PROVE  Updated(stored, new, stored) = new
  <1>1. /\ Changed(stored.first, new.first, stored.first) = new.first
        /\ Changed(stored.last, new.last, stored.last) = new.last
        /\ Changed(stored.status, new.status, stored.status) = new.status
        /\ Changed(stored.leave, new.leave, stored.leave) = new.leave
        /\ Changed(stored.remark, new.remark, stored.remark) = new.remark
        /\ Changed(stored.ot, new.ot, stored.ot) = new.ot
        /\ Changed(stored.late, new.late, stored.late) = new.late
    BY DEF Changed
  <1>2. Updated(stored, new, stored) =
          [first |-> new.first, last |-> new.last, status |-> new.status, leave |-> new.leave,
           remark |-> new.remark, ot |-> new.ot, late |-> new.late]
    BY <1>1 DEF Updated
  <1>. QED  BY <1>2 DEF Row

\* What the parts say of a request that is not at a summary.
LEMMA NotSummarizing ==
  ASSUME NEW p \in Req, pc'[p] \notin {"read_first", "read_last", "select", "write"}
  PROVE  Recomputing(p)' /\ MarkingAbsent(p)'
  BY DEF Recomputing, MarkingAbsent

LEMMA PunchCheckAlone ==
  ASSUME NEW p \in Req, IndInv, AloneInv, solo[p], PunchCheck(p)
  PROVE  SoFar(p)'
  <1>1. CASE Finish(p, "rejected", None)
    BY <1>1, FinishEnds DEF IndInv, Finished, SoFar
  <1>2. CASE ~Finish(p, "rejected", None)
    <2>1. /\ \A l \in Live : ~TooClose(now, l.time)
          /\ pc'[p] = "punch_stamp" /\ UNCHANGED <<logs, voided>> /\ now' = now /\ call' = call
      BY <1>2 DEF IndInv, TypeOK, PunchCheck, Goto, db
    <2>2. call[p].kind = "punch"
      BY DEF AloneInv, StagesFit, StageFits, PunchCheck
    <2>3. \A m \in Live : m.by = "phone" => now - m.time >= DupWindow
      <3> TAKE m \in Live
      <3>1. now \in Nat /\ m.time \in Nat /\ DupWindow \in Nat /\ m \in logs
        BY DayAssumption DEF IndInv, TypeOK, Time, Log, Live
      <3>2. m.by = "phone" => m.time <= now
        BY <3>1 DEF AloneInv, PhonesFit
      <3>. QED  BY <2>1, <3>1, <3>2, DayAssumption DEF TooClose
    <2>4. Recomputing(p)' /\ MarkingAbsent(p)'
      BY <2>1, NotSummarizing
    <2>5. Punching(p)' /\ Overriding(p)'
      BY <2>1, <2>2, <2>3, SameLog DEF Punching, Overriding
    <2>. QED  BY <2>4, <2>5 DEF SoFar
  <1>. QED  BY <1>1, <1>2

LEMMA PunchStampAlone ==
  ASSUME NEW p \in Req, IndInv, AloneInv, solo[p], PunchStamp(p)
  PROVE  SoFar(p)'
  <1>1. /\ pc'[p] = "punch_insert" /\ UNCHANGED <<logs, voided>> /\ call' = call /\ at'[p] = now
        /\ pc[p] = "punch_stamp" /\ Active(p)
    BY DEF IndInv, TypeOK, PunchStamp, Goto, db, Active, Running
  <1>2. call[p].kind = "punch" /\ Punching(p)
    BY <1>1 DEF AloneInv, StagesFit, StageFits, SoFar
  <1>3. Recomputing(p)' /\ MarkingAbsent(p)'
    BY <1>1, NotSummarizing
  <1>4. Punching(p)' /\ Overriding(p)'
    BY <1>1, <1>2, SameLog DEF Punching, Overriding
  <1>. QED  BY <1>3, <1>4 DEF SoFar

LEMMA PunchInsertAlone ==
  ASSUME NEW p \in Req, IndInv, AloneInv, solo[p], PunchInsert(p)
  PROVE  SoFar(p)'
  <1>1. pc'[p] = "punch_judge" /\ call' = call /\ pc[p] = "punch_insert"
    BY DEF IndInv, TypeOK, PunchInsert, Goto
  <1>2. call[p].kind = "punch"
    BY <1>1 DEF AloneInv, StagesFit, StageFits
  <1>3. Live' # {}
    <2>1. nextId \notin voided /\ NewLog(p, at[p], "phone").id = nextId
      BY DEF IndInv, IdsFit, TypeOK, NewLog
    <2>. QED  BY <2>1 DEF Live, PunchInsert
  <1>4. Recomputing(p)' /\ MarkingAbsent(p)'
    BY <1>1, NotSummarizing
  <1>5. Punching(p)' /\ Overriding(p)'
    BY <1>1, <1>2, <1>3 DEF Punching, Overriding
  <1>. QED  BY <1>4, <1>5 DEF SoFar

LEMMA PunchJudgeAlone ==
  ASSUME NEW p \in Req, IndInv, AloneInv, solo[p], PunchJudge(p)
  PROVE  SoFar(p)'
  <1>1. CASE Finish(p, "done", None)
    BY <1>1, FinishEnds DEF IndInv, Finished, SoFar
  <1>2. CASE ~Finish(p, "done", None)
    <2>1. /\ pc'[p] = "read_row" /\ UNCHANGED <<logs, voided>> /\ call' = call
          /\ pc[p] = "punch_judge" /\ Active(p)
      BY <1>2 DEF IndInv, TypeOK, PunchJudge, Goto, db, Active, Running
    <2>2. call[p].kind = "punch" /\ Punching(p)
      BY <2>1 DEF AloneInv, StagesFit, StageFits, SoFar
    <2>3. Recomputing(p)' /\ MarkingAbsent(p)'
      BY <2>1, NotSummarizing
    <2>4. Punching(p)' /\ Overriding(p)'
      BY <2>1, <2>2, SameLog DEF Punching, Overriding
    <2>. QED  BY <2>3, <2>4 DEF SoFar
  <1>. QED  BY <1>1, <1>2

LEMMA ReadRowAlone ==
  ASSUME NEW p \in Req, IndInv, AloneInv, solo[p], ReadRow(p)
  PROVE  SoFar(p)'
  <1>1. /\ pc'[p] = "read_first" /\ UNCHANGED <<logs, voided, row>> /\ call' = call
        /\ copy'[p] = row /\ pay'[p] = Kept(row) /\ stage'[p] = "calc"
        /\ pc[p] = "read_row" /\ Active(p)
    BY DEF IndInv, TypeOK, ReadRow, Goto, db, Active, Running
  <1>2. Punching(p) /\ Overriding(p)
    BY <1>1 DEF AloneInv, SoFar
  <1>3. Recomputing(p)' /\ MarkingAbsent(p)'
    BY <1>1 DEF Recomputing, MarkingAbsent, Kept
  <1>4. Punching(p)'
    BY <1>1, <1>2, SameLog DEF Punching
  <1>5. Overriding(p)'
    BY <1>1, <1>2, SameLog DEF Overriding, StampedAs, Kept
  <1>. QED  BY <1>3, <1>4, <1>5 DEF SoFar

LEMMA ReadFirstAlone ==
  ASSUME NEW p \in Req, IndInv, AloneInv, solo[p], ReadFirst(p)
  PROVE  SoFar(p)'
  <1>1. PICK t \in FirstClockIn : pay' = [pay EXCEPT ![p].first = t]
    BY DEF ReadFirst
  <1>2. /\ pc'[p] = "read_last" /\ UNCHANGED <<logs, voided, row, stage, copy>> /\ call' = call
        /\ pc[p] = "read_first" /\ Active(p)
    BY DEF IndInv, TypeOK, ReadFirst, Goto, db, Active, Running
  <1>3. Recomputing(p) /\ Punching(p) /\ Overriding(p)
    BY <1>2 DEF AloneInv, SoFar
  <1>4. /\ pay'[p].first = t /\ pay'[p].leave = pay[p].leave /\ pay'[p].remark = pay[p].remark
        /\ pay'[p].ot = pay[p].ot /\ pay'[p].late = pay[p].late
    BY <1>1 DEF IndInv, TypeOK, Row
  <1>5. Recomputing(p)' /\ MarkingAbsent(p)'
    BY <1>2, <1>3, <1>4, SameLog DEF Recomputing, MarkingAbsent, Kept
  <1>6. Punching(p)'
    BY <1>2, <1>3, SameLog DEF Punching
  <1>7. Overriding(p)'
    BY <1>2, <1>3, <1>4, SameLog DEF Overriding, StampedAs, Kept
  <1>. QED  BY <1>5, <1>6, <1>7 DEF SoFar

LEMMA ReadLastAlone ==
  ASSUME NEW p \in Req, IndInv, AloneInv, solo[p], ReadLast(p)
  PROVE  SoFar(p)'
  <1>1. PICK t \in LastClockOut :
          LET status == CalculateStatus(pay[p].first, t, pay[p].leave, Kind)
          IN IF status = None /\ pay[p].ot = None
             THEN NothingToSummarize(p)
             ELSE /\ pay' = [pay EXCEPT ![p].last = t,
                                        ![p].status = IF status = None THEN @ ELSE status]
                  /\ Goto(p, IF copy[p] = None THEN "select" ELSE "write")
                  /\ UNCHANGED <<stage, copy, pend, at, tardy>>
    BY DEF ReadLast
  <1> DEFINE status == CalculateStatus(pay[p].first, t, pay[p].leave, Kind)
  <1>2. /\ UNCHANGED <<logs, voided, row>> /\ call' = call
        /\ pc[p] = "read_last" /\ Active(p)
    BY DEF ReadLast, db, Active, Running
  <1>3. Recomputing(p) /\ Punching(p) /\ Overriding(p) /\ stage[p] = "calc"
    BY <1>2 DEF AloneInv, SoFar, StagesFit, StageFits
  <1>4. CASE status = None /\ pay[p].ot = None
    <2>1. NothingToSummarize(p)
      BY <1>1, <1>4
    <2>2. CASE Finish(p, "done", None)
      BY <2>2, FinishEnds DEF IndInv, Finished, SoFar
    <2>3. CASE ~Finish(p, "done", None)
      <3>1. /\ call[p].kind = "report" /\ stage'[p] = "absent" /\ pc'[p] = "select"
            /\ UNCHANGED <<copy, pay>>
        BY <2>1, <2>3 DEF NothingToSummarize, IndInv, TypeOK, Goto
      <3>2. pay[p].first = None /\ pay[p].leave = None
        BY <1>4, NoStatus
      <3>3. Live = {}
        BY <1>2, <1>3, <3>2, NoLiveNoTimes DEF Recomputing
      <3>4. row # None => row.leave = None /\ row.ot = None
        BY <1>2, <1>3, <1>4, <3>2 DEF Recomputing, Kept
      <3>5. MarkingAbsent(p)'
        BY <1>2, <3>1, <3>3, <3>4, SameLog DEF MarkingAbsent
      <3>6. Recomputing(p)' /\ Punching(p)' /\ Overriding(p)'
        BY <1>2, <3>1 DEF Recomputing, Punching, Overriding
      <3>. QED  BY <3>5, <3>6 DEF SoFar
    <2>. QED  BY <2>2, <2>3
  <1>5. CASE ~(status = None /\ pay[p].ot = None)
    <2>1. /\ pay' = [pay EXCEPT ![p].last = t,
                                ![p].status = IF status = None THEN @ ELSE status]
          /\ pc'[p] = IF copy[p] = None THEN "select" ELSE "write"
          /\ UNCHANGED <<stage, copy>>
      BY <1>1, <1>5 DEF IndInv, TypeOK, Goto
    <2>2. /\ pay'[p].last = t /\ pay'[p].first = pay[p].first /\ pay'[p].leave = pay[p].leave
          /\ pay'[p].remark = pay[p].remark /\ pay'[p].ot = pay[p].ot /\ pay'[p].late = pay[p].late
          /\ status # None => pay'[p].status = status
      BY <2>1 DEF IndInv, TypeOK, Row
    <2>3. LET s == CalculateStatus(pay'[p].first, pay'[p].last, pay'[p].leave, Kind)
          IN IF s = None THEN pay'[p].ot # None ELSE pay'[p].status = s
      BY <1>5, <2>2
    <2> HIDE DEF status
    <2>4. Recomputing(p)'
      BY <1>2, <1>3, <2>1, <2>2, <2>3, SameLog DEF Recomputing, Kept
    <2>5. MarkingAbsent(p)'
      BY <1>3, <2>1 DEF MarkingAbsent
    <2>6. Punching(p)'
      BY <1>2, <1>3, <2>1, SameLog DEF Punching
    <2>7. Overriding(p)'
      BY <1>2, <1>3, <2>1, <2>2, SameLog DEF Overriding, StampedAs, Kept
    <2>. QED  BY <2>4, <2>5, <2>6, <2>7 DEF SoFar
  <1>. QED  BY <1>4, <1>5

LEMMA UpsertSelectAlone ==
  ASSUME NEW p \in Req, IndInv, AloneInv, solo[p], UpsertSelect(p)
  PROVE  SoFar(p)'
  <1>1. /\ UNCHANGED <<logs, voided, row, stage>> /\ call' = call
        /\ pc[p] = "select" /\ Active(p) /\ pc'[p] = "write" /\ copy'[p] = row
        /\ pay'[p] = IF stage[p] # "absent" THEN pay[p]
                     ELSE IF row = None THEN AbsentRow
                     ELSE [AbsentRow EXCEPT !.ot = row.ot, !.late = row.late]
    BY DEF IndInv, TypeOK, UpsertSelect, Goto, db, Active, Running
  <1>2. Recomputing(p) /\ MarkingAbsent(p) /\ Punching(p) /\ Overriding(p)
        /\ stage[p] \in {"calc", "place", "absent"}
    BY <1>1 DEF AloneInv, SoFar, StagesFit, StageFits
  <1>3. Recomputing(p)'
    BY <1>1, <1>2, SameLog DEF Recomputing, Kept
  <1>4. MarkingAbsent(p)'
    BY <1>1, <1>2, SameLog DEF MarkingAbsent
  <1>5. Punching(p)'
    BY <1>1, <1>2, SameLog DEF Punching
  <1>6. Overriding(p)'
    BY <1>1, <1>2, SameLog DEF Overriding, StampedAs, Kept
  <1>. QED  BY <1>3, <1>4, <1>5, <1>6 DEF SoFar

\* Stamping sets the columns the entry gives, and marks a bare day absent.
LEMMA StampedSets ==
  ASSUME NEW e, NEW r \in Row,
         r.status = "ABSENT"
           \/ (Live = {} => ~SetsPunches(e) /\ r.first = None /\ r.last = None)
  PROVE  StampedAs(e, Stamped(e, r))
  <1>1. ColumnsSet(e, Stamped(e, r))
    BY DEF ColumnsSet, Stamped, Asked
  <1>2. Stamped(e, r).leave = None /\ Live = {} => Stamped(e, r).status = "ABSENT"
    BY DEF Stamped
  <1>. QED  BY <1>1, <1>2 DEF StampedAs

\* Alone, an upsert stores exactly the values it was called with.
LEMMA WriteAlone ==
  ASSUME NEW p \in Req, IndInv, AloneInv, solo[p], UpsertWrite(p)
  PROVE  /\ Recomputing(p) /\ MarkingAbsent(p) /\ Punching(p) /\ Overriding(p) /\ StageFits(p)
         /\ copy[p] = row /\ row' = pay[p] /\ AfterWrite(p)
         /\ pay[p] \in Row /\ row \in Opt(Row)
  <1>1. pc[p] = "write" /\ Active(p)
    BY DEF UpsertWrite, Active, Running
  <1>2. /\ Recomputing(p) /\ MarkingAbsent(p) /\ Punching(p) /\ Overriding(p)
        /\ StageFits(p)
    BY <1>1 DEF AloneInv, SoFar, StagesFit
  <1>3. stage[p] \in Stages /\ pay[p] \in Row /\ row \in Opt(Row)
    BY DEF IndInv, TypeOK
  <1>4. copy[p] = row
    <2>1. CASE stage[p] = "calc"
      BY <1>1, <1>2, <2>1 DEF Recomputing
    <2>2. CASE stage[p] = "absent"
      BY <1>1, <1>2, <2>2 DEF MarkingAbsent
    <2>3. CASE stage[p] = "late"
      BY <1>1, <1>2, <2>3 DEF Punching, StageFits
    <2>4. CASE stage[p] \in {"stamp", "place"}
      BY <1>1, <1>2, <2>4 DEF Overriding, StageFits
    <2>. QED  BY <1>3, <2>1, <2>2, <2>3, <2>4 DEF Stages
  <1>5. row' = pay[p] /\ AfterWrite(p)
    <2>1. CASE row = None
      BY <1>4, <2>1 DEF UpsertWrite
    <2>2. CASE row # None
      <3>1. row \in Row
        BY <1>3, <2>2 DEF Opt
      <3>. QED  BY <1>3, <1>4, <2>2, <3>1, UpdatedAlone DEF UpsertWrite
    <2>. QED  BY <2>1, <2>2
  <1>. QED  BY <1>2, <1>3, <1>4, <1>5

LEMMA UpsertWriteAlone ==
  ASSUME NEW p \in Req, IndInv, AloneInv, solo[p], UpsertWrite(p)
  PROVE  SoFar(p)'
  <1>1. /\ UNCHANGED <<logs, voided>> /\ call' = call /\ pc[p] = "write" /\ Active(p)
    BY DEF UpsertWrite, Active, Running
  <1>2. /\ Recomputing(p) /\ MarkingAbsent(p) /\ Punching(p) /\ Overriding(p) /\ StageFits(p)
        /\ copy[p] = row /\ row' = pay[p] /\ AfterWrite(p)
        /\ pay[p] \in Row /\ row \in Opt(Row)
    BY WriteAlone
  <1>3. CASE Finish(p, "done", None)
    BY <1>3, FinishEnds DEF IndInv, Finished, SoFar
  <1>4. CASE /\ pc'[p] = "refresh" /\ UNCHANGED local
             /\ stage[p] = "stamp"
    <2>1. call[p].kind = "bulk"
      BY <1>1, <1>2, <1>4 DEF StageFits
    <2> DEFINE e == call[p].entry
    <2>2. row # None /\ pay[p] = Stamped(e, row) /\ (SetsPunches(e) => LiveTimes = TimesOf(e))
      BY <1>1, <1>2, <1>4, <2>1 DEF Overriding
    <2>3. Live = {} => ~SetsPunches(e) /\ row.first = None /\ row.last = None
      BY <2>2, NoLiveNoRowTimes DEF AloneInv, LiveTimes, TimesOf, SetsPunches
    <2>4. StampedAs(e, pay[p])
      BY <1>2, <2>2, <2>3, StampedSets DEF Opt
    <2>5. StampedAs(e, Kept(row))'
      BY <1>1, <1>2, <2>4, SameLog, DayAssumption DEF StampedAs, ColumnsSet, Kept
    <2>6. Overriding(p)'
      BY <1>1, <1>4, <2>1, <2>2, <2>5, SameLog DEF Overriding
    <2>. QED  BY <1>1, <1>4, <2>1, <2>6, NotSummarizing DEF SoFar, Punching
  <1>5. CASE /\ pc'[p] = "refresh" /\ UNCHANGED local
             /\ stage[p] = "late" \/ (stage[p] = "calc" /\ call[p].kind = "punch")
    <2>1. call[p].kind = "punch" /\ Live # {}
      BY <1>1, <1>2, <1>5 DEF StageFits, Punching
    <2>2. stage[p] = "late" => row # None /\ row'.late = call[p].lateReason
      BY <1>1, <1>2, <2>1 DEF Punching, Opt, Row
    <2>3. Punching(p)'
      BY <1>1, <1>5, <2>1, <2>2, SameLog DEF Punching, local
    <2>. QED  BY <1>1, <1>5, <2>1, <2>3, NotSummarizing DEF SoFar, Overriding
  <1>6. CASE /\ pc'[p] = "read_row" /\ UNCHANGED local
             /\ stage[p] = "place"
    <2>1. call[p].kind = "bulk"
      BY <1>1, <1>2, <1>6 DEF StageFits
    <2> DEFINE e == call[p].entry
    <2>2. pay[p] = Stamped(e, AbsentRow) /\ (SetsPunches(e) => LiveTimes = TimesOf(e))
      BY <1>1, <1>2, <1>6, <2>1 DEF Overriding
    <2>3. StampedAs(e, pay[p])
      BY <2>2, AbsentRowIsRow, StampedSets DEF AbsentRow
    <2>4. StampedAs(e, Kept(row))'
      BY <1>1, <1>2, <2>3, SameLog, DayAssumption DEF StampedAs, ColumnsSet, Kept
    <2>5. Overriding(p)'
      BY <1>1, <1>6, <2>1, <2>2, <2>4, SameLog DEF Overriding
    <2>. QED  BY <1>1, <1>6, <2>1, <2>5, NotSummarizing DEF SoFar, Punching
  <1>7. \/ Finish(p, "done", None)
        \/ pc'[p] = "refresh" /\ UNCHANGED local /\ stage[p] = "stamp"
        \/ /\ pc'[p] = "refresh" /\ UNCHANGED local
           /\ stage[p] = "late" \/ (stage[p] = "calc" /\ call[p].kind = "punch")
        \/ pc'[p] = "read_row" /\ UNCHANGED local /\ stage[p] = "place"
    <2>1. AfterWrite(p)
      BY <1>2
    <2>2. \/ Finish(p, "done", None)
          \/ Goto(p, "refresh") /\ UNCHANGED local /\ stage[p] = "stamp"
          \/ /\ Goto(p, "refresh") /\ UNCHANGED local
             /\ stage[p] = "late" \/ (stage[p] = "calc" /\ call[p].kind = "punch")
          \/ Goto(p, "read_row") /\ UNCHANGED local /\ stage[p] = "place"
      <3>1. CASE stage[p] \in {"stamp", "late"}
        BY <2>1, <3>1 DEF AfterWrite
      <3>2. CASE stage[p] = "place"
        BY <2>1, <3>2 DEF AfterWrite
      <3>3. CASE stage[p] = "calc" /\ call[p].kind = "punch"
        BY <2>1, <3>3 DEF AfterWrite
      <3>4. CASE stage[p] = "absent" \/ (stage[p] = "calc" /\ call[p].kind # "punch")
        BY <2>1, <3>4 DEF AfterWrite
      <3>. QED  BY <3>1, <3>2, <3>3, <3>4 DEF IndInv, TypeOK, Stages
    <2>. QED  BY <2>2 DEF Goto, IndInv, TypeOK
  <1>. QED  BY <1>3, <1>4, <1>5, <1>6, <1>7

LEMMA RefreshAlone ==
  ASSUME NEW p \in Req, IndInv, AloneInv, solo[p], Refresh(p)
  PROVE  SoFar(p)'
  <1>1. /\ UNCHANGED <<logs, voided, row>> /\ call' = call /\ pc[p] = "refresh" /\ Active(p)
    BY DEF Refresh, db, Active, Running
  <1>2. Punching(p) /\ Overriding(p) /\ StageFits(p)
    BY <1>1 DEF AloneInv, SoFar, StagesFit
  <1>3. row # None
    BY <1>1 DEF IndInv, RowsExist
  <1>4. CASE \E answer : Finish(p, "done", answer)
    BY <1>4, FinishEnds DEF IndInv, Finished, SoFar
  <1>5. CASE /\ stage[p] = "stamp"
             /\ copy'[p] = row /\ pay'[p] = row /\ stage'[p] = "calc" /\ pc'[p] = "read_first"
    <2>1. call[p].kind = "bulk"
      BY <1>1, <1>2, <1>5 DEF StageFits
    <2>2. Recomputing(p)' /\ MarkingAbsent(p)' /\ Punching(p)'
      BY <1>1, <1>3, <1>5, <2>1 DEF Recomputing, MarkingAbsent, Punching, Kept
    <2>3. Overriding(p)'
      BY <1>1, <1>2, <1>3, <1>5, <2>1, SameLog DEF Overriding, StampedAs, Kept
    <2>. QED  BY <2>2, <2>3 DEF SoFar
  <1>6. CASE /\ stage[p] = "calc" /\ call[p].lateReason # None
             /\ copy'[p] = row /\ pay'[p] = [row EXCEPT !.late = call[p].lateReason]
             /\ stage'[p] = "late" /\ pc'[p] = "write"
    <2>1. call[p].kind = "punch" /\ Live # {}
      BY <1>1, <1>2, <1>6 DEF StageFits, Punching
    <2>2. Recomputing(p)' /\ MarkingAbsent(p)' /\ Overriding(p)'
      BY <1>1, <1>6, <2>1 DEF Recomputing, MarkingAbsent, Overriding
    <2>3. Punching(p)'
      BY <1>1, <1>3, <1>6, <2>1, SameLog DEF Punching
    <2>. QED  BY <2>2, <2>3 DEF SoFar
  <1>. QED  BY <1>4, <1>5, <1>6 DEF Refresh, PunchAnswer, Goto, IndInv, TypeOK

LEMMA BulkMarkAlone ==
  ASSUME NEW p \in Req, IndInv, AloneInv, solo[p], BulkMark(p)
  PROVE  SoFar(p)'
  <1>1. /\ UNCHANGED <<logs, voided>> /\ call' = call /\ pc[p] = "mark"
        /\ pend'[p] = {l.id : l \in Live}
        /\ pc'[p] = IF call[p].entry.in # None THEN "insert_in" ELSE "insert_out"
    BY DEF BulkMark, Goto, db, IndInv, TypeOK
  <1>2. call[p].kind = "bulk"
    BY <1>1 DEF AloneInv, StagesFit, StageFits
  <1>3. Overriding(p)'
    BY <1>1, <1>2, SameLog DEF Overriding
  <1>. QED  BY <1>1, <1>2, <1>3, NotSummarizing DEF SoFar, Punching

\* A bulk insert that commits the flags of all live logs leaves its own alone.
LEMMA InsertFlagging ==
  ASSUME NEW p \in Req, IndInv, NEW time, BulkInsert(p, time), pend[p] = {l.id : l \in Live}
  PROVE  LiveTimes' = {time}
  <1>1. nextId \notin voided \union pend[p]
    BY DEF IndInv, IdsFit, TypeOK
  <1>2. Live' = {NewLog(p, time, "bulk")}
    <2>1. NewLog(p, time, "bulk") \in Live'
      BY <1>1 DEF Live, BulkInsert, NewLog
    <2>2. \A l \in logs : l.id \in voided'
      BY DEF BulkInsert, Live
    <2>. QED  BY <2>1, <2>2 DEF Live, BulkInsert
  <1>. QED  BY <1>2 DEF LiveTimes, NewLog

\* One that commits no flags adds its own to what counts.
LEMMA InsertAdding ==
  ASSUME NEW p \in Req, IndInv, NEW time, BulkInsert(p, time), pend[p] = {}
  PROVE  LiveTimes' = LiveTimes \union {time}
  <1>1. nextId \notin voided
    BY DEF IndInv, IdsFit, TypeOK
  <1> DEFINE new == NewLog(p, time, "bulk")
  <1>2. Live' = Live \union {new}
    BY <1>1 DEF Live, BulkInsert, NewLog
  <1>3. new.time = time
    BY DEF NewLog
  <1> HIDE DEF new
  <1>. QED  BY <1>2, <1>3 DEF LiveTimes

LEMMA BulkInsertInAlone ==
  ASSUME NEW p \in Req, IndInv, AloneInv, solo[p], BulkInsertIn(p)
  PROVE  SoFar(p)'
  <1> DEFINE e == call[p].entry
  <1>1. /\ BulkInsert(p, e.in) /\ call' = call /\ pc[p] = "insert_in" /\ Active(p) /\ row' = row
        /\ pend'[p] = {}
        /\ pc'[p] = IF e.out # None THEN "insert_out" ELSE AfterPunches(e)
    BY DEF BulkInsertIn, BulkInsert, Goto, Active, Running, IndInv, TypeOK
  <1>2. Overriding(p) /\ call[p].kind = "bulk" /\ e.in # None
    BY <1>1 DEF AloneInv, SoFar, StagesFit, StageFits, IndInv, CallsFit
  <1>3. LiveTimes' = {e.in}
    BY <1>1, <1>2, InsertFlagging DEF Overriding
  <1>4. pc'[p] \in {"insert_out", "stamp_read", "read_row"}
    BY <1>1 DEF AfterPunches
  <1>5. pc'[p] # "insert_out" => TimesOf(e) = {e.in}
    BY <1>1, <1>2 DEF TimesOf, AfterPunches
  <1>6. pc'[p] = "read_row" => ~SetsColumns(e)
    BY <1>1 DEF AfterPunches
  <1>7. pc'[p] = "read_row" => StampedAs(e, Kept(row))'
    <2>1. Live' # {}
      BY <1>3 DEF LiveTimes
    <2>. QED  BY <1>1, <1>6, <2>1 DEF StampedAs, ColumnsSet, SetsColumns
  <1>8. Overriding(p)'
    BY <1>1, <1>2, <1>3, <1>4, <1>5, <1>7 DEF Overriding
  <1>. QED  BY <1>1, <1>2, <1>4, <1>8, NotSummarizing DEF SoFar, Punching

LEMMA BulkInsertOutAlone ==
  ASSUME NEW p \in Req, IndInv, AloneInv, solo[p], BulkInsertOut(p)
  PROVE  SoFar(p)'
  <1> DEFINE e == call[p].entry
  <1>1. /\ BulkInsert(p, e.out) /\ call' = call /\ pc[p] = "insert_out" /\ Active(p) /\ row' = row
        /\ pc'[p] = AfterPunches(e)
    BY DEF BulkInsertOut, BulkInsert, Goto, Active, Running, IndInv, TypeOK
  <1>2. Overriding(p) /\ call[p].kind = "bulk" /\ e.out # None
    BY <1>1 DEF AloneInv, SoFar, StagesFit, StageFits, IndInv, CallsFit
  <1>3. LiveTimes' = TimesOf(e)
    <2>1. CASE e.in = None
      BY <1>1, <1>2, <2>1, InsertFlagging DEF Overriding, TimesOf
    <2>2. CASE e.in # None
      <3>1. pend[p] = {} /\ LiveTimes = {e.in}
        BY <1>1, <1>2, <2>2 DEF Overriding
      <3>. QED  BY <1>1, <1>2, <2>2, <3>1, InsertAdding DEF TimesOf
    <2>. QED  BY <2>1, <2>2
  <1>4. pc'[p] \in {"stamp_read", "read_row"}
    BY <1>1 DEF AfterPunches
  <1>5. pc'[p] = "read_row" => ~SetsColumns(e)
    BY <1>1 DEF AfterPunches
  <1>6. pc'[p] = "read_row" => StampedAs(e, Kept(row))'
    <2>1. Live' # {}
      BY <1>2, <1>3 DEF LiveTimes, TimesOf
    <2>. QED  BY <1>1, <1>5, <2>1 DEF StampedAs, ColumnsSet, SetsColumns
  <1>7. Overriding(p)'
    BY <1>1, <1>2, <1>3, <1>4, <1>6 DEF Overriding
  <1>. QED  BY <1>1, <1>2, <1>4, <1>7, NotSummarizing DEF SoFar, Punching

LEMMA StampReadAlone ==
  ASSUME NEW p \in Req, IndInv, AloneInv, solo[p], StampRead(p)
  PROVE  SoFar(p)'
  <1> DEFINE e == call[p].entry
  <1>1. /\ UNCHANGED <<logs, voided, row>> /\ call' = call /\ pc[p] = "stamp_read" /\ Active(p)
    BY DEF StampRead, db, Active, Running
  <1>2. Overriding(p) /\ call[p].kind = "bulk"
    BY <1>1 DEF AloneInv, SoFar, StagesFit, StageFits
  <1>3. SetsPunches(e) => LiveTimes = TimesOf(e)
    BY <1>1, <1>2 DEF Overriding
  <1>4. CASE /\ row # None /\ copy'[p] = row /\ pay'[p] = Stamped(e, row)
             /\ stage'[p] = "stamp" /\ pc'[p] = "write"
    <2>1. Overriding(p)'
      BY <1>1, <1>2, <1>3, <1>4, SameLog DEF Overriding
    <2>. QED  BY <1>1, <1>2, <1>4, <2>1 DEF SoFar, Punching, Recomputing, MarkingAbsent
  <1>5. CASE /\ row = None /\ pay'[p] = Stamped(e, AbsentRow) /\ copy' = copy
             /\ stage'[p] = "place" /\ pc'[p] = "select"
    <2>1. copy[p] = None
      BY <1>5 DEF IndInv, RowsExist
    <2>2. Overriding(p)'
      BY <1>1, <1>2, <1>3, <1>5, <2>1, SameLog DEF Overriding
    <2>. QED  BY <1>1, <1>2, <1>5, <2>2 DEF SoFar, Punching, Recomputing, MarkingAbsent
  <1>6. CASE /\ row = None /\ pc'[p] = "read_row"
             /\ {e.leave, e.remark, e.ot, e.late} \ {None, Unset} = {}
    <2>1. StampedAs(e, AbsentRow)
      BY <1>6 DEF StampedAs, ColumnsSet, AbsentRow
    <2>2. Overriding(p)'
      BY <1>1, <1>2, <1>3, <1>6, <2>1, SameLog DEF Overriding, StampedAs, Kept
    <2>. QED  BY <1>1, <1>2, <1>6, <2>2, NotSummarizing DEF SoFar, Punching
  <1>. QED  BY <1>4, <1>5, <1>6 DEF StampRead, Goto, IndInv, TypeOK

LEMMA OtherCallsAlone ==
  ASSUME NEW p \in Req, IndInv, AloneInv, solo[p],
         OverrideInsert(p) \/ ReasonCheck(p) \/ ReasonInsert(p)
  PROVE  SoFar(p)'
  <1>1. CASE \E o \in Finished : Finish(p, o, None)
    BY <1>1, FinishEnds DEF IndInv, SoFar
  <1>2. CASE ReasonCheck(p) /\ pc'[p] = "reason_insert"
    <2>1. call' = call /\ call[p].kind = "reason"
      BY <1>2 DEF ReasonCheck, AloneInv, StagesFit, StageFits
    <2>. QED  BY <1>2, <2>1, NotSummarizing DEF SoFar, Punching, Overriding
  <1>. QED  BY <1>1, <1>2 DEF OverrideInsert, ReasonCheck, ReasonInsert, Finished, Goto, IndInv, TypeOK

LEMMA StepAlone ==
  ASSUME NEW p \in Req, IndInv, AloneInv, solo[p], Step(p) \/ Abort(p)
  PROVE  SoFar(p)'
  <1>1. CASE Abort(p)
    BY <1>1, FinishEnds DEF Abort, IndInv, Finished, SoFar
  <1>2. CASE Step(p)
    BY <1>2, PunchCheckAlone, PunchStampAlone, PunchInsertAlone, PunchJudgeAlone, ReadRowAlone,
       ReadFirstAlone, ReadLastAlone, UpsertSelectAlone, UpsertWriteAlone, RefreshAlone,
       BulkMarkAlone, BulkInsertInAlone, BulkInsertOutAlone, StampReadAlone, OtherCallsAlone
       DEF Step
  <1>. QED  BY <1>1, <1>2

\* A request that has just arrived has done nothing yet.
LEMMA ArriveAlone ==
  ASSUME NEW p \in Req, IndInv, Arrive(p)
  PROVE  \A q \in Req : SoFar(q)'
  <1>1. PICK c \in Calls : call' = [call EXCEPT ![p] = c] /\ pc' = [pc EXCEPT ![p] = EntryPoint(c)]
    BY DEF Arrive, Goto
  <1>2. \A q \in Req : q # p => ~solo'[q]
    BY DEF Arrive
  <1>3. /\ c.kind \in {"punch", "bulk", "override", "report", "reason"}
        /\ pc'[p] = EntryPoint(c) /\ call'[p] = c
    BY <1>1, EntryPointFits DEF IndInv, TypeOK, Call
  <1>4. CASE c.kind = "bulk"
    <2>1. \/ pc'[p] \in Finished
          \/ pc'[p] = "mark"
          \/ pc'[p] = "stamp_read" /\ ~SetsPunches(c.entry)
      BY <1>3, <1>4 DEF EntryPoint, BulkEntryPoint, Finished
    <2>2. CASE pc'[p] \in Finished
      BY <1>2, <2>2 DEF SoFar, Active, Running, Finished
    <2>3. CASE pc'[p] = "mark" \/ (pc'[p] = "stamp_read" /\ ~SetsPunches(c.entry))
      <3>1. Overriding(p)' /\ Punching(p)'
        BY <1>3, <1>4, <2>3 DEF Overriding, Punching
      <3>. QED  BY <1>2, <2>3, <3>1, NotSummarizing DEF SoFar
    <2>. QED  BY <2>1, <2>2, <2>3
  <1>5. CASE c.kind # "bulk"
    <2>1. \/ pc'[p] = "rejected"
          \/ pc'[p] = "punch_check" /\ c.kind = "punch"
          \/ pc'[p] \in {"override_insert", "read_row", "reason_check"} /\ c.kind # "punch"
      BY <1>3, <1>5 DEF EntryPoint
    <2>2. CASE pc'[p] = "rejected"
      BY <1>2, <2>2 DEF SoFar, Active, Running
    <2>3. CASE pc'[p] # "rejected"
      <3>1. Overriding(p)' /\ Punching(p)'
        BY <1>3, <1>5, <2>1, <2>3 DEF Overriding, Punching
      <3>2. Recomputing(p)' /\ MarkingAbsent(p)'
        BY <2>1, <2>3, NotSummarizing
      <3>. QED  BY <1>2, <3>1, <3>2 DEF SoFar
    <2>. QED  BY <2>2, <2>3
  <1>. QED  BY <1>4, <1>5

\* What holds of what is unchanged.
LEMMA NothingAlone ==
  ASSUME NEW p \in Req, SoFar(p), IndInv, PhonesFit,
         UNCHANGED <<db, pc, call, local, solo>>, UNCHANGED now \/ Tick
  PROVE  SoFar(p)'
  <1>1. UNCHANGED <<logs, voided, row, pc, call, stage, copy, pay, pend, at>>
    BY DEF db, local
  <1>2. CASE ~(solo[p] /\ Active(p))
    BY <1>1, <1>2 DEF SoFar, Active
  <1>3. CASE solo[p] /\ Active(p)
    <2>1. Recomputing(p)' /\ MarkingAbsent(p)'
      BY <1>1, <1>3, SameLog DEF SoFar, Recomputing, MarkingAbsent
    <2>2. Overriding(p)'
      BY <1>1, <1>3, SameLog DEF SoFar, Overriding, StampedAs
    <2>3. \A m \in Live : now - m.time >= DupWindow => now' - m.time >= DupWindow
      <3> TAKE m \in Live
      <3>1. now \in Nat /\ m.time \in Nat /\ DupWindow \in Nat
        BY DayAssumption DEF IndInv, TypeOK, Time, Log, Live
      <3>. QED  BY <3>1 DEF Tick
    <2>4. Punching(p)'
      BY <1>1, <1>3, <2>3, SameLog DEF SoFar, Punching
    <2>. QED  BY <2>1, <2>2, <2>4 DEF SoFar
  <1>. QED  BY <1>2, <1>3

\* What a lone request has done so far survives every step of the system.
LEMMA AloneNext ==
  ASSUME IndInv, AloneInv, [Next]_vars
  PROVE  AloneInv'
  <1>1. Alone' /\ StagesFit' /\ CountedStay' /\ PhonesFit'
    BY AloneStays, StagesStay, CountedStays, PhonesStay DEF AloneInv
  <1>2. ASSUME NEW q \in Req, Step(q) \/ Abort(q)
        PROVE  \A p \in Req : SoFar(p)'
    <2> TAKE p \in Req
    <2>1. Active(q) /\ solo' = solo /\ \A r \in Req : r # q => pc'[r] = pc[r]
      BY <1>2, OneAtATime DEF IndInv
    <2>2. CASE solo[p] /\ p = q
      BY <1>2, <2>2, StepAlone
    <2>3. CASE solo[p] /\ p # q
      BY <2>1, <2>3 DEF AloneInv, Alone
    <2>4. CASE ~solo[p]
      BY <2>1, <2>4 DEF SoFar
    <2>. QED  BY <2>2, <2>3, <2>4
  <1>3. ASSUME NEW q \in Req, Arrive(q)
        PROVE  \A p \in Req : SoFar(p)'
    BY <1>3, ArriveAlone
  <1>4. ASSUME Tick \/ UNCHANGED vars
        PROVE  AloneInv'
    <2>1. UNCHANGED <<db, pc, call, local, solo>> /\ (UNCHANGED now \/ Tick)
      BY <1>4 DEF Tick, vars, db, local
    <2>2. PhonesFit /\ \A p \in Req : SoFar(p)
      BY DEF AloneInv
    <2>3. \A p \in Req : SoFar(p)'
      BY <2>1, <2>2, NothingAlone
    <2>. QED  BY <1>1, <2>3 DEF AloneInv
  <1>. QED  BY <1>1, <1>2, <1>3, <1>4 DEF AloneInv, Next, Rest

\* What a request that runs alone has done so far, in every reachable state.
THEOREM AloneInvariance == Spec => []AloneInv
  <1>1. Init => IndInv /\ AloneInv
    BY InitInv, AloneInit
  <1>2. IndInv /\ AloneInv /\ [Next]_vars => (IndInv /\ AloneInv)'
    BY NextInv, AloneNext
  <1>. QED  BY <1>1, <1>2, PTL DEF Spec

-----------------------------------------------------------------------------
(* What one request achieves when no other request overlaps it.            *)

\* While a request is alone, only its own steps touch the database.
LEMMA LoneStep ==
  ASSUME NEW p \in Req, IndInv, Alone, [Next]_vars, solo[p]
  PROVE  Step(p) \/ Abort(p) \/ (UNCHANGED db /\ pc'[p] = pc[p])
  <1>1. ASSUME NEW q \in Req, q # p
        PROVE  ~Step(q) /\ ~Abort(q)
    BY <1>1, OneAtATime DEF Alone, IndInv
  <1>2. ASSUME NEW q \in Req, Arrive(q)
        PROVE  UNCHANGED db /\ pc'[p] = pc[p]
    <2>1. pc[q] = "idle" /\ pc[p] # "idle"
      BY <1>2 DEF Arrive, Alone
    <2>. QED  BY <1>2, <2>1 DEF Arrive, Goto, IndInv, TypeOK
  <1>3. CASE Tick \/ UNCHANGED vars
    BY <1>3 DEF Tick, vars, db
  <1>. QED  BY <1>1, <1>2, <1>3 DEF Next, Rest

\* The summary row is written by upserts only.
LEMMA RowStep ==
  ASSUME NEW p \in Req, Step(p) \/ Abort(p), ~UpsertWrite(p)
  PROVE  row' = row
  BY DEF Step, Abort, PunchCheck, PunchStamp, PunchInsert, PunchJudge, ReadRow, ReadFirst, ReadLast,
         UpsertSelect, Refresh, BulkMark, BulkInsertIn, BulkInsertOut, BulkInsert, StampRead,
         OverrideInsert, ReasonCheck, ReasonInsert, db

\* The steps that answer a request with success.
LEMMA HowCompleted ==
  ASSUME NEW p \in Req, IndInv, [Next]_vars, Completes(p)
  PROVE  \/ PunchJudge(p) /\ Finish(p, "done", None)
         \/ ReadLast(p) /\ NothingToSummarize(p) /\ Finish(p, "done", None)
         \/ UpsertWrite(p) /\ Finish(p, "done", None)
         \/ Refresh(p) /\ PunchAnswer(p, row)
         \/ OverrideInsert(p) /\ Finish(p, "done", None)
         \/ ReasonInsert(p)
  <1>. USE DEF IndInv
  <1>a. pc[p] \in Running /\ pc'[p] = "done" /\ "done" \notin Running /\ "idle" \notin Running
    BY DEF Completes, Running
  <1>1. ASSUME NEW q \in Req, Step(q) \/ Abort(q)
        PROVE  q = p
    BY <1>1, <1>a, OneAtATime
  <1>2. ASSUME NEW q \in Req, Arrive(q)
        PROVE  FALSE
    BY <1>2, <1>a DEF Arrive, Goto, TypeOK
  <1>3. ~(Tick \/ UNCHANGED vars)
    BY <1>a DEF Tick, vars
  <1>4. ~Abort(p)
    BY <1>a, FinishEnds DEF Abort, Finished
  <1>5. Step(p)
    BY <1>1, <1>2, <1>3, <1>4 DEF Next, Rest
  <1>6. CASE PunchJudge(p)
    BY <1>6, <1>a DEF PunchJudge, Goto, TypeOK
  <1>7. CASE ReadLast(p)
    <2>1. NothingToSummarize(p)
      BY <1>7, <1>a DEF ReadLast, Goto, TypeOK
    <2>2. Finish(p, "done", None)
      BY <2>1, <1>a DEF NothingToSummarize, Goto, TypeOK
    <2>. QED  BY <1>7, <2>1, <2>2
  <1>8. CASE UpsertWrite(p)
    <2>1. ~Finish(p, "failed", None)
      BY <1>a, FinishEnds DEF Finished
    <2>2. AfterWrite(p)
      BY <1>8, <2>1 DEF UpsertWrite
    <2>3. \/ Goto(p, "refresh") \/ Goto(p, "read_row") \/ Finish(p, "done", None)
      BY <2>2 DEF AfterWrite
    <2>. QED  BY <1>8, <1>a, <2>3 DEF Goto, TypeOK
  <1>9. CASE Refresh(p)
    BY <1>9, <1>a DEF Refresh, Goto, TypeOK
  <1>10. CASE OverrideInsert(p)
    BY <1>10 DEF OverrideInsert
  <1>11. CASE PunchCheck(p) \/ PunchStamp(p) \/ PunchInsert(p) \/ ReadRow(p) \/ ReadFirst(p)
    BY <1>11, <1>a DEF PunchCheck, PunchStamp, PunchInsert, ReadRow, ReadFirst, Finish, Goto, TypeOK
  <1>12. CASE UpsertSelect(p) \/ BulkMark(p) \/ BulkInsertIn(p) \/ BulkInsertOut(p) \/ StampRead(p)
              \/ ReasonCheck(p)
    BY <1>12, <1>a DEF UpsertSelect, BulkMark, BulkInsertIn, BulkInsertOut, StampRead, ReasonCheck,
                       AfterPunches, Finish, Goto, TypeOK
  <1>. QED
    BY <1>5, <1>6, <1>7, <1>8, <1>9, <1>10, <1>11, <1>12 DEF Step

\* A punch that runs alone stores no log within the window of an earlier
\* phone punch: the clock between its check and its stamp only adds distance.
THEOREM PunchesAreSpaced == Spec => PunchesSpaced
  <1>1. ASSUME IndInv, AloneInv, [Next]_vars, NEW p \in Req, solo[p], call[p].kind = "punch",
               NEW l \in logs' \ logs, NEW m \in Live, m.by = "phone"
        PROVE  ~TooClose(l.time, m.time)
    <2>1. Step(p) \/ Abort(p)
      BY <1>1, LoneStep DEF AloneInv, db
    <2>2. ~BulkInsertIn(p) /\ ~BulkInsertOut(p) /\ ~OverrideInsert(p)
      BY <1>1 DEF BulkInsertIn, BulkInsertOut, OverrideInsert, AloneInv, StagesFit, StageFits
    <2>3. PunchInsert(p)
      BY <1>1, <2>1, <2>2 DEF Step, Abort, PunchCheck, PunchStamp, PunchJudge, ReadRow, ReadFirst,
         ReadLast, UpsertSelect, UpsertWrite, Refresh, BulkMark, StampRead, ReasonCheck,
         ReasonInsert, db
    <2>4. l.time = at[p]
      BY <1>1, <2>3 DEF PunchInsert, NewLog
    <2>5. at[p] - m.time >= DupWindow
      BY <1>1, <2>3 DEF AloneInv, SoFar, Punching, PunchInsert, Active, Running
    <2>6. at[p] \in Nat /\ m.time \in Nat /\ DupWindow \in Nat
      BY <1>1, DayAssumption DEF IndInv, TypeOK, Time, Log, Live
    <2>. QED  BY <2>4, <2>5, <2>6 DEF TooClose
  <1>2. IndInv /\ AloneInv /\ [Next]_vars => [\A p \in Req : solo[p] /\ call[p].kind = "punch" =>
            \A l \in logs' \ logs, m \in Live :
              m.by = "phone" => ~TooClose(l.time, m.time)]_vars
    BY <1>1
  <1>. QED  BY <1>2, Invariance, AloneInvariance, PTL DEF Spec, PunchesSpaced

\* What the row becomes when a request other than a bulk override, alone,
\* moves.
LEMMA LoneRowChange ==
  ASSUME NEW p \in Req, IndInv, AloneInv, [Next]_vars, solo[p], pc'[p] # pc[p], row # None,
         call[p].kind # "bulk"
  PROVE  /\ row'.leave = row.leave /\ row'.ot = row.ot
         /\ call[p].kind # "punch" => row'.late = row.late
  <1>1. Step(p) \/ Abort(p)
    BY LoneStep DEF AloneInv
  <1>2. CASE ~UpsertWrite(p)
    BY <1>1, <1>2, RowStep
  <1>3. CASE UpsertWrite(p)
    <2>1. /\ Recomputing(p) /\ MarkingAbsent(p) /\ Punching(p) /\ StageFits(p)
          /\ row' = pay[p] /\ pc[p] = "write" /\ row \in Row
      BY <1>3, WriteAlone DEF UpsertWrite, Opt
    <2>2. stage[p] \in {"calc", "late", "absent"}
      BY <2>1 DEF StageFits, IndInv, TypeOK, Stages
    <2>3. CASE stage[p] = "calc"
      BY <2>1, <2>3 DEF Recomputing, Kept
    <2>4. CASE stage[p] = "late"
      BY <2>1, <2>4 DEF Punching, StageFits, Row
    <2>5. CASE stage[p] = "absent"
      BY <2>1, <2>5 DEF MarkingAbsent, AbsentRow
    <2>. QED  BY <2>2, <2>3, <2>4, <2>5
  <1>. QED  BY <1>2, <1>3

\* Recomputing is not editing: a punch or a report that runs alone leaves the
\* row's leave and overtime as they are.
THEOREM RecomputeIsNoEdit == Spec => RecomputeKeepsLeaveAndOvertime
  <1>1. IndInv /\ AloneInv /\ [Next]_vars => [\A p \in Req :
            solo[p] /\ pc'[p] # pc[p] /\ row # None /\ call[p].kind # "bulk" =>
              row'.leave = row.leave /\ row'.ot = row.ot]_vars
    BY LoneRowChange
  <1>. QED  BY <1>1, Invariance, AloneInvariance, PTL DEF Spec, RecomputeKeepsLeaveAndOvertime

\* A punch that runs alone is answered right after it was judged, or with the
\* refreshed row: the day has a live log, so there is something to summarize.
LEMMA HowPunched ==
  ASSUME NEW p \in Req, IndInv, AloneInv, [Next]_vars, solo[p], Completes(p),
         call[p].kind = "punch"
  PROVE  \/ PunchJudge(p) /\ Finish(p, "done", None)
         \/ Refresh(p) /\ PunchAnswer(p, row) /\ (stage[p] = "late" \/ call[p].lateReason = None)
  <1>1. Active(p) /\ pc'[p] = "done"
    BY DEF Completes, Active
  <1>2. Recomputing(p) /\ Punching(p) /\ StageFits(p)
    BY <1>1 DEF AloneInv, SoFar, StagesFit
  <1>3. ~(ReadLast(p) /\ NothingToSummarize(p))
    <2>1. SUFFICES ASSUME ReadLast(p), NothingToSummarize(p) PROVE FALSE
      OBVIOUS
    <2>2. PICK t : CalculateStatus(pay[p].first, t, pay[p].leave, Kind) = None
      <3>1. pc'[p] \notin {"select", "write"}
        BY <1>1
      <3>. QED  BY <2>1, <3>1 DEF ReadLast, Goto, IndInv, TypeOK
    <2>3. pay[p].first = None
      BY <2>2, NoStatus
    <2>. QED  BY <1>2, <2>1, <2>3, NoLiveNoTimes DEF ReadLast, Recomputing, Punching
  <1>4. ~(UpsertWrite(p) /\ Finish(p, "done", None))
    <2>1. SUFFICES ASSUME UpsertWrite(p) PROVE FALSE
      OBVIOUS
    <2>2. AfterWrite(p) /\ pc[p] = "write" /\ stage[p] \in Stages
      BY <2>1, WriteAlone DEF UpsertWrite, IndInv, TypeOK
    <2>3. stage[p] \in {"calc", "late"}
      BY <1>2, <2>2 DEF StageFits, Stages
    <2>4. Goto(p, "refresh")
      <3>1. CASE stage[p] = "late"
        BY <2>2, <3>1 DEF AfterWrite
      <3>2. CASE stage[p] = "calc"
        BY <2>2, <3>2 DEF AfterWrite
      <3>. QED  BY <2>3, <3>1, <3>2
    <2>. QED  BY <1>1, <2>4 DEF Goto, IndInv, TypeOK
  <1>5. ~(OverrideInsert(p) \/ ReasonInsert(p))
    BY <1>2 DEF OverrideInsert, ReasonInsert, StageFits
  <1>6. Refresh(p) => stage[p] = "late" \/ call[p].lateReason = None
    BY <1>1, <1>2 DEF Refresh, StageFits, Goto, IndInv, TypeOK
  <1>. QED  BY <1>3, <1>4, <1>5, <1>6, HowCompleted

\* A punch that carried a reason and was answered has stored it: it always
\* recomputes, and its last write is the reason.
LEMMA PunchStoresReason ==
  ASSUME NEW p \in Req, IndInv, AloneInv, [Next]_vars, solo[p], Completes(p),
         call[p].kind = "punch", call[p].lateReason # None
  PROVE  row' # None /\ row'.late = call[p].lateReason
  <1>1. Active(p) /\ pc'[p] = "done"
    BY DEF Completes, Active
  <1>2. Punching(p)
    BY <1>1 DEF AloneInv, SoFar
  <1>3. ~(PunchJudge(p) /\ Finish(p, "done", None))
    BY <1>1 DEF PunchJudge, Recomputes, Goto, IndInv, TypeOK
  <1>4. Refresh(p) /\ stage[p] = "late"
    BY <1>3, HowPunched
  <1>5. row' = row /\ row # None
    BY <1>4 DEF Refresh, db, IndInv, RowsExist
  <1>. QED  BY <1>2, <1>4, <1>5 DEF Punching, Refresh

\* ... and no report or single override that runs alone takes it away.
THEOREM ReasonsAreStored == Spec => LateReasonStored
  <1>1. IndInv /\ AloneInv /\ [Next]_vars => [\A p \in Req : solo[p] =>
         /\ Completes(p) /\ call[p].kind = "punch" /\ call[p].lateReason # None =>
              row' # None /\ row'.late = call[p].lateReason
         /\ pc'[p] # pc[p] /\ row # None /\ call[p].kind \in {"report", "override", "reason"} =>
              row'.late = row.late]_vars
    BY PunchStoresReason, LoneRowChange
  <1>. QED  BY <1>1, Invariance, AloneInvariance, PTL DEF Spec, LateReasonStored

-----------------------------------------------------------------------------
(* Prompts.  A lone punch carries _check_tardiness's verdict through its   *)
(* recompute, and answers with it beside a status the same log gave.       *)

\* The row's status is the one the live logs give.
Judged(r) ==
    \A f \in FirstClockIn, t \in LastClockOut :
        r.status = CalculateStatus(f, t, r.leave, Kind)

PromptSoFar(p) ==
    call[p].kind = "punch" =>
        /\ pc[p] \in {"read_row", "read_first", "read_last", "select", "write", "refresh"} =>
              tardy[p] = CheckTardiness(Cardinality(logs), at[p])
        /\ pc[p] = "refresh" \/ (pc[p] = "write" /\ stage[p] = "late") =>
              row # None /\ Judged(row)

PromptInv == IsFiniteSet(logs) /\ \A p \in Req : solo[p] /\ Active(p) => PromptSoFar(p)

\* The log has one earliest and one latest time.
LEMMA OneTimeEach ==
  ASSUME IndInv
  PROVE  /\ \A f, g \in FirstClockIn : f = g
         /\ \A t, u \in LastClockOut : t = u
  BY DEF FirstClockIn, LastClockOut, Time

LEMMA LogsStayFinite ==
  ASSUME IsFiniteSet(logs), [Next]_vars
  PROVE  IsFiniteSet(logs')
  BY LogStep, FS_AddElement DEF BulkInsert, PunchInsert, OverrideInsert

\* A recompute of a day with live logs is about to write their status.
LEMMA PunchJudged ==
  ASSUME NEW p \in Req, IndInv, AloneInv, solo[p], UpsertWrite(p), call[p].kind = "punch",
         stage[p] = "calc"
  PROVE  Judged(pay[p])
  <1>1. Recomputing(p) /\ Punching(p) /\ pc[p] = "write"
    BY WriteAlone DEF UpsertWrite
  <1>2. /\ pay[p].first \in FirstClockIn /\ pay[p].last \in LastClockOut /\ Live # {}
        /\ LET status == CalculateStatus(pay[p].first, pay[p].last, pay[p].leave, Kind)
           IN IF status = None THEN pay[p].ot # None ELSE pay[p].status = status
    BY <1>1 DEF Recomputing, Punching
  <1>3. pay[p].first # None
    BY <1>2, NoLiveNoTimes
  <1>4. pay[p].status = CalculateStatus(pay[p].first, pay[p].last, pay[p].leave, Kind)
    BY <1>2, <1>3, NoStatus
  <1>. QED  BY <1>2, <1>4, OneTimeEach DEF Judged

\* The verdict of a lone punch stays what it was on the log it was given.
LEMMA VerdictStays ==
  ASSUME NEW p \in Req, IndInv, AloneInv, solo[p], Step(p), PromptSoFar(p),
         call[p].kind = "punch",
         pc'[p] \in {"read_row", "read_first", "read_last", "select", "write", "refresh"}
  PROVE  tardy'[p] = CheckTardiness(Cardinality(logs'), at'[p])
  <1>. USE DEF IndInv, TypeOK
  <1>1. CASE PunchJudge(p)
    <2>1. ~Finish(p, "done", None)
      BY DEF Finish, Goto
    <2>. QED  BY <1>1, <2>1 DEF PunchJudge, db
  <1>2. CASE ReadRow(p) \/ ReadFirst(p) \/ UpsertSelect(p)
    BY <1>2 DEF ReadRow, ReadFirst, UpsertSelect, PromptSoFar, db
  <1>3. CASE ReadLast(p)
    <2>1. ~Finish(p, "done", None)
      BY DEF Finish, Goto
    <2>. QED  BY <1>3, <2>1 DEF ReadLast, NothingToSummarize, PromptSoFar, db
  <1>4. CASE UpsertWrite(p)
    <2>1. ~Finish(p, "done", None)
      BY DEF Finish, Goto
    <2>2. UNCHANGED local
      BY <1>4, <2>1, WriteAlone DEF AfterWrite
    <2>. QED  BY <1>4, <2>2 DEF UpsertWrite, PromptSoFar, local
  <1>5. CASE Refresh(p)
    <2>1. ~PunchAnswer(p, row)
      BY DEF PunchAnswer, Finish, Goto
    <2>. QED  BY <1>5, <2>1 DEF Refresh, PromptSoFar, db
  <1>6. CASE PunchCheck(p) \/ PunchStamp(p) \/ PunchInsert(p) \/ OverrideInsert(p)
             \/ ReasonCheck(p) \/ ReasonInsert(p)
    BY <1>6 DEF PunchCheck, PunchStamp, PunchInsert, OverrideInsert, ReasonCheck, ReasonInsert,
                Finish, Goto
  <1>7. ~(BulkMark(p) \/ BulkInsertIn(p) \/ BulkInsertOut(p) \/ StampRead(p))
    BY DEF BulkMark, BulkInsertIn, BulkInsertOut, StampRead, AloneInv, StagesFit, StageFits
  <1>. QED  BY <1>1, <1>2, <1>3, <1>4, <1>5, <1>6, <1>7 DEF Step

\* The row a lone punch has written is judged, and its reason leaves it so.
LEMMA JudgedStays ==
  ASSUME NEW p \in Req, IndInv, AloneInv, solo[p], Step(p), PromptSoFar(p),
         call[p].kind = "punch",
         pc'[p] = "refresh" \/ (pc'[p] = "write" /\ stage'[p] = "late")
  PROVE  row' # None /\ Judged(row)'
  <1>. USE DEF IndInv, TypeOK
  <1>1. StageFits(p)
    BY DEF AloneInv, StagesFit
  <1>2. CASE UpsertWrite(p)
    <2>1. /\ row' = pay[p] /\ pay[p] \in Row /\ pc[p] = "write" /\ UNCHANGED <<logs, voided>>
          /\ Punching(p)
      BY <1>2, WriteAlone DEF UpsertWrite
    <2>2. stage[p] \in {"calc", "late"}
      BY <1>1, <2>1 DEF StageFits, Stages
    <2>3. Judged(pay[p])
      <3>1. CASE stage[p] = "calc"
        BY <1>2, <3>1, PunchJudged
      <3>2. CASE stage[p] = "late"
        <4>1. row # None /\ Judged(row) /\ pay[p] = [row EXCEPT !.late = call[p].lateReason]
          BY <2>1, <3>2 DEF PromptSoFar, Punching
        <4>2. row \in Row
          BY <4>1 DEF Opt
        <4>3. pay[p].status = row.status /\ pay[p].leave = row.leave
          BY <4>1, <4>2 DEF Row
        <4>. QED  BY <4>1, <4>3 DEF Judged
      <3>. QED  BY <2>2, <3>1, <3>2
    <2>. QED  BY <2>1, <2>3, SameLog, DayAssumption DEF Judged
  <1>3. CASE Refresh(p)
    <2>1. pc[p] = "refresh" /\ UNCHANGED <<logs, voided, row>>
      BY <1>3 DEF Refresh, db
    <2>. QED  BY <2>1, SameLog DEF PromptSoFar, Judged
  <1>4. CASE ReadRow(p) \/ ReadFirst(p)
    BY <1>4 DEF ReadRow, ReadFirst, Goto
  <1>5. CASE ReadLast(p) \/ UpsertSelect(p)
    <2>1. stage'[p] # "late"
      BY <1>1, <1>5 DEF ReadLast, UpsertSelect, NothingToSummarize, Finish, StageFits
    <2>2. pc'[p] # "refresh"
      BY <1>5 DEF ReadLast, UpsertSelect, NothingToSummarize, Finish, Goto
    <2>. QED  BY <2>1, <2>2
  <1>6. CASE PunchCheck(p) \/ PunchStamp(p) \/ PunchInsert(p) \/ PunchJudge(p) \/ OverrideInsert(p)
             \/ ReasonCheck(p) \/ ReasonInsert(p)
    BY <1>6 DEF PunchCheck, PunchStamp, PunchInsert, PunchJudge, OverrideInsert, ReasonCheck,
                ReasonInsert, Finish, Goto
  <1>7. ~(BulkMark(p) \/ BulkInsertIn(p) \/ BulkInsertOut(p) \/ StampRead(p))
    BY <1>1 DEF BulkMark, BulkInsertIn, BulkInsertOut, StampRead, StageFits
  <1>. QED  BY <1>2, <1>3, <1>4, <1>5, <1>6, <1>7 DEF Step

LEMMA PromptNext ==
  ASSUME IndInv, AloneInv, PromptInv, [Next]_vars
  PROVE  PromptInv'
  <1>1. IsFiniteSet(logs')
    BY LogsStayFinite DEF PromptInv
  <1>2. ASSUME NEW p \in Req, (solo[p] /\ Active(p))'
        PROVE  PromptSoFar(p)'
    <2>1. ASSUME NEW q \in Req, Step(q) \/ Abort(q)
          PROVE  PromptSoFar(p)'
      <3>1. Active(q) /\ call' = call /\ solo' = solo /\ (q # p => pc'[p] = pc[p])
        BY <2>1, OneAtATime DEF IndInv
      <3>2. q = p
        BY <1>2, <3>1 DEF AloneInv, Alone, Active
      <3>3. ~Abort(p)
        BY <1>2, FinishEnds DEF Abort, IndInv, Finished
      <3>4. Step(p) /\ PromptSoFar(p) /\ solo[p]
        BY <1>2, <2>1, <3>1, <3>2, <3>3 DEF PromptInv
      <3>. QED  BY <3>1, <3>4, VerdictStays, JudgedStays DEF PromptSoFar
    <2>2. ASSUME NEW q \in Req, Arrive(q)
          PROVE  PromptSoFar(p)'
      <3>1. PICK c \in Calls : call' = [call EXCEPT ![q] = c] /\ pc' = [pc EXCEPT ![q] = EntryPoint(c)]
        BY <2>2 DEF Arrive, Goto
      <3>2. p = q
        BY <1>2, <2>2 DEF Arrive
      <3>3. call'[p] = c /\ pc'[p] = EntryPoint(c)
        BY <3>1, <3>2 DEF IndInv, TypeOK
      <3>. QED  BY <3>3 DEF PromptSoFar, EntryPoint
    <2>3. CASE Tick \/ UNCHANGED vars
      <3>1. UNCHANGED <<logs, voided, row, pc, call, stage, at, tardy, solo>>
        BY <2>3 DEF Tick, vars, db, local
      <3>. QED  BY <1>2, <3>1, SameLog DEF PromptInv, PromptSoFar, Active, Judged
    <2>. QED  BY <2>1, <2>2, <2>3 DEF Next, Rest
  <1>. QED  BY <1>1, <1>2 DEF PromptInv

\* With one log, only lateness; with more, the latest punch decides whether
\* the day was left early: the prompt and the status say the same.
LEMMA VerdictsMeet ==
  ASSUME IndInv, IsFiniteSet(logs), voided = {}, NEW own \in logs,
         \A l \in logs \ {own} : l.time < own.time,
         NEW f \in FirstClockIn, NEW t \in LastClockOut, NEW leave
  PROVE  LET status  == CalculateStatus(f, t, leave, Kind)
             verdict == CheckTardiness(Cardinality(logs), own.time)
             answer  == IF status \in ReasonEligibleStatuses THEN verdict ELSE None
         IN /\ answer = "LATE" <=>
                   logs = {own} /\ status \in {"LATE", "LATE_AND_EARLY_LEAVE"}
            /\ answer = "EARLY_LEAVE" <=>
                   logs # {own} /\ status \in {"EARLY_LEAVE", "LATE_AND_EARLY_LEAVE"}
  <1> DEFINE status == CalculateStatus(f, t, leave, Kind)
  <1>1. Live = logs /\ \A l \in logs : l.time \in Time
    BY DEF Live, IndInv, TypeOK, Log
  <1>2. None \notin {"LATE", "EARLY_LEAVE"} /\ None \notin Time /\ ShiftEnd \in Int
    BY DayAssumption, RulesAssumption DEF Statuses, PunchedStatuses, Time, TimeOfDay
  <1>3. CASE logs = {own}
    <2>1. Cardinality(logs) = 1
      BY <1>3, FS_Singleton
    <2>2. f = own.time /\ t = own.time
      BY <1>1, <1>3 DEF FirstClockIn, LastClockOut
    <2>3. status \in ReasonEligibleStatuses => status = "LATE" /\ own.time > GraceDeadline
      <3>1. f # None /\ t # None
        BY <1>1, <1>2, <2>2
      <3>2. \/ status \in {"LEAVE", "NORMAL"}
            \/ status = TimingStatus(own.time > GraceDeadline, FALSE)
        BY <2>2, <3>1 DEF CalculateStatus
      <3>. QED  BY <3>2 DEF TimingStatus, ReasonEligibleStatuses
    <2>. QED  BY <1>2, <1>3, <2>1, <2>3 DEF CheckTardiness, ReasonEligibleStatuses
  <1>4. CASE logs # {own}
    <2>1. PICK l \in logs : l # own
      BY <1>4
    <2>2. Cardinality(logs) \in Nat /\ Cardinality(logs) > 1
      <3>1. Cardinality(logs) \in Nat /\ Cardinality(logs) # 0 /\ Cardinality(logs) # 1
        BY <2>1, FS_CardinalityType, FS_EmptySet, FS_Singleton
      <3>. QED  BY <3>1
    <2>3. f \in Time /\ t = own.time /\ f < t
      <3>1. \A m \in logs : m.time <= own.time
        BY <1>1 DEF Time
      <3>2. t = own.time
        BY <1>1, <3>1 DEF LastClockOut, Time
      <3>3. f \in Time /\ f <= l.time /\ l.time < own.time
        BY <1>1, <2>1 DEF FirstClockIn
      <3>. QED  BY <1>1, <3>2, <3>3 DEF Time
    <2>4. status \in ReasonEligibleStatuses /\ own.time < ShiftEnd
            <=> status \in {"EARLY_LEAVE", "LATE_AND_EARLY_LEAVE"}
      BY <1>2, <2>3 DEF CalculateStatus, TimingStatus, ReasonEligibleStatuses, Time
    <2>5. CheckTardiness(Cardinality(logs), own.time) = IF own.time < ShiftEnd THEN "EARLY_LEAVE" ELSE None
      BY <2>2 DEF CheckTardiness
    <2>. QED  BY <1>2, <1>4, <2>4, <2>5
  <1>. QED  BY <1>3, <1>4

\* A punch that runs alone asks for a reason only with a status in the row
\* that takes one; and a punch later than all others, on a day without
\* overridden logs, asks exactly when it made the day late or left early.
LEMMA PunchPrompts ==
  ASSUME NEW p \in Req, IndInv, AloneInv, PromptInv, [Next]_vars, solo[p], Completes(p),
         call[p].kind = "punch"
  PROVE  /\ tardy'[p] # None => row' # None /\ row'.status \in ReasonEligibleStatuses
         /\ \A own \in logs, f \in FirstClockIn, t \in LastClockOut :
              own.time = at[p] /\ voided = {} /\ (\A l \in logs \ {own} : l.time < at[p]) =>
                LET status == CalculateStatus(f, t, IF row' = None THEN None ELSE row'.leave, Kind)
                IN /\ tardy'[p] = "LATE" <=>
                        logs = {own} /\ status \in {"LATE", "LATE_AND_EARLY_LEAVE"}
                   /\ tardy'[p] = "EARLY_LEAVE" <=>
                        logs # {own} /\ status \in {"EARLY_LEAVE", "LATE_AND_EARLY_LEAVE"}
  <1> DEFINE verdict == CheckTardiness(Cardinality(logs), at[p])
             leave   == IF row' = None THEN None ELSE row'.leave
  <1>1. CASE PunchJudge(p) /\ Finish(p, "done", None)
    <2>1. tardy'[p] = None
      BY <1>1 DEF Finish, IndInv, TypeOK
    <2>2. verdict = None
      <3>1. pc'[p] # "read_row"
        BY DEF Completes
      <3>. QED  BY <1>1, <3>1 DEF PunchJudge, Recomputes, Goto, IndInv, TypeOK
    <2> HIDE DEF leave
    <2>. QED  BY <2>1, <2>2, VerdictsMeet DEF PromptInv
  <1>2. CASE Refresh(p) /\ PunchAnswer(p, row)
    <2>1. row # None /\ row' = row /\ pc[p] = "refresh" /\ Active(p)
      BY <1>2 DEF Refresh, db, IndInv, RowsExist, Active, Running
    <2>2. tardy[p] = verdict /\ Judged(row)
      BY <2>1 DEF PromptInv, PromptSoFar
    <2>3. tardy'[p] = IF row.status \in ReasonEligibleStatuses THEN verdict ELSE None
      BY <1>2, <2>2 DEF PunchAnswer, Finish, IndInv, TypeOK
    <2>4. \A f \in FirstClockIn, t \in LastClockOut : row.status = CalculateStatus(f, t, leave, Kind)
      BY <2>1, <2>2 DEF Judged
    <2>5. tardy'[p] # None => row' # None /\ row'.status \in ReasonEligibleStatuses
      BY <2>1, <2>3
    <2>6. ASSUME NEW own \in logs, NEW f \in FirstClockIn, NEW t \in LastClockOut,
                 own.time = at[p], voided = {}, \A l \in logs \ {own} : l.time < at[p]
          PROVE  LET status == CalculateStatus(f, t, leave, Kind)
                 IN /\ tardy'[p] = "LATE" <=>
                         logs = {own} /\ status \in {"LATE", "LATE_AND_EARLY_LEAVE"}
                    /\ tardy'[p] = "EARLY_LEAVE" <=>
                         logs # {own} /\ status \in {"EARLY_LEAVE", "LATE_AND_EARLY_LEAVE"}
      <3> DEFINE status == CalculateStatus(f, t, leave, Kind)
      <3> HIDE DEF leave
      <3>1. tardy'[p] = IF status \in ReasonEligibleStatuses
                        THEN CheckTardiness(Cardinality(logs), own.time) ELSE None
        BY <2>3, <2>4, <2>6
      <3>. QED  BY <2>6, <3>1, VerdictsMeet DEF PromptInv
    <2>. QED  BY <2>5, <2>6
  <1>. QED  BY <1>1, <1>2, HowPunched

THEOREM PromptsAreConfirmed == Spec => PromptMatchesStatus
  <1>1. Init => PromptInv
    BY FS_EmptySet DEF Init, PromptInv, Active, Running
  <1>2. IndInv /\ AloneInv /\ PromptInv /\ [Next]_vars => PromptInv'
    BY PromptNext
  <1>3. IndInv /\ AloneInv /\ PromptInv /\ [Next]_vars => [\A p \in Req :
         solo[p] /\ Completes(p) /\ call[p].kind = "punch" =>
           /\ tardy'[p] # None => row' # None /\ row'.status \in ReasonEligibleStatuses
           /\ \A own \in logs, f \in FirstClockIn, t \in LastClockOut :
                own.time = at[p] /\ voided = {} /\ (\A l \in logs \ {own} : l.time < at[p]) =>
                  LET status == CalculateStatus(f, t, IF row' = None THEN None ELSE row'.leave, Kind)
                  IN /\ tardy'[p] = "LATE" <=>
                          logs = {own} /\ status \in {"LATE", "LATE_AND_EARLY_LEAVE"}
                     /\ tardy'[p] = "EARLY_LEAVE" <=>
                          logs # {own} /\ status \in {"EARLY_LEAVE", "LATE_AND_EARLY_LEAVE"}]_vars
    BY PunchPrompts
  <1>. QED  BY <1>1, <1>2, <1>3, Invariance, AloneInvariance, PTL DEF Spec, PromptMatchesStatus

-----------------------------------------------------------------------------
(* What reports and bulk overrides leave behind.                           *)

\* A recompute that writes leaves a row that agrees with the log.
LEMMA RecomputeAgrees ==
  ASSUME NEW p \in Req, IndInv, Recomputing(p), pc[p] = "write", stage[p] = "calc",
         row' = pay[p], pay[p] \in Row, UNCHANGED <<logs, voided>>
  PROVE  SummaryAgrees'
  <1> DEFINE f == pay[p].first
             l == pay[p].last
             status == CalculateStatus(f, l, pay[p].leave, Kind)
  <1>1. /\ f \in FirstClockIn /\ l \in LastClockOut
        /\ IF status = None THEN pay[p].ot # None ELSE pay[p].status = status
    BY DEF Recomputing
  <1>2. row' # None
    BY DayAssumption
  <1>3. CASE Live = {} /\ pay[p].leave = None
    <2>1. f = None /\ l = None
      BY <1>1, <1>3, NoLiveNoTimes
    <2>2. status = None
      BY <1>3, <2>1 DEF CalculateStatus
    <2>3. pay[p].ot # None
      BY <1>1, <2>2
    <2>. QED  BY <1>1, <1>2, <1>3, <2>3, SameLog DEF SummaryAgrees
  <1>4. CASE ~(Live = {} /\ pay[p].leave = None)
    <2>1. status # None
      BY <1>1, <1>4, NoStatus, NoLiveNoTimes
    <2>2. pay[p].status = status
      BY <1>1, <2>1
    <2>. QED  BY <1>1, <1>2, <1>4, <2>2, SameLog DEF SummaryAgrees
  <1>. QED  BY <1>3, <1>4

\* So does one that finds nothing to summarize.
LEMMA NothingAgrees ==
  ASSUME NEW p \in Req, IndInv, CountedStay, Recomputing(p), stage[p] = "calc",
         ReadLast(p), pc'[p] = "done",
         Workday /\ Employed => row # None /\ row.status = "ABSENT"
  PROVE  /\ Live = {} /\ Live' = {} /\ row' = row
         /\ SummaryAgrees'
  <1>1. PICK t : CalculateStatus(pay[p].first, t, pay[p].leave, Kind) = None /\ pay[p].ot = None
    BY DEF ReadLast, Goto, IndInv, TypeOK
  <1>2. pc[p] = "read_last" /\ UNCHANGED <<logs, voided, row>>
    BY DEF ReadLast, db
  <1>3. pay[p].first = None /\ pay[p].leave = None
    BY <1>1, NoStatus
  <1>4. Live = {}
    BY <1>2, <1>3, NoLiveNoTimes DEF Recomputing
  <1>5. row # None => row.first = None /\ row.last = None /\ row.leave = None
    BY <1>2, <1>3, <1>4, NoLiveNoRowTimes DEF Recomputing, Kept
  <1>6. FirstClockIn' = {None} /\ LastClockOut' = {None} /\ Live' = {}
    BY <1>2, <1>4, SameLog, NoLiveNoTimes
  <1>7. SummaryAgrees'
    BY <1>2, <1>5, <1>6 DEF SummaryAgrees
  <1>. QED  BY <1>2, <1>4, <1>6, <1>7

LEMMA ReportAgrees ==
  ASSUME NEW p \in Req, IndInv, AloneInv, [Next]_vars, solo[p], Completes(p),
         call[p].kind = "report"
  PROVE  SummaryAgrees'
  <1>1. Active(p) /\ pc'[p] = "done"
    BY DEF Completes, Active
  <1>2. Recomputing(p) /\ MarkingAbsent(p) /\ StageFits(p) /\ CountedStay
    BY <1>1 DEF AloneInv, SoFar, StagesFit
  <1>3. ~(PunchJudge(p) \/ OverrideInsert(p) \/ ReasonInsert(p) \/ Refresh(p))
    BY <1>2 DEF PunchJudge, OverrideInsert, ReasonInsert, Refresh, StageFits
  <1>4. CASE ReadLast(p) /\ NothingToSummarize(p) /\ Finish(p, "done", None)
    <2>1. ~(Workday /\ Employed)
      BY <1>1, <1>4 DEF NothingToSummarize, Goto, IndInv, TypeOK
    <2>2. stage[p] = "calc"
      BY <1>2, <1>4 DEF ReadLast, StageFits
    <2>. QED  BY <1>1, <1>2, <1>4, <2>1, <2>2, NothingAgrees
  <1>5. CASE UpsertWrite(p)
    <2>1. /\ row' = pay[p] /\ pay[p] \in Row /\ pc[p] = "write" /\ UNCHANGED <<logs, voided>>
          /\ stage[p] \in Stages
      BY <1>5, WriteAlone DEF UpsertWrite, IndInv, TypeOK
    <2>2. stage[p] \in {"calc", "absent"}
      BY <1>2, <2>1 DEF StageFits, Stages
    <2>3. CASE stage[p] = "calc"
      BY <1>2, <2>1, <2>3, RecomputeAgrees
    <2>4. CASE stage[p] = "absent"
      <3>1. /\ Live = {} /\ row'.first = None /\ row'.last = None
            /\ row'.leave = None /\ row'.status = "ABSENT"
        <4>1. Live = {} /\ pay[p] = IF row = None THEN AbsentRow
                                   ELSE [AbsentRow EXCEPT !.ot = row.ot, !.late = row.late]
          BY <1>2, <2>1, <2>4 DEF MarkingAbsent
        <4>2. CASE row = None
          BY <2>1, <4>1, <4>2 DEF AbsentRow
        <4>3. CASE row # None
          BY <2>1, <4>1, <4>3 DEF AbsentRow
        <4>. QED  BY <4>2, <4>3
      <3>2. FirstClockIn' = {None} /\ LastClockOut' = {None} /\ Live' = {}
        BY <2>1, <3>1, SameLog, NoLiveNoTimes
      <3>3. row' # None
        BY <2>1, DayAssumption
      <3>. QED  BY <3>1, <3>2, <3>3 DEF SummaryAgrees
    <2>. QED  BY <2>2, <2>3, <2>4
  <1>. QED  BY <1>3, <1>4, <1>5, HowCompleted

\* A report heals the row, however torn, stale or missing it was.
THEOREM ReportsSettle == Spec => ReportSettlesRow
  <1>1. IndInv /\ AloneInv /\ [Next]_vars => [\A p \in Req :
            solo[p] /\ Completes(p) /\ call[p].kind = "report" => SummaryAgrees']_vars
    BY ReportAgrees
  <1>. QED  BY <1>1, Invariance, AloneInvariance, PTL DEF Spec, ReportSettlesRow

\* What a bulk override that ran alone leaves behind.
Landed(e) ==
  /\ {e.in, e.out} \ {None} # {} => {l.time : l \in Live} = {e.in, e.out} \ {None}
  /\ row # None => ColumnsSet(e, row)
  /\ row = None => Live = {} /\ SetsColumns(e)
  /\ row # None => SummaryAgrees

\* The entry's punches are all that counts, and a recompute on the stamped
\* row keeps what was stamped; only an entry of nulls leaves no row.
LEMMA BulkLands ==
  ASSUME NEW p \in Req, IndInv, AloneInv, [Next]_vars, solo[p], Completes(p),
         call[p].kind = "bulk"
  PROVE  Landed(call[p].entry)'
  <1> DEFINE e == call[p].entry
  <1>1. Active(p) /\ pc'[p] = "done"
    BY DEF Completes, Active
  <1>2. Recomputing(p) /\ Overriding(p) /\ StageFits(p) /\ CountedStay
    BY <1>1 DEF AloneInv, SoFar, StagesFit
  <1>3. ~(PunchJudge(p) \/ OverrideInsert(p) \/ ReasonInsert(p))
    BY <1>2 DEF PunchJudge, OverrideInsert, ReasonInsert, StageFits
  <1>4. ~(Refresh(p) /\ PunchAnswer(p, row))
    <2>1. SUFFICES ASSUME Refresh(p), PunchAnswer(p, row) PROVE FALSE
      OBVIOUS
    <2>2. stage[p] = "stamp"
      BY <1>2, <2>1 DEF Refresh, StageFits
    <2>. QED  BY <1>1, <2>1, <2>2 DEF Refresh, Goto, IndInv, TypeOK
  <1>5. CASE ReadLast(p) /\ NothingToSummarize(p) /\ Finish(p, "done", None)
    <2>1. pc[p] = "read_last" /\ stage[p] = "calc" /\ UNCHANGED <<logs, voided, row, call>>
      BY <1>2, <1>5 DEF ReadLast, StageFits, db
    <2>2. /\ StampedAs(e, Kept(row))
          /\ SetsPunches(e) => LiveTimes = TimesOf(e)
      BY <1>2, <2>1 DEF Overriding
    <2>3. PICK t : CalculateStatus(pay[p].first, t, pay[p].leave, Kind) = None
      BY <1>1, <1>5 DEF ReadLast, Goto, IndInv, TypeOK
    <2>4. pay[p].first = None /\ pay[p].leave = None
      BY <2>3, NoStatus
    <2>5. Live = {} /\ Kept(row).leave = None
      BY <1>2, <2>1, <2>4, NoLiveNoTimes DEF Recomputing
    <2>6. ~SetsPunches(e) /\ SetsColumns(e)
      BY <1>1, <1>2, <2>2, <2>5 DEF LiveTimes, TimesOf, SetsPunches, StageFits
    <2>7. row # None => row.status = "ABSENT" /\ ColumnsSet(e, row)
      BY <2>2, <2>5 DEF StampedAs, Kept
    <2>8. Live' = {} /\ (row # None => SummaryAgrees')
      <3>1. Live' = {}
        BY <2>1, <2>5, SameLog
      <3>2. ASSUME row # None PROVE SummaryAgrees'
        BY <1>1, <1>2, <1>5, <2>1, <2>7, <3>2, NothingAgrees
      <3>. QED  BY <3>1, <3>2
    <2>9. (row # None => ColumnsSet(e, row))'
      BY <2>1, <2>7 DEF ColumnsSet
    <2>. QED  BY <2>1, <2>6, <2>8, <2>9 DEF Landed, SetsPunches, SetsColumns
  <1>6. CASE UpsertWrite(p) /\ Finish(p, "done", None)
    <2>1. /\ row' = pay[p] /\ pay[p] \in Row /\ pc[p] = "write" /\ UNCHANGED <<logs, voided, call>>
          /\ stage[p] \in Stages /\ AfterWrite(p)
      BY <1>6, WriteAlone DEF UpsertWrite, IndInv, TypeOK
    <2>2. stage[p] = "calc"
      <3>1. stage[p] \in {"calc", "stamp", "place"}
        BY <1>2, <2>1 DEF StageFits, Stages
      <3>2. CASE stage[p] = "stamp"
        BY <1>1, <2>1, <3>2 DEF AfterWrite, Goto, IndInv, TypeOK
      <3>3. CASE stage[p] = "place"
        BY <1>1, <2>1, <3>3 DEF AfterWrite, Goto, IndInv, TypeOK
      <3>. QED  BY <3>1, <3>2, <3>3
    <2>3. /\ StampedAs(e, Kept(row))
          /\ SetsPunches(e) => LiveTimes = TimesOf(e)
          /\ pay[p].remark = Kept(row).remark
      BY <1>2, <2>1, <2>2 DEF Overriding
    <2>4. /\ pay[p].leave = Kept(row).leave /\ pay[p].ot = Kept(row).ot
          /\ pay[p].late = Kept(row).late
      BY <1>2, <2>1, <2>2 DEF Recomputing
    <2>5. ColumnsSet(e, pay[p])
      BY <2>3, <2>4 DEF StampedAs, ColumnsSet
    <2>6. ColumnsSet(e, row)'
      BY <2>1, <2>5 DEF ColumnsSet
    <2>7. row' # None
      BY <2>1, DayAssumption
    <2>8. SummaryAgrees'
      BY <1>2, <2>1, <2>2, RecomputeAgrees
    <2>9. {e.in, e.out} \ {None} # {} => LiveTimes' = {e.in, e.out} \ {None}
      BY <2>1, <2>3, SameLog DEF SetsPunches, TimesOf
    <2>. QED  BY <2>1, <2>6, <2>7, <2>8, <2>9 DEF Landed, LiveTimes
  <1>. QED  BY <1>3, <1>4, <1>5, <1>6, HowCompleted

\* A bulk override that ran alone lands completely: its punches, its columns,
\* and a summary that says what they give.
THEOREM OverridesLand == Spec => OverrideLands
  <1>1. ASSUME IndInv, AloneInv, [Next]_vars, NEW p \in Req, solo[p], Completes(p),
               call[p].kind = "bulk"
        PROVE  LET e == call[p].entry
                   times == {e.in, e.out} \ {None}
               IN /\ times # {} => {l.time : l \in Live'} = times
                  /\ row' # None =>
                       /\ e.leave # Unset => row'.leave = e.leave
                       /\ e.remark # Unset => row'.remark = e.remark
                       /\ e.ot # Unset => row'.ot = e.ot
                       /\ e.late # Unset => row'.late = e.late
                  /\ row' = None => Live' = {} /\ SetsColumns(e)
                  /\ row' # None => SummaryAgrees'
    <2>1. Landed(call[p].entry)' /\ call' = call
      <3>1. Step(p) \/ Abort(p)
        BY <1>1, LoneStep DEF AloneInv, Completes, Running
      <3>. QED  BY <1>1, <3>1, BulkLands, OneAtATime DEF IndInv
    <2>. QED  BY <2>1 DEF Landed, ColumnsSet
  <1>2. IndInv /\ AloneInv /\ [Next]_vars => [\A p \in Req :
         solo[p] /\ Completes(p) /\ call[p].kind = "bulk" /\ call[p].entry # EmptyEntry =>
           LET e == call[p].entry
               times == {e.in, e.out} \ {None}
           IN /\ times # {} => {l.time : l \in Live'} = times
              /\ row' # None =>
                   /\ e.leave # Unset => row'.leave = e.leave
                   /\ e.remark # Unset => row'.remark = e.remark
                   /\ e.ot # Unset => row'.ot = e.ot
                   /\ e.late # Unset => row'.late = e.late
              /\ row' = None => Live' = {} /\ SetsColumns(e)
              /\ row' # None => SummaryAgrees']_vars
    BY <1>1
  <1>. QED  BY <1>2, Invariance, AloneInvariance, PTL DEF Spec, OverrideLands

-----------------------------------------------------------------------------
(* First-In-Last-Out on a day without bulk overrides.  Live logs are then  *)
(* never flagged, so clock-ins read later are no later and clock-outs read *)
(* later no earlier: any clock-in some session or the row carries is no    *)
(* later than any clock-out another one carries.                           *)

\* The rows the table and the sessions carry.
Carried == ({row} \union {copy[q] : q \in Req} \union {pay[q] : q \in Req}) \ {None}

OrderInv ==
  /\ \A q \in Req : Active(q) => call[q].kind # "bulk"
  /\ \A r, s \in Carried : r.first # None /\ s.last # None => r.first <= s.last
  /\ \A r \in Carried : r.first # None => \E m \in Live : r.first <= m.time
  /\ \A r \in Carried : r.last # None => \E m \in Live : m.time <= r.last

\* What an action may do to the times its request carries: keep them, drop
\* them, load the row's, or read the log's.
FirstKnown(p, t) == t \in {None, pay[p].first} \union FirstClockIn \/ (row # None /\ t = row.first)
LastKnown(p, t)  == t \in {None, pay[p].last} \union LastClockOut \/ (row # None /\ t = row.last)

LEMMA TimesStep ==
  ASSUME NEW p \in Req, IndInv, Step(p) \/ Abort(p)
  PROVE  /\ copy'[p] \in {copy[p], row, None}
         /\ FirstKnown(p, pay'[p].first) /\ LastKnown(p, pay'[p].last)
         /\ row' = row \/ (FirstKnown(p, row'.first) /\ LastKnown(p, row'.last))
  <1>. USE DEF IndInv
  <1>a. ASSUME NEW o, NEW a, Finish(p, o, a)
        PROVE  copy'[p] = None /\ FirstKnown(p, pay'[p].first) /\ LastKnown(p, pay'[p].last)
    BY <1>a, AbsentRowIsRow DEF Finish, TypeOK, FirstKnown, LastKnown
  <1>b. ASSUME copy' = copy, pay' = pay
        PROVE  copy'[p] = copy[p] /\ FirstKnown(p, pay'[p].first) /\ LastKnown(p, pay'[p].last)
    BY <1>b DEF FirstKnown, LastKnown
  <1>1. CASE Abort(p) \/ OverrideInsert(p) \/ ReasonInsert(p)
    BY <1>1, <1>a DEF Abort, OverrideInsert, ReasonInsert, db
  <1>2. CASE PunchCheck(p) \/ ReasonCheck(p)
    BY <1>2, <1>a, <1>b DEF PunchCheck, ReasonCheck, local, db
  <1>3. CASE PunchStamp(p) \/ PunchInsert(p) \/ BulkMark(p) \/ BulkInsertIn(p) \/ BulkInsertOut(p)
    BY <1>3, <1>b DEF PunchStamp, PunchInsert, BulkMark, BulkInsertIn, BulkInsertOut, BulkInsert, local, db
  <1>4. CASE PunchJudge(p)
    BY <1>4, <1>a, <1>b DEF PunchJudge, db
  <1>5. CASE ReadRow(p)
    BY <1>5, AbsentRowIsRow DEF ReadRow, Kept, TypeOK, FirstKnown, LastKnown, db
  <1>6. CASE ReadFirst(p)
    <2>1. PICK t \in FirstClockIn : pay' = [pay EXCEPT ![p].first = t]
      BY <1>6 DEF ReadFirst
    <2>2. pay'[p].first = t /\ pay'[p].last = pay[p].last
      BY <2>1 DEF TypeOK, Row
    <2>. QED  BY <1>6, <2>2 DEF ReadFirst, FirstKnown, LastKnown, db
  <1>7. CASE ReadLast(p)
    <2>1. PICK t \in LastClockOut :
            \/ NothingToSummarize(p)
            \/ \E s : pay' = [pay EXCEPT ![p].last = t, ![p].status = s] /\ copy' = copy
      BY <1>7 DEF ReadLast
    <2>2. CASE NothingToSummarize(p)
      BY <1>7, <2>2, <1>a, <1>b DEF NothingToSummarize, ReadLast, db
    <2>3. CASE \E s : pay' = [pay EXCEPT ![p].last = t, ![p].status = s] /\ copy' = copy
      <3>1. pay'[p].last = t /\ pay'[p].first = pay[p].first
        BY <2>3 DEF TypeOK, Row
      <3>. QED  BY <1>7, <2>3, <3>1 DEF ReadLast, FirstKnown, LastKnown, db
    <2>. QED  BY <2>1, <2>2, <2>3
  <1>8. CASE UpsertSelect(p)
    <2>1. /\ copy'[p] = row /\ row' = row
          /\ pay'[p] = IF stage[p] # "absent" THEN pay[p]
                       ELSE IF row = None THEN AbsentRow
                       ELSE [AbsentRow EXCEPT !.ot = row.ot, !.late = row.late]
      BY <1>8 DEF UpsertSelect, TypeOK, db
    <2>2. pay'[p].first \in {None, pay[p].first} /\ pay'[p].last \in {None, pay[p].last}
      BY <2>1 DEF AbsentRow
    <2>. QED  BY <2>1, <2>2 DEF FirstKnown, LastKnown
  <1>9. CASE UpsertWrite(p)
    <2>1. AfterWrite(p) \/ Finish(p, "failed", None)
      BY <1>9 DEF UpsertWrite
    <2>2. (copy' = copy /\ pay' = pay) \/ \E o : \E a : Finish(p, o, a)
      BY <2>1 DEF AfterWrite, local
    <2>3. row' = row \/ (FirstKnown(p, row'.first) /\ LastKnown(p, row'.last))
      <3>1. CASE copy[p] # None /\ row' = Updated(copy[p], pay[p], row)
        <4>1. copy[p] \in Row /\ pay[p] \in Row /\ row \in Row /\ row # None
          BY <3>1, <1>9 DEF TypeOK, Opt, RowsExist
        <4>. QED  BY <3>1, <4>1, UpdatedIsRow DEF FirstKnown, LastKnown
      <3>2. CASE row' = pay[p]
        BY <3>2 DEF FirstKnown, LastKnown
      <3>. QED  BY <1>9, <3>1, <3>2 DEF UpsertWrite
    <2>. QED  BY <2>2, <2>3, <1>a, <1>b
  <1>10. CASE Refresh(p)
    <2>1. row # None /\ row' = row /\ row \in Row
      BY <1>10 DEF Refresh, RowsExist, TypeOK, Opt, db
    <2>2. \/ PunchAnswer(p, row)
          \/ copy'[p] = row /\ pay'[p] = row
          \/ copy'[p] = row /\ pay'[p] = [row EXCEPT !.late = call[p].lateReason]
      BY <1>10 DEF Refresh, TypeOK
    <2>3. CASE PunchAnswer(p, row)
      BY <2>1, <2>3, <1>a DEF PunchAnswer
    <2>4. CASE ~PunchAnswer(p, row)
      <3>1. pay'[p].first = row.first /\ pay'[p].last = row.last /\ copy'[p] = row
        BY <2>1, <2>2, <2>4 DEF Row
      <3>. QED  BY <2>1, <3>1 DEF FirstKnown, LastKnown
    <2>. QED  BY <2>3, <2>4
  <1>11. CASE StampRead(p)
    <2>1. call[p].entry \in Entry /\ row' = row
      BY <1>11, RunningCall DEF StampRead, Running, db
    <2>2. CASE row # None /\ copy'[p] = row /\ pay'[p] = Stamped(call[p].entry, row)
      <3>1. row \in Row
        BY <2>2 DEF TypeOK, Opt
      <3>. QED  BY <2>1, <2>2, <3>1, StampedIsRow DEF FirstKnown, LastKnown
    <2>3. CASE copy' = copy /\ pay'[p] = Stamped(call[p].entry, AbsentRow)
      BY <2>1, <2>3, StampedIsRow, AbsentRowIsRow DEF FirstKnown, LastKnown
    <2>4. CASE copy' = copy /\ pay' = pay
      BY <2>1, <2>4, <1>b
    <2>. QED  BY <1>11, <2>2, <2>3, <2>4 DEF StampRead, TypeOK
  <1>. QED  BY <1>1, <1>2, <1>3, <1>4, <1>5, <1>6, <1>7, <1>8, <1>9, <1>10, <1>11 DEF Step

\* Every time that is carried after a step was carried before it or is read
\* from the log.
LEMMA CarriedStep ==
  ASSUME IndInv, [Next]_vars, NEW r \in Carried'
  PROVE  /\ r.first = None \/ r.first \in FirstClockIn \/ \E s \in Carried : s.first = r.first
         /\ r.last = None \/ r.last \in LastClockOut \/ \E s \in Carried : s.last = r.last
  <1>1. CASE r \in Carried
    BY <1>1
  <1>2. ASSUME NEW p \in Req, Step(p) \/ Abort(p), r \notin Carried
        PROVE  /\ r.first = None \/ r.first \in FirstClockIn \/ \E s \in Carried : s.first = r.first
               /\ r.last = None \/ r.last \in LastClockOut \/ \E s \in Carried : s.last = r.last
    <2>1. \A q \in Req : q # p => copy'[q] = copy[q] /\ pay'[q] = pay[q]
      BY <1>2, OneAtATime DEF IndInv
    <2>2. /\ copy'[p] \in {copy[p], row, None}
          /\ FirstKnown(p, pay'[p].first) /\ LastKnown(p, pay'[p].last)
          /\ row' = row \/ (FirstKnown(p, row'.first) /\ LastKnown(p, row'.last))
      BY <1>2, TimesStep
    <2>3. r = pay'[p] \/ (r = row' /\ row' # row)
      BY <1>2, <2>1, <2>2 DEF Carried
    <2>4. FirstKnown(p, r.first) /\ LastKnown(p, r.last)
      BY <2>2, <2>3
    <2>5. pay[p] \in Carried /\ (row # None => row \in Carried)
      BY DayAssumption DEF Carried, IndInv, TypeOK
    <2>. QED  BY <2>4, <2>5 DEF FirstKnown, LastKnown
  <1>3. ASSUME NEW p \in Req, Arrive(p)
        PROVE  r \in Carried
    BY <1>3 DEF Arrive, db, local, Carried
  <1>4. CASE Tick \/ UNCHANGED vars
    BY <1>4 DEF Tick, vars, db, local, Carried
  <1>. QED  BY <1>1, <1>2, <1>3, <1>4 DEF Next, Rest

\* Without bulk overrides a live log stays live.
LEMMA LiveGrows ==
  ASSUME IndInv, StagesFit, OrderInv, [Next]_vars
  PROVE  Live \subseteq Live'
  <1>1. ASSUME NEW q \in Req, Step(q) \/ Abort(q) \/ Arrive(q)
        PROVE  UNCHANGED voided \/ OverrideInsert(q)
    <2>1. ~BulkInsertIn(q) /\ ~BulkInsertOut(q)
      BY DEF OrderInv, StagesFit, StageFits, BulkInsertIn, BulkInsertOut, Active, Running
    <2>. QED
      BY <1>1, <2>1 DEF Step, Abort, Arrive, PunchCheck, PunchStamp, PunchInsert, PunchJudge, ReadRow,
         ReadFirst, ReadLast, UpsertSelect, UpsertWrite, Refresh, BulkMark, StampRead, ReasonCheck,
         ReasonInsert, db
  <1>2. UNCHANGED voided \/ \E q \in Req : OverrideInsert(q)
    BY <1>1 DEF Next, Rest, Tick, vars, db
  <1>3. \A l \in Live : l.id \notin voided'
    <2>1. \A l \in Live : l.id # nextId /\ l.id \notin voided
      BY DEF Live, IndInv, IdsFit, TypeOK, Log
    <2>. QED  BY <1>2, <2>1 DEF OverrideInsert
  <1>4. logs \subseteq logs'
    BY LogStep DEF BulkInsert, PunchInsert, OverrideInsert
  <1>. QED  BY <1>3, <1>4 DEF Live

LEMMA OrderInit == Init => OrderInv
  <1>. SUFFICES ASSUME Init PROVE OrderInv
    OBVIOUS
  <1>1. \A q \in Req : ~Active(q)
    BY DEF Init, Active, Running
  <1>2. Carried \subseteq {AbsentRow}
    BY DEF Init, Carried
  <1>. QED  BY <1>1, <1>2, AbsentRowIsRow DEF OrderInv

LEMMA OrderStays ==
  ASSUME \A c \in Calls : c.kind # "bulk", IndInv, StagesFit, OrderInv, [Next]_vars
  PROVE  OrderInv'
  <1>1. \A q \in Req : Active(q)' => call'[q].kind # "bulk"
    <2>1. ASSUME NEW p \in Req, Step(p) \/ Abort(p)
          PROVE  \A q \in Req : Active(q)' => call'[q].kind # "bulk"
      BY <2>1, OneAtATime DEF OrderInv, Active, IndInv
    <2>2. ASSUME NEW p \in Req, Arrive(p)
          PROVE  \A q \in Req : Active(q)' => call'[q].kind # "bulk"
      BY <2>2 DEF Arrive, Goto, OrderInv, Active, IndInv, TypeOK
    <2>3. CASE Tick \/ UNCHANGED vars
      BY <2>3 DEF Tick, vars, OrderInv, Active
    <2>. QED  BY <2>1, <2>2, <2>3 DEF Next, Rest
  <1>2. Live \subseteq Live' /\ \A m \in Live : m.time \in Nat
    BY LiveGrows DEF Live, IndInv, TypeOK, Log, Time
  <1>3. \A t \in FirstClockIn : t # None =>
          t \in Nat /\ (\E m \in Live : m.time = t) /\ \A m \in Live : t <= m.time
    BY DEF FirstClockIn, Time
  <1>4. \A t \in LastClockOut : t # None =>
          t \in Nat /\ (\E m \in Live : m.time = t) /\ \A m \in Live : m.time <= t
    BY DEF LastClockOut, Time
  <1>5. \A r \in Carried : r.first \in Nat \union {None} /\ r.last \in Nat \union {None}
    BY DEF Carried, IndInv, TypeOK, Opt, Row, Time
  <1>6. ASSUME NEW r \in Carried', r.first # None
        PROVE  /\ r.first \in Nat
               /\ \E m \in Live : r.first <= m.time
               /\ \/ \E s \in Carried : s.first = r.first
                  \/ \A m \in Live : r.first <= m.time
    <2>1. r.first \in FirstClockIn \/ \E s \in Carried : s.first = r.first
      BY <1>6, CarriedStep
    <2>2. CASE r.first \in FirstClockIn
      BY <1>2, <1>3, <1>6, <2>2
    <2>3. CASE \E s \in Carried : s.first = r.first
      BY <1>5, <1>6, <2>3 DEF OrderInv
    <2>. QED  BY <2>1, <2>2, <2>3
  <1>7. ASSUME NEW r \in Carried', r.last # None
        PROVE  /\ r.last \in Nat
               /\ \E m \in Live : m.time <= r.last
               /\ \/ \E s \in Carried : s.last = r.last
                  \/ \A m \in Live : m.time <= r.last
    <2>1. r.last \in LastClockOut \/ \E s \in Carried : s.last = r.last
      BY <1>7, CarriedStep
    <2>2. CASE r.last \in LastClockOut
      BY <1>2, <1>4, <1>7, <2>2
    <2>3. CASE \E s \in Carried : s.last = r.last
      BY <1>5, <1>7, <2>3 DEF OrderInv
    <2>. QED  BY <2>1, <2>2, <2>3
  <1>8. ASSUME NEW r \in Carried', NEW s \in Carried', r.first # None, s.last # None
        PROVE  r.first <= s.last
    <2>1. /\ r.first \in Nat /\ \E m \in Live : r.first <= m.time
          /\ (\E u \in Carried : u.first = r.first) \/ \A m \in Live : r.first <= m.time
      BY <1>6, <1>8
    <2>2. /\ s.last \in Nat /\ \E m \in Live : m.time <= s.last
          /\ (\E u \in Carried : u.last = s.last) \/ \A m \in Live : m.time <= s.last
      BY <1>7, <1>8
    <2>3. CASE (\E u \in Carried : u.first = r.first) /\ \E u \in Carried : u.last = s.last
      BY <1>8, <2>3 DEF OrderInv
    <2>4. CASE \A m \in Live : r.first <= m.time
      BY <1>2, <2>1, <2>2, <2>4
    <2>5. CASE \A m \in Live : m.time <= s.last
      BY <1>2, <2>1, <2>2, <2>5
    <2>. QED  BY <2>1, <2>2, <2>3, <2>4, <2>5
  <1>9. \A r \in Carried' : r.first # None => \E m \in Live' : r.first <= m.time
    BY <1>2, <1>6
  <1>10. \A r \in Carried' : r.last # None => \E m \in Live' : m.time <= r.last
    BY <1>2, <1>7
  <1>. QED  BY <1>1, <1>8, <1>9, <1>10 DEF OrderInv

\* On a day without bulk overrides the row's clock-in is never after its
\* clock-out, whatever punches, reports and manager overrides overlap.
THEOREM RowsStayInOrder ==
  ASSUME \A c \in Calls : c.kind # "bulk"
  PROVE  Spec => []RowInOrder
  <1>1. Init => IndInv /\ StagesFit /\ OrderInv
    BY InitInv, AloneInit, OrderInit DEF AloneInv
  <1>2. IndInv /\ StagesFit /\ OrderInv /\ [Next]_vars => (IndInv /\ StagesFit /\ OrderInv)'
    BY NextInv, StagesStay, OrderStays
  <1>3. OrderInv => RowInOrder
    BY DEF OrderInv, RowInOrder, Carried
  <1>. QED  BY <1>1, <1>2, <1>3, PTL DEF Spec

=============================================================================
