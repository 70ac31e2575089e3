----------------------------- MODULE NfcImport -----------------------------
(***************************************************************************)
(* The NFC backup for one date: the door PC's agent (tools/nfc-agent/      *)
(* push-nfc.ps1) posts the cumulative tap file, up to MaxAttempts times    *)
(* per run, over a connection that loses requests and answers; the backend *)
(* (services/nfc_import_service.py) fills the gaps of each employee in     *)
(* turn.  An attempt whose client has timed out keeps running on the       *)
(* server, so attempts overlap, and any of them may stop between two       *)
(* database calls.                                                         *)
(*                                                                         *)
(* One action of a handler is one awaited database call.  HR's bulk        *)
(* override commits the two sides of the day one after the other, and      *)
(* imports read between its commits.  A phone punch and                    *)
(* generate_daily_summary are one step each here, and one override of a    *)
(* day is under way at a time: races of those among themselves are         *)
(* AttendanceDay's subject.                                                *)
(***************************************************************************)
EXTENDS Integers, Sequences, FiniteSets, FiniteSetsExt

CONSTANTS
    None,
    Employees,    \* how many employees the file may list, in its order
    Eligible,     \* those known and not terminated on or before the date
    Handlers,     \* import requests the server may run at a time
    EndOfDay,     \* bound: ticks of the date; the clock stops when it is over
    MaxAttempts,  \* of one run of the agent
    Settings      \* of the instance: [nightly, nights, cards, phones,
                  \* overrides, maxAborts], see below

Emp == 1 .. Employees
Instants == 0 .. (EndOfDay - 1)
Files == [Emp -> SUBSET Instants]

\* The sides of a day that HR enters: the clock-in, the clock-out, or both.
Sides == {<<t>> : t \in Instants} \union (Instants \X Instants)

ASSUME NfcAssumption ==
    /\ Employees \in Nat \ {0} /\ Eligible \subseteq Emp
    /\ EndOfDay \in Nat \ {0} /\ MaxAttempts \in Nat \ {0}
    /\ None \notin Nat /\ None \notin Handlers /\ None \notin Files
    /\ \A s \in Settings :
         /\ s.nightly \in BOOLEAN /\ s.nights \in Nat
         /\ s.cards \subseteq Emp /\ s.phones \subseteq Emp /\ s.maxAborts \in Nat
         /\ s.overrides \subseteq Emp \X Sides

NoTaps == [e \in Emp |-> {}]

\* A log that counts (is_overridden = false); n tells equal ones apart.
Log == [emp : Emp, time : Instants, by : {"phone", "bulk", "nfc"}, n : Nat]

Running == {"load", "fill_in", "fill_out", "regen"}

VARIABLES
    setting,   \* nightly: the file is exported and sent only when the date is
               \* over, as scheduled (00:10, 00:20), not by hand during the
               \* day; nights: the runs of the agent that send this date's
               \* file, the last one on the 1st of the next month; cards: who
               \* uses the door; phones: who punches by phone; overrides: the
               \* <<employee, sides>> entries HR makes; maxAborts: the bound
               \* on handlers and overrides that stop half-way
    now,       \* the clock of the date; EndOfDay when it is over
    taps,      \* what the door controller has recorded
    file,      \* what it has exported
    live,      \* the attendance_logs that count
    row,       \* <<first, last>> of the daily summary, or None
    hr,        \* the bulk override of an employee's day that is under way:
               \* the sides still to be written, and the logs it has marked
               \* as overridden without having committed that
    agent,     \* the agent: off, about to send, or waiting for the answer
    attempt,   \* the attempt under way
    conn,      \* the handler whose answer the agent waits for
    nights,    \* the runs to come that send this date's file
    pc,        \* where each handler is
    body,      \* the file it received
    cur,       \* the employee it is at
    aborts,    \* handlers and overrides that have stopped half-way
    okFile,    \* history: the file of the last attempt logged as OK
    rewritten, \* history: whose logs HR has taken back since that attempt began
    entered,   \* history: whose logs HR has taken back since the handler began
    resend     \* history: whose part of the handler's file had been logged as
               \* OK before, and HR has taken none of their logs back since

door   == <<setting, now, taps, file>>
store  == <<live, row>>
client == <<agent, attempt, conn, nights, okFile, rewritten>>
server == <<pc, body, cur, entered, resend>>
half   == <<hr, aborts>>
vars   == <<setting, now, taps, file, live, row, agent, attempt, conn, nights,
            okFile, rewritten, pc, body, cur, entered, resend, hr, aborts>>

TypeOK ==
    /\ setting \in Settings
    /\ now \in 0 .. EndOfDay
    /\ taps \in Files /\ file \in Files
    /\ live \in SUBSET Log
    /\ row \in [Emp -> {None} \union (Instants \X Instants)]
    /\ hr \in [Emp -> {None} \union [todo : Seq(Instants), marked : SUBSET Log]]
    /\ agent \in {"off", "send", "wait"}
    /\ attempt \in 1 .. MaxAttempts
    /\ conn \in Handlers \union {None}
    /\ nights \in 0 .. setting.nights
    /\ pc \in [Handlers -> {"free", "reply"} \union Running]
    /\ body \in [Handlers -> Files]
    /\ cur \in [Handlers -> 1 .. (Employees + 1)]
    /\ aborts \in 0 .. setting.maxAborts
    /\ okFile \in Files \union {None}
    /\ rewritten \in SUBSET Emp
    /\ entered \in [Handlers -> SUBSET Emp]
    /\ resend \in [Handlers -> SUBSET Emp]

Init ==
    /\ setting \in Settings
    /\ now = 0 /\ taps = NoTaps /\ file = NoTaps
    /\ live = {} /\ row = [e \in Emp |-> None] /\ hr = [e \in Emp |-> None]
    /\ agent = "off" /\ attempt = 1 /\ conn = None /\ nights = setting.nights
    /\ okFile = None /\ rewritten = {}
    /\ pc = [h \in Handlers |-> "free"]
    /\ body = [h \in Handlers |-> NoTaps]
    /\ cur = [h \in Handlers |-> 1]
    /\ entered = [h \in Handlers |-> {}]
    /\ resend = [h \in Handlers |-> {}]
    /\ aborts = 0

-----------------------------------------------------------------------------
(* The log of one employee's day.                                          *)

LogsOf(e)  == {l \in live : l.emp = e}
TimesOf(e) == {l.time : l \in LogsOf(e)}

NewLog(e, t, by) ==
    LET used == {l.n : l \in {k \in LogsOf(e) : k.time = t /\ k.by = by}}
    IN [emp |-> e, time |-> t, by |-> by,
        n |-> CHOOSE n \in 0 .. Cardinality(used) : n \notin used]

\* First-In-Last-Out over a set of times.
Filo(times) == IF times = {} THEN None ELSE <<Min(times), Max(times)>>

-----------------------------------------------------------------------------
(* The date goes by.                                                       *)

Tick ==
    /\ now < EndOfDay
    /\ now' = now + 1
    /\ UNCHANGED <<setting, taps, file, store, client, server, half>>

\* A card is held to the door reader.
Tap(e) ==
    /\ e \in setting.cards /\ now < EndOfDay
    /\ taps' = [taps EXCEPT ![e] = @ \union {now}]
    /\ UNCHANGED <<setting, now, file, store, client, server, half>>

Export ==
    /\ setting.nightly => now = EndOfDay
    /\ file' = taps
    /\ UNCHANGED <<setting, now, taps, store, client, server, half>>

\* POST /punch: by an employee who can log in, not twice in the duplicate
\* window (one tick).  Whether it recomputes the summary depends on its
\* tardiness.
PhonePunch(e) ==
    /\ e \in Eligible \intersect setting.phones
    /\ now < EndOfDay /\ now \notin TimesOf(e)
    /\ live' = live \union {NewLog(e, now, "phone")}
    /\ \/ row' = [row EXCEPT ![e] = Filo(TimesOf(e) \union {now})]
       \/ UNCHANGED row
    /\ UNCHANGED <<door, client, server, half>>

\* PUT /override-bulk.  The logs of the day are marked as overridden in a
\* transaction that the first new log commits.
OverrideMark(e) ==
    /\ hr[e] = None
    /\ \E entry \in setting.overrides :
         /\ entry[1] = e
         /\ hr' = [hr EXCEPT ![e] = [todo |-> entry[2], marked |-> LogsOf(e)]]
    /\ UNCHANGED <<aborts, door, store, client, server>>

\* Whose logs the next log of an override takes back.
TakenBack(e) == IF hr[e].marked = {} THEN {} ELSE {e}

\* create_log of one side, with its commit.
OverrideLog(e) ==
    /\ hr[e] # None /\ hr[e].todo # <<>>
    /\ live' = (live \ hr[e].marked) \union {NewLog(e, Head(hr[e].todo), "bulk")}
    /\ hr' = [hr EXCEPT ![e] = [todo |-> Tail(@.todo), marked |-> {}]]
    /\ rewritten' = rewritten \union TakenBack(e)
    /\ entered' = [h \in Handlers |->
                      IF pc[h] = "free" THEN {} ELSE entered[h] \union TakenBack(e)]
    /\ resend' = [h \in Handlers |-> resend[h] \ TakenBack(e)]
    /\ UNCHANGED <<row, agent, attempt, conn, nights, okFile, pc, body, cur, aborts, door>>

\* generate_daily_summary after the last side.
OverrideRegenerate(e) ==
    /\ hr[e] # None /\ hr[e].todo = <<>>
    /\ row' = [row EXCEPT ![e] = Filo(TimesOf(e))]
    /\ hr' = [hr EXCEPT ![e] = None]
    /\ UNCHANGED <<aborts, live, door, client, server>>

\* An exception or a lost worker ends the override between two calls.
OverrideStops(e) ==
    /\ hr[e] # None /\ aborts < setting.maxAborts
    /\ aborts' = aborts + 1
    /\ hr' = [hr EXCEPT ![e] = None]
    /\ UNCHANGED <<door, store, client, server>>

Override(e) == OverrideMark(e) \/ OverrideLog(e) \/ OverrideRegenerate(e) \/ OverrideStops(e)

-----------------------------------------------------------------------------
(* The agent.                                                              *)

\* A run that sends this date's file: there is one every night until that of
\* the 1st of the next month, which sends the month's file for the last time.
AgentStart ==
    /\ agent = "off" /\ nights > 0
    /\ setting.nightly => now = EndOfDay
    /\ agent' = "send" /\ attempt' = 1 /\ nights' = nights - 1
    /\ UNCHANGED <<conn, okFile, rewritten, door, store, server, half>>

\* Mutant: the attempts are counted but not limited.
NextAttemptUnlimited == agent' = "send" /\ attempt' = attempt + 1

\* Another attempt after a pause, or GIVE UP.
NextAttempt ==
    IF attempt < MaxAttempts
    THEN agent' = "send" /\ attempt' = attempt + 1
    ELSE agent' = "off" /\ attempt' = 1

\* The request reaches the server.
Accept(h) ==
    /\ agent = "send" /\ pc[h] = "free"
    /\ agent' = "wait" /\ conn' = h
    /\ pc' = [pc EXCEPT ![h] = "load"]
    /\ body' = [body EXCEPT ![h] = file]
    /\ cur' = [cur EXCEPT ![h] = 1]
    /\ entered' = [entered EXCEPT ![h] = {}]
    /\ resend' = [resend EXCEPT ![h] = IF file = okFile THEN Emp \ rewritten ELSE {}]
    /\ UNCHANGED <<attempt, nights, okFile, rewritten, door, store, half>>

\* The request is lost on the way.
SendFails ==
    /\ agent = "send"
    /\ NextAttempt
    /\ UNCHANGED <<conn, nights, okFile, rewritten, door, store, server, half>>

Freed(h) ==
    /\ pc' = [pc EXCEPT ![h] = "free"]
    /\ body' = [body EXCEPT ![h] = NoTaps]
    /\ cur' = [cur EXCEPT ![h] = 1]
    /\ entered' = [entered EXCEPT ![h] = {}]
    /\ resend' = [resend EXCEPT ![h] = {}]

\* The answer arrives: "OK" in the agent's log, and the run ends.
AgentOk(h) ==
    /\ agent = "wait" /\ conn = h /\ pc[h] = "reply"
    /\ agent' = "off" /\ attempt' = 1 /\ conn' = None
    /\ okFile' = body[h] /\ rewritten' = entered[h]
    /\ Freed(h)
    /\ UNCHANGED <<nights, door, store, half>>

\* No answer within --max-time, an error status, or a broken connection.
AnswerFails ==
    /\ agent = "wait"
    /\ conn' = None
    /\ NextAttempt
    /\ UNCHANGED <<nights, okFile, rewritten, door, store, server, half>>

-----------------------------------------------------------------------------
(* The import.                                                             *)

\* On to the file's next employee, or to the answer.
Advance(h) ==
    /\ cur' = [cur EXCEPT ![h] = @ + 1]
    /\ pc' = [pc EXCEPT ![h] = IF cur[h] = Employees THEN "reply" ELSE "load"]
    /\ UNCHANGED <<body, entered, resend>>

Goto(h, l) == pc' = [pc EXCEPT ![h] = l] /\ UNCHANGED <<body, cur, entered, resend>>

\* Mutant: an unknown or terminated employee ends the import.
SkipGroupEnds(h) ==
    /\ pc[h] = "load"
    /\ body[h][cur[h]] = {} \/ cur[h] \notin Eligible
    /\ Goto(h, "reply")
    /\ UNCHANGED <<door, store, client, half>>

\* No group in the file, or an unknown or terminated employee.
SkipGroup(h) ==
    /\ pc[h] = "load"
    /\ body[h][cur[h]] = {} \/ cur[h] \notin Eligible
    /\ Advance(h)
    /\ UNCHANGED <<door, store, client, half>>

\* Mutant: only the import's own logs count as a clock-in.
HasInOwn(logs) == \E l \in logs : l.by = "nfc"

HasIn(logs) == Cardinality(logs) >= 1

\* Mutant: an existing clock-out does not count.
HasOutNever(logs) == FALSE
HasOut(logs) == Cardinality(logs) >= 2

LaterThan(latest, effectiveIn) == latest > effectiveIn

\* Mutant: an empty day is left to the next run.
LoadPunchStateSkipsEmpty(h) ==
    /\ pc[h] = "load"
    /\ body[h][cur[h]] # {} /\ cur[h] \in Eligible
    /\ Advance(h)
    /\ UNCHANGED <<door, store, client, half>>

\* _load_punch_state, and which sides _fill_group_gaps will fill.
LoadPunchState(h) ==
    /\ pc[h] = "load"
    /\ body[h][cur[h]] # {} /\ cur[h] \in Eligible
    /\ LET existing == LogsOf(cur[h])
       IN \/ ~HasIn(existing) /\ Goto(h, "fill_in")
          \/ /\ HasIn(existing) /\ ~HasOut(existing)
             /\ IF LaterThan(Max(body[h][cur[h]]), Min(TimesOf(cur[h])))
                THEN Goto(h, "fill_out")
                ELSE Advance(h)
          \/ HasIn(existing) /\ HasOut(existing) /\ Advance(h)
    /\ UNCHANGED <<door, store, client, half>>

Fill(h, t) ==
    /\ live' = live \union {NewLog(cur[h], t, "nfc")}
    /\ UNCHANGED <<row, door, client, half>>

FillIn(h) ==
    /\ pc[h] = "fill_in"
    /\ LET day == body[h][cur[h]]
       IN /\ Fill(h, Min(day))
          /\ Goto(h, IF LaterThan(Max(day), Min(day)) THEN "fill_out" ELSE "regen")

FillOut(h) ==
    /\ pc[h] = "fill_out"
    /\ Fill(h, Max(body[h][cur[h]]))
    /\ Goto(h, "regen")

\* generate_daily_summary for a day that was filled.
Regenerate(h) ==
    /\ pc[h] = "regen"
    /\ row' = [row EXCEPT ![cur[h]] = Filo(TimesOf(cur[h]))]
    /\ Advance(h)
    /\ UNCHANGED <<live, door, client, half>>

\* An answer nobody waits for.
Discard(h) ==
    /\ pc[h] = "reply" /\ conn # h
    /\ Freed(h)
    /\ UNCHANGED <<door, store, client, half>>

\* An exception or a lost worker ends the import between two calls.
Abort(h) ==
    /\ pc[h] \in Running /\ aborts < setting.maxAborts
    /\ aborts' = aborts + 1
    /\ Freed(h)
    /\ UNCHANGED <<hr, door, store, client>>

Import(h) ==
    \/ SkipGroup(h) \/ LoadPunchState(h) \/ FillIn(h) \/ FillOut(h)
    \/ Regenerate(h) \/ Discard(h)

Agent == AgentStart \/ SendFails \/ AnswerFails \/ \E h \in Handlers : Accept(h) \/ AgentOk(h)

Next ==
    \/ Tick \/ Export
    \/ \E e \in Emp : Tap(e) \/ PhonePunch(e) \/ Override(e)
    \/ Agent
    \/ \E h \in Handlers : Import(h) \/ Abort(h)

Spec == Init /\ [][Next]_vars

\* The Task Scheduler runs the agent after midnight as long as a run sends the
\* file, curl's --max-time ends every wait, and the server does not sleep for
\* ever.  The network promises nothing.
Fairness ==
    /\ WF_vars(Tick) /\ WF_vars(Export)
    /\ WF_vars(now = EndOfDay /\ AgentStart)
    /\ WF_vars(SendFails \/ AnswerFails \/ \E h \in Handlers : AgentOk(h))
    /\ \A h \in Handlers : WF_vars(Import(h))

FairSpec == Spec /\ Fairness

-----------------------------------------------------------------------------
(* Correctness.                                                            *)

\* The import, with its retries, overlaps and crashes, is a gap fill: run as
\* scheduled, it never adds a third time or moves a punched one, however often
\* the file is sent.  A day that HR imports by hand, or has entries for, stays
\* open for it.
Open == ~setting.nightly \/ setting.overrides # {} \/ now < EndOfDay
Promise == INSTANCE GapFill WITH open <- Open, times <- [e \in Emp |-> TimesOf(e)]
ImplementsGapFill == Promise!Spec

\* What the file can do for an employee has been done: there are two logs, as
\* the import counts them (two of one instant too), or the last tap is not
\* later than the one there is.
Covered(e, day) ==
    day # {} /\ e \in Eligible =>
        /\ TimesOf(e) # {}
        /\ Cardinality(LogsOf(e)) >= 2 \/ Max(day) <= Min(TimesOf(e))

\* An attempt that the agent logs as OK has covered every employee in its
\* file, whatever other attempts and half-written overrides did before and
\* meanwhile; except those of whom HR has taken logs back since it began.
SuccessCovers ==
    [][\A h \in Handlers : AgentOk(h) => \A e \in Emp \ entered[h] : Covered(e, body[h][e])]_vars

\* Re-importing what has been imported adds nothing, even while phones punch,
\* HR is half-way through an entry and attempts that timed out before are
\* still running; as long as HR has taken no log of the employee back since
\* the import that was logged as OK began.
ReimportIsNoop ==
    [][\A h \in Handlers : cur[h] \in resend[h] /\ Import(h) => live' = live]_vars

\* Two logs of one instant count as clock-in and clock-out.
Doubled(e) == \E k, l \in LogsOf(e) : k # l /\ k.time = l.time

\* A day shows its taps: first and last time differ, or there is nothing later.
Shown(e, day) ==
    /\ TimesOf(e) # {}
    /\ Cardinality(TimesOf(e)) >= 2 \/ \A t \in day : t <= Min(TimesOf(e))

\* The file of the complete day has not been logged as OK when the last run
\* that sends it is over.
GivenUp == nights = 0 /\ agent = "off" /\ okFile # taps

\* A tap shows in the end, although requests and answers are lost and imports
\* stop half-way, unless every run that sent the complete day gave up, HR took
\* back what the day held, or an import that overlapped another has doubled a
\* time.
TapsReachTheLog ==
    \A e \in Eligible :
        taps[e] # {} ~> Shown(e, taps[e]) \/ GivenUp \/ e \in rewritten \/ Doubled(e)

=============================================================================
