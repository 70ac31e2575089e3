-------------------------- MODULE NfcImportProofs --------------------------
(***************************************************************************)
(* Theorems about NfcImport, for any number of employees, handlers,        *)
(* attempts, ticks, and any settings.  Logs that count are only added to,  *)
(* except by HR, so what a handler has found covered stays covered while   *)
(* it goes on; and once the date is over every handler has the same file,  *)
(* so whatever the order in which two of them fill a day, each fill is the *)
(* one the other would have made.                                          *)
(***************************************************************************)
EXTENDS NfcImport, FiniteSetTheorems, WellFoundedInduction, TLAPS

----------------------------------------------------------------------------
(* The inductive invariant.                                                *)

\* Where a handler is, in the file's order.
PlaceInv ==
    \A h \in Handlers :
        /\ pc[h] \in Running => cur[h] \in Emp
        /\ pc[h] = "reply" => cur[h] = Employees + 1
        /\ pc[h] = "free" => cur[h] = 1 /\ resend[h] = {}
        /\ pc[h] \in {"fill_in", "fill_out", "regen"} =>
               body[h][cur[h]] # {} /\ cur[h] \in Eligible

\* What a handler is done with.
Passed(h) == {e \in Emp : e < cur[h] \/ (e = cur[h] /\ pc[h] = "regen")}

\* The step in which HR takes back what e's day held.
TakesBack(e) == OverrideLog(e) /\ hr[e].marked # {}

\* Who must stay covered: those a handler is done with, and everybody in a
\* file that has been logged as OK, until HR takes logs of theirs back.
CoverOf(h) ==
    /\ \A e \in Emp : e \in Passed(h) \ entered[h] \/ e \in resend[h] => Covered(e, body[h][e])
    /\ cur[h] \in resend[h] => pc[h] \notin {"fill_in", "fill_out"}

OkCovered == okFile \in Files => \A e \in Emp \ rewritten : Covered(e, okFile[e])

CoverInv == OkCovered /\ \A h \in Handlers : CoverOf(h)

\* What can count for e when a handler is about to fill in a clock-in, or a
\* clock-out, from the taps.
InStates(day) == {{}, {Min(day)}, {Min(day), Max(day)}}
OutStates(day) == {ts \in SUBSET Instants :
                      \E x \in Instants : x < Max(day) /\ ts \in {{x}, {x, Max(day)}}}

\* The scheduled import: nothing is exported or sent before the date is over,
\* and then there is one file.
Scheduled == setting.nightly /\ setting.overrides = {}

ScheduleOf(h) ==
    /\ now < EndOfDay => pc[h] = "free"
    /\ pc[h] # "free" => body[h] \in {NoTaps, taps}
    /\ pc[h] = "fill_in" => TimesOf(cur[h]) \in InStates(body[h][cur[h]])
    /\ pc[h] = "fill_out" => TimesOf(cur[h]) \in OutStates(body[h][cur[h]])

ScheduleInv ==
    Scheduled =>
        /\ now < EndOfDay => file = NoTaps /\ agent = "off"
        /\ file \in {NoTaps, taps}
        /\ \A h \in Handlers : ScheduleOf(h)

\* An override is of an entry that HR makes, and takes back logs of its own
\* day.
MarkInv ==
    \A e \in Emp : hr[e] # None => setting.overrides # {} /\ \A l \in hr[e].marked : l.emp = e

IInv == TypeOK /\ IsFiniteSet(live) /\ PlaceInv /\ MarkInv /\ CoverInv /\ ScheduleInv

----------------------------------------------------------------------------
(* Smallest and largest.                                                   *)

\* Less-than as a relation.
Below == {p \in Nat \X Nat : p[1] < p[2]}

LEMMA BelowIsWellFounded == IsWellFoundedOn(Below, Nat)
  BY NatLessThanWellFounded DEF OpToRel, Below

\* A set of natural numbers that has an element has a smallest one.
LEMMA MinIsLeast ==
  ASSUME NEW S \in SUBSET Nat, S # {}
  PROVE  Min(S) \in S /\ \A y \in S : Min(S) <= y
<1>1. PICK x \in S : \A y \in S : ~(<<y, x>> \in Below)
  BY WFMin, BelowIsWellFounded
<1>2. ASSUME NEW y \in S PROVE x <= y
  <2>1. y \in Nat /\ x \in Nat /\ ~(<<y, x>> \in Below)
    BY <1>1
  <2> QED
    BY <2>1 DEF Below
<1> QED
  BY <1>2 DEF Min

\* One that is bounded has a largest one.
LEMMA MaxIsGreatest ==
  ASSUME NEW n \in Int, NEW S \in SUBSET (0 .. n), S # {}
  PROVE  Max(S) \in S /\ \A y \in S : Max(S) >= y
<1> DEFINE T == {n - y : y \in S}
<1>1. \A y \in S : y \in Int /\ n - y \in Nat
  OBVIOUS
<1>2. T \in SUBSET Nat
  BY <1>1
<1>3. T # {}
  OBVIOUS
<1>4. PICK m \in T : \A z \in T : m <= z
  BY <1>2, <1>3, MinIsLeast
<1>5. PICK x \in S : m = n - x
  BY <1>4
<1>6. ASSUME NEW y \in S PROVE x >= y
  <2>1. n - y \in T
    OBVIOUS
  <2>2. n - x <= n - y
    BY <2>1, <1>4, <1>5
  <2> QED
    BY <2>2, <1>1
<1> QED
  BY <1>6 DEF Max

\* Both of the taps of a day.
LEMMA FirstAndLastTap ==
  ASSUME NEW S \in SUBSET Instants, S # {}
  PROVE  /\ Min(S) \in S /\ Max(S) \in S /\ Min(S) \in Nat /\ Max(S) \in Nat
         /\ \A y \in S : Min(S) <= y /\ y <= Max(S)
<1>1. S \in SUBSET Nat /\ EndOfDay - 1 \in Int /\ S \in SUBSET (0 .. (EndOfDay - 1))
  BY NfcAssumption DEF Instants
<1>2. Min(S) \in S /\ \A y \in S : Min(S) <= y
  BY <1>1, MinIsLeast
<1>3. Max(S) \in S /\ \A y \in S : Max(S) >= y
  BY <1>1, MaxIsGreatest
<1> QED
  BY <1>1, <1>2, <1>3

----------------------------------------------------------------------------
(* The log of a day.                                                       *)

\* How many logs count for somebody is a number.
LEMMA LogsAreFinite ==
  ASSUME IsFiniteSet(live), NEW e
  PROVE  IsFiniteSet(LogsOf(e)) /\ Cardinality(LogsOf(e)) \in Nat
<1>1. LogsOf(e) \in SUBSET live
  BY DEF LogsOf
<1> QED
  BY <1>1, FS_Subset, FS_CardinalityType

\* What the import's two questions about the number of logs mean.
LEMMA InMeansSome ==
  ASSUME IsFiniteSet(live), NEW e
  PROVE  HasIn(LogsOf(e)) <=> LogsOf(e) # {}
<1>1. Cardinality(LogsOf(e)) = 0 <=> LogsOf(e) = {}
  BY LogsAreFinite, FS_EmptySet
<1> QED
  BY <1>1, LogsAreFinite DEF HasIn

LEMMA OnlyInMeansOne ==
  ASSUME IsFiniteSet(live), NEW e, HasIn(LogsOf(e)), ~HasOut(LogsOf(e))
  PROVE  \E l \in LogsOf(e) : LogsOf(e) = {l}
<1>1. Cardinality(LogsOf(e)) = 1
  BY LogsAreFinite DEF HasIn, HasOut
<1>2. PICK l : LogsOf(e) = {l}
  BY <1>1, LogsAreFinite, FS_Singleton
<1> QED
  BY <1>2

\* A new log is a log, of the employee and the time.
LEMMA NewLogIsLog ==
  ASSUME IsFiniteSet(live), NEW e \in Emp, NEW t \in Instants, NEW by \in {"phone", "bulk", "nfc"}
  PROVE  /\ NewLog(e, t, by) \in Log
         /\ NewLog(e, t, by).emp = e /\ NewLog(e, t, by).time = t
<1> DEFINE same == {k \in LogsOf(e) : k.time = t /\ k.by = by}
           used == {l.n : l \in same}
           c == Cardinality(used)
<1>1. IsFiniteSet(same)
  <2>1. same \in SUBSET LogsOf(e)
    OBVIOUS
  <2> QED
    BY <2>1, LogsAreFinite, FS_Subset
<1>2. IsFiniteSet(used) /\ c \in Nat
  <2>1. IsFiniteSet(used)
    <3> DEFINE f == [l \in same |-> l.n]
    <3>1. f \in Surjection(same, used)
      BY DEF Surjection
    <3> QED
      BY <1>1, <3>1, FS_Surjection
  <2> QED
    BY <2>1, FS_CardinalityType
<1>3. \E n \in 0 .. c : n \notin used
  <2> SUFFICES ASSUME 0 .. c \subseteq used PROVE FALSE
    OBVIOUS
  <2>1. Cardinality(0 .. c) = c + 1
    BY <1>2, FS_Interval
  <2>2. Cardinality(0 .. c) <= c
    BY <1>2, FS_Subset
  <2> HIDE DEF c
  <2> QED
    BY <1>2, <2>1, <2>2
<1> DEFINE n == CHOOSE m \in 0 .. c : m \notin used
<1>4. n \in Nat
  <2> HIDE DEF used, c
  <2> QED
    BY <1>2, <1>3
<1>5. NewLog(e, t, by) = [emp |-> e, time |-> t, by |-> by, n |-> n]
  BY DEF NewLog
<1> HIDE DEF n
<1> QED
  BY <1>4, <1>5 DEF Log

\* The effect of one more log.
LEMMA OneMoreLog ==
  ASSUME NEW l, live' = live \union {l}, NEW e
  PROVE  /\ e = l.emp => /\ LogsOf(e)' = LogsOf(e) \union {l}
                         /\ TimesOf(e)' = TimesOf(e) \union {l.time}
         /\ e # l.emp => LogsOf(e)' = LogsOf(e) /\ TimesOf(e)' = TimesOf(e)
<1>1. CASE e = l.emp
  <2>1. LogsOf(e)' = LogsOf(e) \union {l}
    BY <1>1 DEF LogsOf
  <2> QED
    BY <1>1, <2>1 DEF TimesOf
<1>2. CASE e # l.emp
  <2>1. LogsOf(e)' = LogsOf(e)
    BY <1>2 DEF LogsOf
  <2> QED
    BY <1>2, <2>1 DEF TimesOf
<1> QED
  BY <1>1, <1>2

\* The times that count are instants of the date, and there is one if there
\* is a log.
LEMMA TimesAreInstants ==
  ASSUME TypeOK, NEW e
  PROVE  TimesOf(e) \in SUBSET Instants /\ (TimesOf(e) = {} <=> LogsOf(e) = {})
<1>1. live \in SUBSET Log
  BY DEF TypeOK
<1> QED
  BY <1>1 DEF TimesOf, LogsOf, Log

\* Whoever is covered stays covered when another log is added.
LEMMA CoveredStays ==
  ASSUME IsFiniteSet(live), NEW l, live' = live \union {l}, NEW e, NEW day, Covered(e, day)
  PROVE  Covered(e, day)'
<1>1. CASE e # l.emp \/ l \in live
  <2>1. LogsOf(e)' = LogsOf(e)
    <3>1. CASE e # l.emp
      BY <3>1, OneMoreLog
    <3>2. CASE l \in live
      BY <3>2 DEF LogsOf
    <3> QED
      BY <1>1, <3>1, <3>2
  <2>2. TimesOf(e)' = TimesOf(e)
    BY <2>1 DEF TimesOf
  <2> QED
    BY <2>1, <2>2 DEF Covered
<1>2. CASE e = l.emp /\ l \notin live
  <2> SUFFICES ASSUME day # {} /\ e \in Eligible
               PROVE  TimesOf(e)' # {} /\ Cardinality(LogsOf(e)') >= 2
    BY DEF Covered
  <2>1. LogsOf(e)' = LogsOf(e) \union {l} /\ l \notin LogsOf(e)
    BY <1>2, OneMoreLog DEF LogsOf
  <2>2. Cardinality(LogsOf(e)') = Cardinality(LogsOf(e)) + 1
    BY <2>1, LogsAreFinite, FS_AddElement
  <2>3. LogsOf(e) # {}
    BY DEF Covered, TimesOf
  <2>4. Cardinality(LogsOf(e)) \in Nat /\ Cardinality(LogsOf(e)) # 0
    BY <2>3, LogsAreFinite, FS_EmptySet
  <2>5. TimesOf(e)' # {}
    BY <2>1 DEF TimesOf
  <2> QED
    BY <2>2, <2>4, <2>5
<1> QED
  BY <1>1, <1>2

----------------------------------------------------------------------------
(* Types and places.                                                       *)

\* The summary of a set of times.
LEMMA FiloIsRow ==
  ASSUME NEW ts \in SUBSET Instants
  PROVE  Filo(ts) \in {None} \union (Instants \X Instants)
<1>1. CASE ts = {}
  BY <1>1 DEF Filo
<1>2. CASE ts # {}
  <2>1. Min(ts) \in Instants /\ Max(ts) \in Instants
    BY <1>2, FirstAndLastTap
  <2> QED
    BY <1>2, <2>1 DEF Filo
<1> QED
  BY <1>1, <1>2

LEMMA InitInv == Init => IInv
<1> SUFFICES ASSUME Init PROVE IInv
  OBVIOUS
<1>1. NoTaps \in Files
  BY DEF NoTaps, Files
<1>2. TypeOK
  <2>1. now \in 0 .. EndOfDay /\ attempt \in 1 .. MaxAttempts /\ 1 \in 1 .. (Employees + 1)
    BY NfcAssumption DEF Init
  <2>2. aborts \in 0 .. setting.maxAborts /\ setting \in Settings
    BY NfcAssumption DEF Init
  <2>3. nights \in 0 .. setting.nights
    BY NfcAssumption DEF Init
  <2> QED
    BY <1>1, <2>1, <2>2, <2>3 DEF Init, TypeOK
<1>3. IsFiniteSet(live)
  BY FS_EmptySet DEF Init
<1>4. PlaceInv
  BY DEF Init, PlaceInv, Running
<1>5. CoverInv
  <2>1. \A h \in Handlers : Passed(h) = {} /\ resend[h] = {}
    BY NfcAssumption DEF Init, Passed, Emp
  <2>2. okFile \notin Files
    BY NfcAssumption DEF Init
  <2> QED
    BY <2>1, <2>2 DEF CoverInv, CoverOf, OkCovered
<1>6. ScheduleInv
  BY DEF Init, ScheduleInv, ScheduleOf
<1>7. MarkInv
  BY DEF Init, MarkInv
<1> QED
  BY <1>2, <1>3, <1>4, <1>5, <1>6, <1>7 DEF IInv

\* A step of a handler to another place.
LEMMA PcTypes ==
  ASSUME TypeOK, NEW h \in Handlers, NEW p \in {"free", "reply"} \union Running
  PROVE  [pc EXCEPT ![h] = p] \in [Handlers -> {"free", "reply"} \union Running]
  BY DEF TypeOK

\* The date, the door and the agent keep their types.
LEMMA AgentTypes ==
  ASSUME IInv, Tick \/ Export \/ Agent \/ \E e \in Emp : Tap(e)
  PROVE  TypeOK' /\ IsFiniteSet(live)' /\ PlaceInv'
<1>0. TypeOK /\ IsFiniteSet(live) /\ PlaceInv
  BY DEF IInv
<1> DEFINE idle == UNCHANGED <<pc, body, cur, entered, resend>>
<1>1. NextAttempt => agent' \in {"off", "send", "wait"} /\ attempt' \in 1 .. MaxAttempts
  BY <1>0, NfcAssumption DEF NextAttempt, TypeOK
<1>2. CASE Tick
  <2>1. now' \in 0 .. EndOfDay
    BY <1>0, <1>2, NfcAssumption DEF Tick, TypeOK
  <2> QED
    BY <1>0, <1>2, <2>1 DEF Tick, TypeOK, PlaceInv, store, client, server, half
<1>3. CASE Export
  BY <1>0, <1>3 DEF Export, TypeOK, PlaceInv, store, client, server, half
<1>4. ASSUME NEW e \in Emp, Tap(e) PROVE TypeOK' /\ IsFiniteSet(live)' /\ PlaceInv'
  <2>1. now \in Instants
    BY <1>0, <1>4, NfcAssumption DEF TypeOK, Tap, Instants
  <2>2. taps' \in Files
    BY <1>0, <1>4, <2>1 DEF Tap, TypeOK, Files
  <2> QED
    BY <1>0, <1>4, <2>2 DEF Tap, TypeOK, PlaceInv, store, client, server, half
<1>5. CASE AgentStart
  <2>1. attempt' \in 1 .. MaxAttempts /\ nights' \in 0 .. setting.nights
    BY <1>0, <1>5, NfcAssumption DEF AgentStart, TypeOK
  <2> QED
    BY <1>0, <1>5, <2>1 DEF AgentStart, TypeOK, PlaceInv, door, store, server, half
<1>6. CASE SendFails
  BY <1>0, <1>1, <1>6 DEF SendFails, TypeOK, PlaceInv, door, store, server, half
<1>7. CASE AnswerFails
  BY <1>0, <1>1, <1>7 DEF AnswerFails, TypeOK, PlaceInv, door, store, server, half
<1>8. ASSUME NEW h \in Handlers, Accept(h) PROVE TypeOK' /\ IsFiniteSet(live)' /\ PlaceInv'
  <2>1. pc' \in [Handlers -> {"free", "reply"} \union Running]
    BY <1>0, <1>8, PcTypes DEF Accept, Running
  <2>2. body' \in [Handlers -> Files] /\ entered' \in [Handlers -> SUBSET Emp] /\ resend' \in [Handlers -> SUBSET Emp]
    BY <1>0, <1>8 DEF Accept, TypeOK
  <2>3. cur' \in [Handlers -> 1 .. (Employees + 1)] /\ 1 \in Emp
    BY <1>0, <1>8, NfcAssumption DEF Accept, TypeOK, Emp
  <2>4. TypeOK'
    BY <1>0, <1>8, <2>1, <2>2, <2>3 DEF Accept, TypeOK, door, store, half
  <2>5. PlaceInv'
    <3> SUFFICES ASSUME NEW g \in Handlers
                 PROVE  /\ pc'[g] \in Running => cur'[g] \in Emp
                        /\ pc'[g] = "reply" => cur'[g] = Employees + 1
                        /\ pc'[g] = "free" => cur'[g] = 1 /\ resend'[g] = {}
                        /\ pc'[g] \in {"fill_in", "fill_out", "regen"} =>
                               body'[g][cur'[g]] # {} /\ cur'[g] \in Eligible
      BY DEF PlaceInv
    <3>1. CASE g = h
      BY <1>0, <1>8, <2>3, <3>1 DEF Accept, TypeOK, Running
    <3>2. CASE g # h
      BY <1>0, <1>8, <3>2 DEF Accept, TypeOK, PlaceInv
    <3> QED
      BY <3>1, <3>2
  <2> QED
    BY <1>0, <1>8, <2>4, <2>5 DEF Accept, store
<1>9. ASSUME NEW h \in Handlers, AgentOk(h) PROVE TypeOK' /\ IsFiniteSet(live)' /\ PlaceInv'
  <2>1. pc' \in [Handlers -> {"free", "reply"} \union Running]
    BY <1>0, <1>9, PcTypes DEF AgentOk, Freed
  <2>2. body' \in [Handlers -> Files] /\ entered' \in [Handlers -> SUBSET Emp] /\ resend' \in [Handlers -> SUBSET Emp] /\ NoTaps \in Files
    BY <1>0, <1>9 DEF AgentOk, Freed, TypeOK, NoTaps, Files
  <2>3. cur' \in [Handlers -> 1 .. (Employees + 1)] /\ attempt' \in 1 .. MaxAttempts
    BY <1>0, <1>9, NfcAssumption DEF AgentOk, Freed, TypeOK
  <2>4. TypeOK'
    BY <1>0, <1>9, <2>1, <2>2, <2>3 DEF AgentOk, TypeOK, door, store, half
  <2>5. PlaceInv'
    BY <1>0, <1>9 DEF AgentOk, Freed, PlaceInv, TypeOK, Running
  <2> QED
    BY <1>0, <1>9, <2>4, <2>5 DEF AgentOk, store
<1> QED
  BY <1>2, <1>3, <1>4, <1>5, <1>6, <1>7, <1>8, <1>9 DEF Agent

\* So do punches.
LEMMA PunchTypes ==
  ASSUME IInv, NEW e \in Emp, PhonePunch(e)
  PROVE  TypeOK' /\ IsFiniteSet(live)' /\ PlaceInv'
<1>0. TypeOK /\ IsFiniteSet(live) /\ PlaceInv
  BY DEF IInv
<1>1. now \in Instants
  BY <1>0, NfcAssumption DEF TypeOK, PhonePunch, Instants
<1>2. NewLog(e, now, "phone") \in Log
  BY <1>0, <1>1, NewLogIsLog
<1>3. live' \in SUBSET Log /\ IsFiniteSet(live')
  BY <1>0, <1>2, FS_AddElement DEF PhonePunch, TypeOK
<1>4. Filo(TimesOf(e) \union {now}) \in {None} \union (Instants \X Instants)
  BY <1>0, <1>1, TimesAreInstants, FiloIsRow
<1>5. row' \in [Emp -> {None} \union (Instants \X Instants)]
  BY <1>0, <1>4 DEF PhonePunch, TypeOK
<1> QED
  BY <1>0, <1>3, <1>5 DEF PhonePunch, TypeOK, PlaceInv, door, client, server, half

\* One side of an entry is an instant, and what is left of it a list of them.
LEMMA NextSide ==
  ASSUME TypeOK, NEW e \in Emp, OverrideLog(e)
  PROVE  /\ Head(hr[e].todo) \in Instants /\ Tail(hr[e].todo) \in Seq(Instants)
         /\ hr[e].marked \in SUBSET Log
<1>1. hr[e] \in [todo : Seq(Instants), marked : SUBSET Log] /\ hr[e].todo # <<>>
  BY DEF TypeOK, OverrideLog
<1>2. hr[e].todo \in Seq(Instants) /\ hr[e].todo # <<>> /\ hr[e].marked \in SUBSET Log
  BY <1>1
<1> QED
  BY <1>2

\* So do the steps of HR's entries.
LEMMA OverrideTypes ==
  ASSUME IInv, NEW e \in Emp, Override(e)
  PROVE  TypeOK' /\ IsFiniteSet(live)' /\ PlaceInv'
<1>0. TypeOK /\ IsFiniteSet(live) /\ PlaceInv
  BY DEF IInv
<1>1. CASE OverrideMark(e)
  <2>1. PICK entry \in setting.overrides : hr' = [hr EXCEPT ![e] = [todo |-> entry[2], marked |-> LogsOf(e)]]
    BY <1>1 DEF OverrideMark
  <2>2. entry[2] \in Seq(Instants)
    <3>1. entry \in Emp \X Sides
      BY <1>0, NfcAssumption DEF TypeOK
    <3>2. entry[2] \in Sides
      BY <3>1
    <3>3. ASSUME NEW t \in Instants PROVE <<t>> \in Seq(Instants)
      OBVIOUS
    <3>4. ASSUME NEW p \in Instants \X Instants PROVE p \in Seq(Instants)
      <4>1. p = <<p[1], p[2]>> /\ p[1] \in Instants /\ p[2] \in Instants
        OBVIOUS
      <4>2. ASSUME NEW a \in Instants, NEW b \in Instants PROVE <<a, b>> \in Seq(Instants)
        OBVIOUS
      <4> QED
        BY <4>1, <4>2
    <3> QED
      BY <3>2, <3>3, <3>4 DEF Sides
  <2>3. LogsOf(e) \in SUBSET Log
    BY <1>0 DEF LogsOf, TypeOK
  <2>4. hr' \in [Emp -> {None} \union [todo : Seq(Instants), marked : SUBSET Log]]
    BY <1>0, <2>1, <2>2, <2>3 DEF TypeOK
  <2> QED
    BY <1>0, <1>1, <2>4 DEF OverrideMark, TypeOK, PlaceInv, door, store, client, server
<1>2. CASE OverrideLog(e)
  <2> DEFINE l == NewLog(e, Head(hr[e].todo), "bulk")
  <2>1. /\ Head(hr[e].todo) \in Instants /\ Tail(hr[e].todo) \in Seq(Instants)
    BY <1>0, <1>2, NextSide
  <2>2. l \in Log
    BY <1>0, <2>1, NewLogIsLog
  <2>3. live' = (live \ hr[e].marked) \union {l}
    BY <1>2 DEF OverrideLog
  <2> HIDE DEF l
  <2>4. live' \in SUBSET Log /\ IsFiniteSet(live')
    <3>1. IsFiniteSet(live \ hr[e].marked)
      BY <1>0, FS_Difference
    <3> QED
      BY <1>0, <2>2, <2>3, <3>1, FS_AddElement DEF TypeOK
  <2>5. hr' \in [Emp -> {None} \union [todo : Seq(Instants), marked : SUBSET Log]]
    BY <1>0, <1>2, <2>1 DEF OverrideLog, TypeOK
  <2>6. /\ rewritten' \in SUBSET Emp
        /\ entered' \in [Handlers -> SUBSET Emp] /\ resend' \in [Handlers -> SUBSET Emp]
    BY <1>0, <1>2 DEF OverrideLog, TakenBack, TypeOK
  <2>7. TypeOK'
    BY <1>0, <1>2, <2>4, <2>5, <2>6 DEF OverrideLog, TypeOK, door
  <2>8. PlaceInv'
    BY <1>0, <1>2 DEF OverrideLog, PlaceInv, TypeOK
  <2> QED
    BY <2>4, <2>7, <2>8
<1>3. CASE OverrideRegenerate(e)
  <2>1. Filo(TimesOf(e)) \in {None} \union (Instants \X Instants)
    BY <1>0, TimesAreInstants, FiloIsRow
  <2>2. /\ row' \in [Emp -> {None} \union (Instants \X Instants)]
        /\ hr' \in [Emp -> {None} \union [todo : Seq(Instants), marked : SUBSET Log]]
    BY <1>0, <1>3, <2>1 DEF OverrideRegenerate, TypeOK
  <2> QED
    BY <1>0, <1>3, <2>2 DEF OverrideRegenerate, TypeOK, PlaceInv, door, client, server
<1>4. CASE OverrideStops(e)
  <2>1. aborts' \in 0 .. setting.maxAborts
    BY <1>0, <1>4, NfcAssumption DEF OverrideStops, TypeOK
  <2>2. hr' \in [Emp -> {None} \union [todo : Seq(Instants), marked : SUBSET Log]]
    BY <1>0, <1>4 DEF OverrideStops, TypeOK
  <2> QED
    BY <1>0, <1>4, <2>1, <2>2 DEF OverrideStops, TypeOK, PlaceInv, door, store, client, server
<1> QED
  BY <1>1, <1>2, <1>3, <1>4 DEF Override

\* A handler goes on to the next employee.
LEMMA AdvancePlace ==
  ASSUME TypeOK, PlaceInv, NEW h \in Handlers, pc[h] \in Running, Advance(h)
  PROVE  /\ pc' \in [Handlers -> {"free", "reply"} \union Running]
         /\ cur' \in [Handlers -> 1 .. (Employees + 1)]
         /\ PlaceInv'
<1>1. cur[h] \in Emp /\ cur[h] \in Nat
  BY DEF PlaceInv, Emp
<1>2. pc' \in [Handlers -> {"free", "reply"} \union Running]
  BY PcTypes DEF Advance, Running
<1>3. cur[h] + 1 \in 1 .. (Employees + 1)
  BY <1>1, NfcAssumption DEF Emp
<1>4. cur' \in [Handlers -> 1 .. (Employees + 1)]
  BY <1>3 DEF Advance, TypeOK
<1>5. cur[h] # Employees => cur[h] + 1 \in Emp
  BY <1>1, NfcAssumption DEF Emp
<1>6. PlaceInv'
  <2> SUFFICES ASSUME NEW g \in Handlers
               PROVE  /\ pc'[g] \in Running => cur'[g] \in Emp
                      /\ pc'[g] = "reply" => cur'[g] = Employees + 1
                      /\ pc'[g] = "free" => cur'[g] = 1 /\ resend'[g] = {}
                      /\ pc'[g] \in {"fill_in", "fill_out", "regen"} =>
                             body'[g][cur'[g]] # {} /\ cur'[g] \in Eligible
    BY DEF PlaceInv
  <2>1. CASE g = h
    BY <1>5, <2>1 DEF Advance, TypeOK, Running
  <2>2. CASE g # h
    BY <2>2 DEF Advance, TypeOK, PlaceInv
  <2> QED
    BY <2>1, <2>2
<1> QED
  BY <1>2, <1>4, <1>6

\* A handler goes on with the same employee.
LEMMA GotoPlace ==
  ASSUME TypeOK, PlaceInv, NEW h \in Handlers, pc[h] \in Running,
         NEW p \in {"fill_in", "fill_out", "regen"}, Goto(h, p),
         body[h][cur[h]] # {}, cur[h] \in Eligible
  PROVE  /\ pc' \in [Handlers -> {"free", "reply"} \union Running]
         /\ PlaceInv'
<1>1. pc' \in [Handlers -> {"free", "reply"} \union Running]
  BY PcTypes DEF Goto, Running
<1>2. PlaceInv'
  BY DEF Goto, TypeOK, PlaceInv, Running
<1> QED
  BY <1>1, <1>2

\* Handlers and imports keep the types.
LEMMA HandlerTypes ==
  ASSUME IInv, NEW h \in Handlers, Import(h) \/ Abort(h)
  PROVE  TypeOK' /\ IsFiniteSet(live)' /\ PlaceInv'
<1>0. TypeOK /\ IsFiniteSet(live) /\ PlaceInv
  BY DEF IInv
<1>1. CASE (SkipGroup(h) \/ LoadPunchState(h)) /\ Advance(h)
  <2>1. pc[h] \in Running /\ UNCHANGED <<door, store, client, half>> /\ UNCHANGED <<body, entered, resend>>
    BY <1>1 DEF SkipGroup, LoadPunchState, Running, Advance
  <2>2. /\ pc' \in [Handlers -> {"free", "reply"} \union Running]
        /\ cur' \in [Handlers -> 1 .. (Employees + 1)] /\ PlaceInv'
    BY <1>0, <1>1, <2>1, AdvancePlace
  <2> QED
    BY <1>0, <2>1, <2>2 DEF TypeOK, door, store, client, half
<1>2. CASE LoadPunchState(h) /\ ~Advance(h)
  <2>1. PICK p \in {"fill_in", "fill_out", "regen"} : Goto(h, p)
    BY <1>2 DEF LoadPunchState
  <2>2. pc[h] \in Running /\ UNCHANGED <<door, store, client, half>> /\ UNCHANGED <<body, cur, entered, resend>>
        /\ body[h][cur[h]] # {} /\ cur[h] \in Eligible
    BY <1>2, <2>1 DEF LoadPunchState, Running, Goto
  <2>3. pc' \in [Handlers -> {"free", "reply"} \union Running] /\ PlaceInv'
    BY <1>0, <2>1, <2>2, GotoPlace
  <2> QED
    BY <1>0, <2>2, <2>3 DEF TypeOK, door, store, client, half
<1>3. CASE FillIn(h) \/ FillOut(h)
  <2> DEFINE day == body[h][cur[h]]
  <2>1. pc[h] \in {"fill_in", "fill_out"} /\ pc[h] \in Running
    BY <1>3 DEF FillIn, FillOut, Running
  <2>2. day # {} /\ cur[h] \in Eligible /\ cur[h] \in Emp /\ day \in SUBSET Instants
    BY <1>0, <2>1 DEF PlaceInv, TypeOK, Files
  <2>3. Min(day) \in Instants /\ Max(day) \in Instants
    BY <2>2, FirstAndLastTap
  <2>4. PICK t \in Instants, p \in {"fill_in", "fill_out", "regen"} : Fill(h, t) /\ Goto(h, p)
    BY <1>3, <2>3 DEF FillIn, FillOut
  <2>5. pc' \in [Handlers -> {"free", "reply"} \union Running] /\ PlaceInv'
    BY <1>0, <2>1, <2>2, <2>4, GotoPlace
  <2>6. NewLog(cur[h], t, "nfc") \in Log
    BY <1>0, <2>2, NewLogIsLog
  <2>7. live' \in SUBSET Log /\ IsFiniteSet(live')
    BY <1>0, <2>4, <2>6, FS_AddElement DEF Fill, TypeOK
  <2> QED
    BY <1>0, <2>4, <2>5, <2>7 DEF TypeOK, Fill, Goto, door, client, half
<1>4. CASE Regenerate(h)
  <2>1. pc[h] \in Running /\ Advance(h) /\ UNCHANGED <<live, door, client, half>> /\ UNCHANGED <<body, entered, resend>>
    BY <1>4 DEF Regenerate, Running, Advance
  <2>2. /\ pc' \in [Handlers -> {"free", "reply"} \union Running]
        /\ cur' \in [Handlers -> 1 .. (Employees + 1)] /\ PlaceInv'
    BY <1>0, <2>1, AdvancePlace
  <2>3. row' \in [Emp -> {None} \union (Instants \X Instants)]
    <3>1. Filo(TimesOf(cur[h])) \in {None} \union (Instants \X Instants)
      BY <1>0, TimesAreInstants, FiloIsRow
    <3> QED
      BY <1>0, <1>4, <3>1 DEF Regenerate, TypeOK
  <2> QED
    BY <1>0, <2>1, <2>2, <2>3 DEF TypeOK, door, client, half
<1>5. CASE Discard(h) \/ Abort(h)
  <2>0. Freed(h) /\ UNCHANGED <<hr, door, store, client>> /\ (Discard(h) => aborts' = aborts)
    BY <1>5 DEF Discard, Abort, half
  <2>1. Freed(h) /\ UNCHANGED <<hr, door, store, client>> /\ aborts' \in 0 .. setting.maxAborts
    <3>1. setting.maxAborts \in Nat /\ aborts \in 0 .. setting.maxAborts
      BY <1>0, NfcAssumption DEF TypeOK
    <3>2. Abort(h) => aborts' = aborts + 1 /\ aborts < setting.maxAborts
      BY DEF Abort
    <3> QED
      BY <1>5, <2>0, <3>1, <3>2
  <2>2. pc' \in [Handlers -> {"free", "reply"} \union Running]
    BY <1>0, <2>1, PcTypes DEF Freed
  <2>3. body' \in [Handlers -> Files] /\ entered' \in [Handlers -> SUBSET Emp] /\ resend' \in [Handlers -> SUBSET Emp]
    BY <1>0, <2>1 DEF Freed, TypeOK, NoTaps, Files
  <2>4. cur' \in [Handlers -> 1 .. (Employees + 1)]
    BY <1>0, <2>1, NfcAssumption DEF Freed, TypeOK
  <2>5. PlaceInv'
    BY <1>0, <2>1 DEF Freed, PlaceInv, TypeOK, Running
  <2> QED
    BY <1>0, <2>1, <2>2, <2>3, <2>4, <2>5 DEF TypeOK, door, store, client
<1> QED
  BY <1>1, <1>2, <1>3, <1>4, <1>5 DEF Import, SkipGroup

\* Every step keeps the types.
LEMMA TypeStep ==
  ASSUME IInv, [Next]_vars
  PROVE  TypeOK' /\ IsFiniteSet(live)' /\ PlaceInv'
<1>1. CASE UNCHANGED vars
  BY <1>1 DEF IInv, TypeOK, PlaceInv, vars
<1>2. CASE Next
  BY <1>2, AgentTypes, PunchTypes, OverrideTypes, HandlerTypes DEF Next
<1> QED
  BY <1>1, <1>2

----------------------------------------------------------------------------
(* Covered days.                                                           *)

\* No step changes the setting.
LEMMA SettingStays == ASSUME [Next]_vars PROVE setting' = setting
  BY DEF Next, Tick, Export, Tap, PhonePunch, Override, OverrideMark, OverrideLog, OverrideRegenerate,
         OverrideStops, Agent, AgentStart, SendFails, AnswerFails, Accept, AgentOk, Import, SkipGroup,
         LoadPunchState, FillIn, FillOut, Fill, Regenerate, Discard, Abort, door, client, server, vars

\* The step that takes logs back is seen in the override itself, so no other
\* actor's step is one.
LEMMA OthersTakeNothing ==
  ASSUME IInv, NEW e \in Emp, hr' = hr
  PROVE  ~TakesBack(e)
<1> SUFFICES ASSUME TakesBack(e) PROVE FALSE
  OBVIOUS
<1>1. hr'[e].marked = {}
  BY DEF IInv, TypeOK, TakesBack, OverrideLog
<1> QED
  BY <1>1 DEF TakesBack

\* An override takes back logs of one employee.
LEMMA OnlyItsOwn ==
  ASSUME IInv, NEW d \in Emp, OverrideLog(d), NEW e \in Emp, TakesBack(e)
  PROVE  e \in TakenBack(d)
<1>1. CASE e = d
  BY <1>1 DEF TakesBack, TakenBack
<1>2. CASE e # d
  <2>1. hr'[e].marked = {} /\ hr'[e] = hr[e]
    BY <1>2 DEF IInv, TypeOK, TakesBack, OverrideLog
  <2> QED
    BY <2>1 DEF TakesBack
<1> QED
  BY <1>1, <1>2

\* An override writes the log of its own day.
LEMMA OverriddenDay ==
  ASSUME IInv, NEW e \in Emp, OverrideLog(e)
  PROVE  /\ \A d : d # e => LogsOf(d)' = LogsOf(d)
         /\ ~TakesBack(e) => \E l : live' = live \union {l}
<1> DEFINE l == NewLog(e, Head(hr[e].todo), "bulk")
<1>1. l.emp = e /\ live' = (live \ hr[e].marked) \union {l}
  BY NextSide, NewLogIsLog DEF IInv, OverrideLog
<1>2. \A m \in hr[e].marked : m.emp = e
  BY DEF IInv, MarkInv, OverrideLog
<1> HIDE DEF l
<1>3. \A d : d # e => LogsOf(d)' = LogsOf(d)
  BY <1>1, <1>2 DEF LogsOf
<1>4. ~TakesBack(e) => live' = live \union {l}
  BY <1>1 DEF TakesBack
<1> QED
  BY <1>3, <1>4

\* Logs that count are added one by one; only HR takes some back.
LEMMA WhatLogsDo ==
  ASSUME IInv, [Next]_vars
  PROVE  live' = live \/ (\E l : live' = live \union {l}) \/ \E e \in Emp : TakesBack(e) /\ OverrideLog(e)
<1>1. CASE UNCHANGED vars
  BY <1>1 DEF vars
<1>2. CASE Tick \/ Export \/ Agent \/ \E e \in Emp : Tap(e)
  BY <1>2 DEF Tick, Export, Agent, Tap, AgentStart, SendFails, AnswerFails, Accept, AgentOk, store
<1>3. ASSUME NEW e \in Emp, PhonePunch(e) PROVE \E l : live' = live \union {l}
  BY <1>3 DEF PhonePunch
<1>4. ASSUME NEW h \in Handlers, FillIn(h) \/ FillOut(h) PROVE \E l : live' = live \union {l}
  BY <1>4 DEF FillIn, FillOut, Fill
<1>5. ASSUME NEW h \in Handlers, SkipGroup(h) \/ LoadPunchState(h) \/ Regenerate(h) \/ Discard(h) \/ Abort(h)
      PROVE  live' = live
  BY <1>5 DEF SkipGroup, LoadPunchState, Regenerate, Discard, Abort, store
<1>6. ASSUME NEW e \in Emp, OverrideMark(e) \/ OverrideRegenerate(e) \/ OverrideStops(e) PROVE live' = live
  BY <1>6 DEF OverrideMark, OverrideRegenerate, OverrideStops, store
<1>7. ASSUME NEW e \in Emp, OverrideLog(e) PROVE TakesBack(e) \/ \E l : live' = live \union {l}
  BY <1>7, OverriddenDay
<1> QED
  BY <1>1, <1>2, <1>3, <1>4, <1>5, <1>6, <1>7 DEF Next, Override, Import

\* Nothing uncovers a day but HR's taking back what it held.
LEMMA CoveredKept ==
  ASSUME IInv, [Next]_vars, NEW e \in Emp, ~TakesBack(e), NEW day, Covered(e, day)
  PROVE  Covered(e, day)'
<1>1. CASE live' = live
  BY <1>1 DEF Covered, TimesOf, LogsOf
<1>2. CASE \E l : live' = live \union {l}
  BY <1>2, CoveredStays DEF IInv
<1>3. ASSUME NEW d \in Emp, TakesBack(d), OverrideLog(d) PROVE Covered(e, day)'
  <2>1. e # d
    BY <1>3
  <2>2. LogsOf(e)' = LogsOf(e)
    BY <1>3, <2>1, OverriddenDay
  <2> QED
    BY <2>2 DEF Covered, TimesOf
<1> QED
  BY <1>1, <1>2, <1>3, WhatLogsDo

\* Marks are of the override's own day.
LEMMA MarkStep == ASSUME IInv, [Next]_vars PROVE MarkInv'
<1>0. TypeOK /\ MarkInv
  BY DEF IInv
<1>1. CASE hr' = hr
  BY <1>0, <1>1, SettingStays DEF MarkInv
<1>2. ASSUME NEW e \in Emp, NEW r, hr' = [hr EXCEPT ![e] = r],
             r = None \/ (setting.overrides # {} /\ \A l \in r.marked : l.emp = e)
      PROVE  MarkInv'
  BY <1>0, <1>2, SettingStays DEF MarkInv, TypeOK
<1>3. ASSUME NEW e \in Emp, OverrideMark(e) PROVE MarkInv'
  <2>1. PICK entry \in setting.overrides : hr' = [hr EXCEPT ![e] = [todo |-> entry[2], marked |-> LogsOf(e)]]
    BY <1>3 DEF OverrideMark
  <2>2. \A l \in [todo |-> entry[2], marked |-> LogsOf(e)].marked : l.emp = e
    BY DEF LogsOf
  <2> QED
    BY <1>2, <2>1, <2>2
<1>4. ASSUME NEW e \in Emp, OverrideLog(e) PROVE MarkInv'
  <2>1. hr' = [hr EXCEPT ![e] = [todo |-> Tail(hr[e].todo), marked |-> {}]] /\ setting.overrides # {}
    BY <1>0, <1>4 DEF OverrideLog, MarkInv
  <2>2. \A l \in [todo |-> Tail(hr[e].todo), marked |-> {}].marked : l.emp = e
    OBVIOUS
  <2> QED
    BY <1>2, <2>1, <2>2
<1>5. ASSUME NEW e \in Emp, OverrideRegenerate(e) \/ OverrideStops(e) PROVE MarkInv'
  BY <1>2, <1>5 DEF OverrideRegenerate, OverrideStops
<1>6. CASE ~\E e \in Emp : Override(e)
  <2>1. hr' = hr
    BY <1>6 DEF Next, Tick, Export, Tap, PhonePunch, Agent, AgentStart, SendFails, AnswerFails, Accept, AgentOk,
           Import, SkipGroup, LoadPunchState, FillIn, FillOut, Fill, Regenerate, Discard, Abort, half, vars
  <2> QED
    BY <1>1, <2>1
<1> QED
  BY <1>3, <1>4, <1>5, <1>6 DEF Override

\* A handler goes on to the next employee exactly if this one is covered.
LEMMA FoundCovered ==
  ASSUME IInv, NEW h \in Handlers, LoadPunchState(h)
  PROVE  \/ Advance(h) /\ Covered(cur[h], body[h][cur[h]])
         \/ (Goto(h, "fill_in") \/ Goto(h, "fill_out")) /\ ~Covered(cur[h], body[h][cur[h]])
<1> DEFINE e == cur[h]
           day == body[h][e]
<1>1. /\ TypeOK /\ IsFiniteSet(live)
      /\ e \in Eligible /\ day # {} /\ day \in SUBSET Instants
  BY DEF IInv, PlaceInv, TypeOK, Running, LoadPunchState, Files
<1>2. CASE ~HasIn(LogsOf(e))
  <2>1. Goto(h, "fill_in")
    BY <1>2 DEF LoadPunchState
  <2>2. LogsOf(e) = {}
    BY <1>1, <1>2, InMeansSome
  <2>3. ~Covered(e, day)
    BY <1>1, <2>2 DEF Covered, TimesOf
  <2> QED
    BY <2>1, <2>3
<1>3. CASE HasIn(LogsOf(e)) /\ HasOut(LogsOf(e))
  <2>1. Advance(h)
    BY <1>3 DEF LoadPunchState
  <2>2. LogsOf(e) # {}
    BY <1>1, <1>3, InMeansSome
  <2>3. Covered(e, day)
    BY <1>3, <2>2 DEF Covered, TimesOf, HasOut
  <2> QED
    BY <2>1, <2>3
<1>4. CASE HasIn(LogsOf(e)) /\ ~HasOut(LogsOf(e))
  <2>1. LogsOf(e) # {} /\ TimesOf(e) # {} /\ TimesOf(e) \in SUBSET Instants
    BY <1>1, <1>4, InMeansSome, TimesAreInstants
  <2>2. Min(TimesOf(e)) \in Nat /\ Max(day) \in Nat
    BY <1>1, <2>1, FirstAndLastTap
  <2>3. CASE LaterThan(Max(day), Min(TimesOf(e)))
    <3>1. Goto(h, "fill_out")
      BY <1>4, <2>3 DEF LoadPunchState
    <3>2. ~(Cardinality(LogsOf(e)) >= 2) /\ ~(Max(day) <= Min(TimesOf(e)))
      BY <1>4, <2>2, <2>3 DEF LaterThan, HasOut
    <3>3. ~Covered(e, day)
      BY <1>1, <3>2 DEF Covered
    <3> QED
      BY <3>1, <3>3
  <2>4. CASE ~LaterThan(Max(day), Min(TimesOf(e)))
    <3>1. Advance(h)
      BY <1>4, <2>4 DEF LoadPunchState
    <3>2. Covered(e, day)
      BY <2>1, <2>2, <2>4 DEF Covered, LaterThan
    <3> QED
      BY <3>1, <3>2
  <2> QED
    BY <2>3, <2>4
<1> QED
  BY <1>2, <1>3, <1>4

\* After a clock-in that is also the last tap, or a clock-out, has been
\* filled in, the day is covered, whatever was in it.
LEMMA FilledIsCovered ==
  ASSUME IInv, NEW h \in Handlers, FillIn(h) \/ FillOut(h), ~Goto(h, "fill_out")
  PROVE  Covered(cur[h], body[h][cur[h]])'
<1> SUFFICES ASSUME NEW e, e = cur[h], NEW day, day = body[h][e]
             PROVE  Covered(cur[h], body[h][cur[h]])'
  OBVIOUS
<1>1. /\ TypeOK /\ IsFiniteSet(live) /\ e \in Emp /\ e \in Eligible
      /\ day # {} /\ day \in SUBSET Instants
  BY DEF IInv, PlaceInv, TypeOK, Running, FillIn, FillOut, Files
<1>2. Min(day) \in day /\ Max(day) \in day /\ Min(day) <= Max(day) /\ Min(day) \in Nat /\ Max(day) \in Nat
  BY <1>1, FirstAndLastTap
<1>3. Fill(h, Max(day)) /\ Goto(h, "regen")
  <2>1. CASE FillOut(h)
    BY <2>1 DEF FillOut
  <2>2. CASE FillIn(h)
    <3>1. Fill(h, Min(day)) /\ Goto(h, "regen") /\ ~LaterThan(Max(day), Min(day))
      BY <2>2 DEF FillIn
    <3>2. Min(day) = Max(day)
      BY <1>2, <3>1 DEF LaterThan
    <3> QED
      BY <3>1, <3>2
  <2> QED
    BY <2>1, <2>2
<1> DEFINE l == NewLog(e, Max(day), "nfc")
<1>4. l.emp = e /\ l.time = Max(day) /\ live' = live \union {l}
  <2>1. Max(day) \in Instants
    BY <1>1, <1>2
  <2> QED
    BY <1>1, <1>3, <2>1, NewLogIsLog DEF Fill
<1> HIDE DEF l
<1>5. LogsOf(e)' = LogsOf(e) \union {l} /\ TimesOf(e)' = TimesOf(e) \union {Max(day)}
  BY <1>4, OneMoreLog
<1>6. Cardinality(LogsOf(e) \union {l}) >= 2 \/ TimesOf(e) \union {Max(day)} = {Max(day)}
  <2>1. CASE l \notin LogsOf(e) /\ LogsOf(e) # {}
    <3>1. Cardinality(LogsOf(e) \union {l}) = Cardinality(LogsOf(e)) + 1
      BY <1>1, <2>1, LogsAreFinite, FS_AddElement
    <3>2. Cardinality(LogsOf(e)) \in Nat /\ Cardinality(LogsOf(e)) # 0
      BY <1>1, <2>1, LogsAreFinite, FS_EmptySet
    <3> QED
      BY <3>1, <3>2
  <2>2. CASE LogsOf(e) = {}
    BY <2>2 DEF TimesOf
  <2>3. CASE l \in LogsOf(e) /\ LogsOf(e) = {l}
    BY <1>4, <2>3 DEF TimesOf
  <2>4. CASE l \in LogsOf(e) /\ LogsOf(e) # {l}
    <3>1. LogsOf(e) \union {l} = LogsOf(e)
      BY <2>4
    <3>2. Cardinality(LogsOf(e)) \in Nat /\ Cardinality(LogsOf(e)) # 0
      BY <1>1, <2>4, LogsAreFinite, FS_EmptySet
    <3>3. Cardinality(LogsOf(e)) # 1
      <4> SUFFICES ASSUME Cardinality(LogsOf(e)) = 1 PROVE FALSE
        OBVIOUS
      <4>1. PICK x : LogsOf(e) = {x}
        BY <1>1, LogsAreFinite, FS_Singleton
      <4> QED
        BY <2>4, <4>1
    <3> QED
      BY <3>1, <3>2, <3>3
  <2> QED
    BY <2>1, <2>2, <2>3, <2>4
<1>7. TimesOf(e)' = {Max(day)} => Max(day) <= Min(TimesOf(e)')
  <2> SUFFICES Max(day) <= Min({Max(day)})
    OBVIOUS
  <2>1. {Max(day)} \in SUBSET Nat /\ {Max(day)} # {}
    BY <1>2
  <2>2. Min({Max(day)}) \in {Max(day)}
    <3> DEFINE S == {Max(day)}
    <3> HIDE DEF S
    <3> QED
      BY <2>1, MinIsLeast DEF S
  <2> QED
    BY <1>2, <2>2
<1>8. cur'[h] = e /\ body'[h][e] = day
  BY <1>3 DEF Goto
<1>9. Cardinality(LogsOf(e)') >= 2 \/ Max(day) <= Min(TimesOf(e)')
  BY <1>5, <1>6, <1>7
<1> QED
  BY <1>5, <1>8, <1>9 DEF Covered

\* A handler that stands still keeps what it relies on.
LEMMA StillCovers ==
  ASSUME IInv, [Next]_vars, NEW g \in Handlers,
         pc'[g] = pc[g], body'[g] = body[g], cur'[g] = cur[g],
         \A e \in Passed(g) \ entered'[g] : e \notin entered[g] /\ ~TakesBack(e),
         \A e \in resend'[g] : e \in resend[g] /\ ~TakesBack(e)
  PROVE  CoverOf(g)'
<1>1. Passed(g)' = Passed(g)
  BY DEF Passed
<1>2. CoverOf(g)
  BY DEF IInv, CoverInv
<1>3. ASSUME NEW e \in Emp, e \in Passed(g) \ entered'[g] \/ e \in resend'[g]
      PROVE  Covered(e, body[g][e])'
  <2> SUFFICES ASSUME NEW day, day = body[g][e], Covered(e, day), ~TakesBack(e)
               PROVE  Covered(e, body[g][e])'
    BY <1>2, <1>3 DEF CoverOf
  <2>1. Covered(e, day)'
    BY CoveredKept
  <2> QED
    BY <2>1 DEF Covered
<1> QED
  BY <1>1, <1>2, <1>3 DEF CoverOf

\* A handler that goes on to the next employee does so when this one is
\* covered, or HR has taken back what it held.
LEMMA AdvanceCovers ==
  ASSUME IInv, [Next]_vars, NEW h \in Handlers, pc[h] \in Running, Advance(h), hr' = hr,
         cur[h] \notin entered[h] => Covered(cur[h], body[h][cur[h]])
  PROVE  CoverOf(h)'
<1>1. /\ cur[h] \in Emp /\ cur'[h] = cur[h] + 1
      /\ body' = body /\ entered' = entered /\ resend' = resend
      /\ pc'[h] \in {"load", "reply"}
  BY DEF IInv, PlaceInv, TypeOK, Advance
<1>2. Passed(h)' \subseteq Passed(h) \union {cur[h]}
  BY <1>1, NfcAssumption DEF Passed, Emp
<1>3. CoverOf(h)
  BY DEF IInv, CoverInv
<1>4. ASSUME NEW e \in Emp, e \in Passed(h)' \ entered[h] \/ e \in resend[h]
      PROVE  Covered(e, body[h][e])'
  <2>1. (e = cur[h] /\ e \notin entered[h]) \/ e \in Passed(h) \ entered[h] \/ e \in resend[h]
    BY <1>2, <1>4
  <2> SUFFICES ASSUME NEW day, day = body[h][e], Covered(e, day)
               PROVE  Covered(e, body[h][e])'
    BY <1>3, <2>1 DEF CoverOf
  <2>2. Covered(e, day)'
    BY CoveredKept, OthersTakeNothing
  <2> QED
    BY <1>1, <2>2 DEF Covered
<1> QED
  BY <1>1, <1>4 DEF CoverOf

\* A handler that goes to another place in the same employee's day, too.
LEMMA GotoCovers ==
  ASSUME IInv, [Next]_vars, NEW h \in Handlers, pc[h] \in Running \ {"regen"}, hr' = hr,
         NEW p \in {"fill_in", "fill_out", "regen"}, Goto(h, p),
         p = "regen" => Covered(cur[h], body[h][cur[h]])',
         p # "regen" => cur[h] \notin resend[h]
  PROVE  CoverOf(h)'
<1>1. /\ cur[h] \in Emp /\ cur' = cur /\ body' = body /\ entered' = entered /\ resend' = resend
      /\ pc'[h] = p
  BY DEF IInv, PlaceInv, TypeOK, Goto
<1>2. \A e \in Passed(h)' : e \in Passed(h) \/ (e = cur[h] /\ p = "regen")
  BY <1>1 DEF Passed
<1>3. CoverOf(h)
  BY DEF IInv, CoverInv
<1>4. ASSUME NEW e \in Emp, e \in Passed(h)' \ entered[h] \/ e \in resend[h]
      PROVE  Covered(e, body[h][e])'
  <2>1. CASE e \in Passed(h) \ entered[h] \/ e \in resend[h]
    <3> SUFFICES ASSUME NEW day, day = body[h][e], Covered(e, day)
                 PROVE  Covered(e, body[h][e])'
      BY <1>3, <2>1 DEF CoverOf
    <3>1. Covered(e, day)'
      BY CoveredKept, OthersTakeNothing
    <3> QED
      BY <1>1, <3>1 DEF Covered
  <2>2. CASE e = cur[h] /\ p = "regen"
    BY <1>1, <2>2 DEF Covered, TimesOf, LogsOf
  <2> QED
    BY <1>2, <1>4, <2>1, <2>2
<1> QED
  BY <1>1, <1>4 DEF CoverOf

\* When the answer is sent, everybody in the file has had their turn.
LEMMA ReplyCovers ==
  ASSUME IInv, NEW h \in Handlers, pc[h] = "reply", NEW e \in Emp \ entered[h]
  PROVE  Covered(e, body[h][e])
<1>1. cur[h] = Employees + 1 /\ CoverOf(h)
  BY DEF IInv, PlaceInv, CoverInv
<1>2. e \in Passed(h)
  BY <1>1, NfcAssumption DEF Passed, Emp
<1> QED
  BY <1>1, <1>2 DEF CoverOf

\* A handler that has ended relies on nothing.
LEMMA FreedCovers ==
  ASSUME IInv, NEW h \in Handlers, Freed(h)
  PROVE  CoverOf(h)'
<1>1. cur'[h] = 1 /\ pc'[h] = "free" /\ resend'[h] = {}
  BY DEF IInv, TypeOK, Freed
<1>2. Passed(h)' = {}
  BY <1>1, NfcAssumption DEF Passed, Emp
<1> QED
  BY <1>1, <1>2 DEF CoverOf

\* A handler that starts relies on what has been imported of its file.
LEMMA AcceptCovers ==
  ASSUME IInv, [Next]_vars, NEW h \in Handlers, Accept(h)
  PROVE  CoverOf(h)'
<1>1. /\ cur'[h] = 1 /\ pc'[h] = "load" /\ hr' = hr
      /\ resend'[h] = IF file = okFile THEN Emp \ rewritten ELSE {}
      /\ body'[h] = file /\ file \in Files
  BY DEF IInv, TypeOK, Accept, half
<1>2. Passed(h)' = {}
  BY <1>1, NfcAssumption DEF Passed, Emp
<1>3. ASSUME NEW e \in Emp, e \in resend'[h]
      PROVE  Covered(e, body[h][e])'
  <2>1. file = okFile /\ e \notin rewritten
    BY <1>1, <1>3
  <2> SUFFICES ASSUME NEW day, day = okFile[e], Covered(e, day)
               PROVE  Covered(e, body[h][e])'
    BY <1>1, <2>1 DEF IInv, CoverInv, OkCovered
  <2>2. Covered(e, day)'
    BY <1>1, CoveredKept, OthersTakeNothing
  <2> QED
    BY <1>1, <2>1, <2>2 DEF Covered
<1> QED
  BY <1>1, <1>2, <1>3 DEF CoverOf

\* What the handler that takes a step does.
LEMMA HandlerCovers ==
  ASSUME IInv, [Next]_vars, NEW h \in Handlers, Import(h) \/ Abort(h)
  PROVE  CoverOf(h)'
<1>0. CoverOf(h) /\ (pc[h] \in Running => cur[h] \in Emp)
  BY DEF IInv, CoverInv, PlaceInv
<1>1. CASE SkipGroup(h)
  <2>1. pc[h] \in Running /\ Advance(h) /\ hr' = hr /\ Covered(cur[h], body[h][cur[h]])
    BY <1>1 DEF SkipGroup, Running, Covered, half
  <2> QED
    BY <2>1, AdvanceCovers
<1>2. CASE LoadPunchState(h)
  <2>0. pc[h] \in Running \ {"regen"} /\ hr' = hr
    BY <1>2 DEF LoadPunchState, Running, half
  <2>1. CASE Advance(h) /\ Covered(cur[h], body[h][cur[h]])
    BY <2>0, <2>1, AdvanceCovers
  <2>2. ASSUME NEW p \in {"fill_in", "fill_out"}, Goto(h, p), ~Covered(cur[h], body[h][cur[h]])
        PROVE  CoverOf(h)'
    <3>1. cur[h] \notin resend[h]
      BY <1>0, <2>0, <2>2 DEF CoverOf
    <3> QED
      BY <2>0, <2>2, <3>1, GotoCovers
  <2> QED
    BY <1>2, <2>1, <2>2, FoundCovered
<1>3. CASE FillIn(h) \/ FillOut(h)
  <2>0. pc[h] \in Running \ {"regen"} /\ pc[h] \in {"fill_in", "fill_out"} /\ hr' = hr
    BY <1>3 DEF FillIn, FillOut, Fill, Running, half
  <2>1. CASE Goto(h, "fill_out")
    <3>1. cur[h] \notin resend[h]
      BY <1>0, <2>0 DEF CoverOf
    <3> QED
      BY <2>0, <2>1, <3>1, GotoCovers
  <2>2. CASE ~Goto(h, "fill_out")
    <3>1. Goto(h, "regen")
      BY <1>3, <2>2 DEF FillIn, FillOut
    <3>2. Covered(cur[h], body[h][cur[h]])'
      BY <1>3, <2>2, FilledIsCovered
    <3> QED
      BY <2>0, <3>1, <3>2, GotoCovers
  <2> QED
    BY <2>1, <2>2
<1>4. CASE Regenerate(h)
  <2>1. pc[h] \in Running /\ pc[h] = "regen" /\ Advance(h) /\ hr' = hr
    BY <1>4 DEF Regenerate, Running, half
  <2>2. cur[h] \in Passed(h) /\ cur[h] \in Emp
    BY <1>0, <2>1 DEF Passed
  <2>3. cur[h] \notin entered[h] => Covered(cur[h], body[h][cur[h]])
    BY <1>0, <2>2 DEF CoverOf
  <2> QED
    BY <2>1, <2>3, AdvanceCovers
<1>5. CASE Discard(h) \/ Abort(h)
  BY <1>5, FreedCovers DEF Discard, Abort
<1> QED
  BY <1>1, <1>2, <1>3, <1>4, <1>5 DEF Import

\* At most one handler's place, file and history change in a step, but for
\* HR's taking logs back, which every handler's history records.
LEMMA OneHandlerSteps ==
  ASSUME IInv, [Next]_vars, NEW g \in Handlers,
         ~(Import(g) \/ Abort(g) \/ Accept(g) \/ AgentOk(g))
  PROVE  /\ pc'[g] = pc[g] /\ body'[g] = body[g] /\ cur'[g] = cur[g]
         /\ \/ hr' = hr /\ entered'[g] = entered[g] /\ resend'[g] = resend[g]
            \/ \E e \in Emp : Override(e)
<1>0. TypeOK
  BY DEF IInv
<1> DEFINE stays(h) == /\ pc'[h] = pc[h] /\ body'[h] = body[h] /\ cur'[h] = cur[h]
                       /\ entered'[h] = entered[h] /\ resend'[h] = resend[h]
<1>1. CASE UNCHANGED server /\ UNCHANGED half
  BY <1>1 DEF server, half
<1>2. ASSUME NEW h \in Handlers, Advance(h) \/ Freed(h) \/ Accept(h)
             \/ (\E p \in {"fill_in", "fill_out", "regen"} : Goto(h, p)), g # h
      PROVE  stays(g)
  BY <1>0, <1>2 DEF Advance, Freed, Accept, Goto, TypeOK
<1>3. CASE UNCHANGED vars
  BY <1>1, <1>3 DEF vars, server, half
<1>4. CASE Tick \/ Export \/ AgentStart \/ SendFails \/ AnswerFails \/ \E e \in Emp : Tap(e) \/ PhonePunch(e)
  BY <1>1, <1>4 DEF Tick, Export, AgentStart, SendFails, AnswerFails, Tap, PhonePunch
<1>5. ASSUME NEW h \in Handlers, Accept(h) \/ AgentOk(h), g # h
      PROVE  stays(g) /\ hr' = hr
  <2>1. hr' = hr
    BY <1>5 DEF Accept, AgentOk, half
  <2> QED
    BY <1>2, <1>5, <2>1 DEF AgentOk
<1>6. ASSUME NEW h \in Handlers, Import(h) \/ Abort(h), g # h
      PROVE  stays(g) /\ hr' = hr
  <2>1. Advance(h) \/ Freed(h) \/ \E p \in {"fill_in", "fill_out", "regen"} : Goto(h, p)
    BY <1>6 DEF Import, SkipGroup, LoadPunchState, FillIn, FillOut, Regenerate, Discard, Abort
  <2>2. hr' = hr
    BY <1>6 DEF Import, SkipGroup, LoadPunchState, FillIn, FillOut, Fill, Regenerate, Discard, Abort, half
  <2> QED
    BY <1>2, <1>6, <2>1, <2>2
<1>7. ASSUME NEW e \in Emp, Override(e)
      PROVE  pc'[g] = pc[g] /\ body'[g] = body[g] /\ cur'[g] = cur[g]
  BY <1>7 DEF Override, OverrideMark, OverrideLog, OverrideRegenerate, OverrideStops, door, server
<1> QED
  BY <1>3, <1>4, <1>5, <1>6, <1>7 DEF Next, Agent

\* A step of somebody else leaves a handler what it relies on.
LEMMA OthersCover ==
  ASSUME IInv, [Next]_vars, NEW g \in Handlers,
         ~(Import(g) \/ Abort(g) \/ Accept(g) \/ AgentOk(g))
  PROVE  CoverOf(g)'
<1>0. pc'[g] = pc[g] /\ body'[g] = body[g] /\ cur'[g] = cur[g]
  BY OneHandlerSteps
<1>1. CASE hr' = hr /\ entered'[g] = entered[g] /\ resend'[g] = resend[g]
  <2>1. \A e \in Emp : ~TakesBack(e)
    BY <1>1, OthersTakeNothing
  <2>2. Passed(g) \subseteq Emp /\ resend[g] \subseteq Emp
    BY DEF Passed, IInv, TypeOK
  <2> QED
    BY <1>0, <1>1, <2>1, <2>2, StillCovers
<1>2. ASSUME NEW d \in Emp, OverrideMark(d) \/ OverrideRegenerate(d) \/ OverrideStops(d)
      PROVE  CoverOf(g)'
  <2>1. live' = live /\ entered' = entered /\ resend' = resend
    BY <1>2 DEF OverrideMark, OverrideRegenerate, OverrideStops, store, server
  <2>2. CoverOf(g) /\ Passed(g)' = Passed(g)
    BY <1>0 DEF IInv, CoverInv, Passed
  <2>3. ASSUME NEW e \in Emp, NEW day, Covered(e, day) PROVE Covered(e, day)'
    BY <2>1, <2>3 DEF Covered, TimesOf, LogsOf
  <2>4. ASSUME NEW e \in Emp, Covered(e, body[g][e]) PROVE Covered(e, body[g][e])'
    <3> SUFFICES ASSUME NEW day, day = body[g][e] PROVE Covered(e, body[g][e])'
      OBVIOUS
    <3>1. Covered(e, day)'
      BY <2>3, <2>4
    <3> QED
      BY <1>0, <3>1 DEF Covered
  <2> QED
    BY <1>0, <2>1, <2>2, <2>4 DEF CoverOf
<1>3. ASSUME NEW d \in Emp, OverrideLog(d) PROVE CoverOf(g)'
  <2>1. TypeOK /\ PlaceInv
    BY DEF IInv
  <2>2. /\ entered'[g] = IF pc[g] = "free" THEN {} ELSE entered[g] \union TakenBack(d)
        /\ resend'[g] = resend[g] \ TakenBack(d)
    BY <1>3 DEF OverrideLog
  <2>3. \A e \in Emp : TakesBack(e) => e \in TakenBack(d)
    BY <1>3, OnlyItsOwn
  <2>4. pc[g] = "free" => Passed(g) = {}
    BY <2>1, NfcAssumption DEF PlaceInv, Passed, Emp
  <2>5. Passed(g) \subseteq Emp /\ resend[g] \subseteq Emp
    BY <2>1 DEF Passed, TypeOK
  <2> QED
    BY <1>0, <2>2, <2>3, <2>4, <2>5, StillCovers
<1> QED
  BY <1>1, <1>2, <1>3, OneHandlerSteps DEF Override

\* What the agent logs as OK is covered, and stays so.
LEMMA OkStep ==
  ASSUME IInv, [Next]_vars
  PROVE  OkCovered'
<1>1. ASSUME NEW f \in Files, f = okFile, okFile' = okFile, NEW e \in Emp, e \notin rewritten, ~TakesBack(e)
      PROVE  Covered(e, f[e])'
  <2>1. Covered(e, f[e])
    BY <1>1 DEF IInv, CoverInv, OkCovered
  <2> QED
    BY <1>1, <2>1, CoveredKept
<1>2. ASSUME NEW h \in Handlers, AgentOk(h) PROVE OkCovered'
  <2> SUFFICES ASSUME NEW f, f = body[h], NEW e \in Emp \ entered[h]
               PROVE  Covered(e, f[e])'
    BY <1>2 DEF OkCovered, AgentOk, Covered, TimesOf, LogsOf
  <2>1. Covered(e, f[e])
    BY <1>2, ReplyCovers DEF AgentOk
  <2>2. ~TakesBack(e)
    BY <1>2, OthersTakeNothing DEF AgentOk, half
  <2> QED
    BY <2>1, <2>2, CoveredKept
<1>3. CASE \E d \in Emp : OverrideLog(d)
  <2>1. PICK d \in Emp : OverrideLog(d)
    BY <1>3
  <2>2. okFile' = okFile /\ rewritten' = rewritten \union TakenBack(d)
    BY <2>1 DEF OverrideLog
  <2>3. \A e \in Emp : TakesBack(e) => e \in TakenBack(d)
    BY <2>1, OnlyItsOwn
  <2> SUFFICES ASSUME NEW f \in Files, f = okFile, NEW e \in Emp, e \notin rewritten'
               PROVE  Covered(e, f[e])'
    BY <2>2 DEF OkCovered, Covered, TimesOf, LogsOf
  <2> QED
    BY <1>1, <2>2, <2>3
<1>4. CASE ~(\E h \in Handlers : AgentOk(h)) /\ ~(\E d \in Emp : OverrideLog(d))
  <2>1. okFile' = okFile /\ rewritten' = rewritten
    BY <1>4 DEF Next, Tick, Export, Tap, PhonePunch, Override, OverrideMark, OverrideRegenerate, OverrideStops,
           Agent, AgentStart, SendFails, AnswerFails, Accept, Import, SkipGroup, LoadPunchState, FillIn,
           FillOut, Fill, Regenerate, Discard, Abort, client, vars
  <2>2. \A e \in Emp : ~TakesBack(e)
    BY <1>4 DEF TakesBack
  <2> SUFFICES ASSUME NEW f \in Files, f = okFile, NEW e \in Emp, e \notin rewritten
               PROVE  Covered(e, f[e])'
    BY <2>1 DEF OkCovered, Covered, TimesOf, LogsOf
  <2> QED
    BY <1>1, <2>1, <2>2
<1> QED
  BY <1>2, <1>3, <1>4

LEMMA CoverStep == ASSUME IInv, [Next]_vars PROVE CoverInv'
<1> SUFFICES ASSUME NEW g \in Handlers PROVE CoverOf(g)'
  BY OkStep DEF CoverInv
<1>1. CASE Import(g) \/ Abort(g)
  BY <1>1, HandlerCovers
<1>2. CASE Accept(g)
  BY <1>2, AcceptCovers
<1>3. CASE AgentOk(g)
  BY <1>3, FreedCovers DEF AgentOk
<1>4. CASE ~(Import(g) \/ Abort(g) \/ Accept(g) \/ AgentOk(g))
  BY <1>4, OthersCover
<1> QED
  BY <1>1, <1>2, <1>3, <1>4

----------------------------------------------------------------------------
(* The schedule.                                                           *)

\* Filling in a side leaves a day in which both handlers that are about to
\* fill the same day still do what the other would.
LEMMA FillsCommute ==
  ASSUME NEW S \in SUBSET Instants, S # {}, NEW ts \in SUBSET Instants
  PROVE  /\ ts \in InStates(S) => ts \union {Min(S)} \in InStates(S)
         /\ ts \in InStates(S) /\ Min(S) < Max(S) => ts \union {Min(S)} \in OutStates(S)
         /\ ts \in OutStates(S) => ts \union {Max(S)} \in OutStates(S)
         /\ ts \in InStates(S) /\ ts \in OutStates(S) =>
                ts \union {Min(S)} \in OutStates(S) /\ ts \union {Max(S)} \in InStates(S)
<1> SUFFICES ASSUME NEW a, a = Min(S), NEW b, b = Max(S)
             PROVE  /\ ts \in InStates(S) => ts \union {a} \in InStates(S)
                    /\ ts \in InStates(S) /\ a < b => ts \union {a} \in OutStates(S)
                    /\ ts \in OutStates(S) => ts \union {b} \in OutStates(S)
                    /\ ts \in InStates(S) /\ ts \in OutStates(S) =>
                           ts \union {a} \in OutStates(S) /\ ts \union {b} \in InStates(S)
  OBVIOUS
<1>1. a \in Instants /\ b \in Instants /\ a \in Nat /\ b \in Nat /\ a <= b
  BY FirstAndLastTap
<1>2. \A us : us \in InStates(S) <=> us = {} \/ us = {a} \/ us = {a, b}
  BY DEF InStates
<1>3. \A us \in SUBSET Instants :
         us \in OutStates(S) <=> \E x \in Instants : x < b /\ (us = {x} \/ us = {x, b})
  BY DEF OutStates
<1>4. Instants \subseteq Int
  BY DEF Instants
<1>5. ASSUME ts \in InStates(S) PROVE ts \union {a} = {a} \/ ts \union {a} = {a, b}
  BY <1>2, <1>5
<1>6. ts \in InStates(S) => ts \union {a} \in InStates(S)
  BY <1>2, <1>5
<1>7. ts \in InStates(S) /\ a < b => ts \union {a} \in OutStates(S)
  BY <1>1, <1>3, <1>5
<1>8. ASSUME ts \in OutStates(S) PROVE ts \union {b} \in OutStates(S)
  <2>1. PICK x \in Instants : x < b /\ (ts = {x} \/ ts = {x, b})
    BY <1>3, <1>8
  <2>2. ts \union {b} = {x, b}
    BY <2>1
  <2> QED
    BY <1>1, <1>3, <2>1, <2>2
<1>9. ASSUME ts \in InStates(S), ts \in OutStates(S)
      PROVE  a < b /\ (ts = {a} \/ ts = {a, b})
  <2>1. PICK x \in Instants : x < b /\ (ts = {x} \/ ts = {x, b})
    BY <1>3, <1>9
  <2>2. x # b
    BY <1>1, <1>4, <2>1
  <2>3. ts = {a} \/ ts = {a, b}
    BY <1>2, <1>9, <2>1
  <2>4. a # b
    <3>1. a = b => ts = {b}
      BY <2>3
    <3> QED
      BY <2>1, <2>2, <3>1
  <2> QED
    BY <1>1, <2>3, <2>4
<1>10. ASSUME ts \in InStates(S), ts \in OutStates(S)
       PROVE  ts \union {a} \in OutStates(S) /\ ts \union {b} \in InStates(S)
  <2>1. ts \union {b} = {a, b}
    BY <1>9, <1>10
  <2> QED
    BY <1>2, <1>7, <1>9, <1>10, <2>1
<1> QED
  BY <1>6, <1>7, <1>8, <1>10

\* Before the scheduled date is over, nothing is exported, sent or handled.
LEMMA BeforeTheEnd ==
  ASSUME IInv, Scheduled, Next, now < EndOfDay
  PROVE  UNCHANGED <<pc, file, agent>>
<1>1. agent = "off" /\ now # EndOfDay /\ \A h \in Handlers : pc[h] = "free"
  BY NfcAssumption DEF IInv, TypeOK, ScheduleInv, ScheduleOf
<1>2. ~Export /\ ~Agent
  BY <1>1 DEF Export, Agent, AgentStart, SendFails, AnswerFails, Accept, AgentOk, Scheduled
<1>3. ASSUME NEW h \in Handlers PROVE ~Import(h) /\ ~Abort(h)
  BY <1>1 DEF Import, SkipGroup, LoadPunchState, FillIn, FillOut, Regenerate, Discard, Abort, Running
<1> QED
  BY <1>2, <1>3 DEF Next, Tick, Tap, PhonePunch, Override, OverrideMark, OverrideLog, OverrideRegenerate,
         OverrideStops, door, client, server

\* HR overrides only what HR has entries for.
LEMMA OnlyEntries ==
  ASSUME IInv, NEW e \in Emp, Override(e)
  PROVE  setting.overrides # {}
  BY DEF IInv, MarkInv, Override, OverrideMark, OverrideLog, OverrideRegenerate, OverrideStops

\* When it is over, the taps stay, and only handlers add times.
LEMMA AfterTheEnd ==
  ASSUME IInv, Scheduled, Next, ~(now < EndOfDay)
  PROVE  /\ now' = now /\ taps' = taps /\ file' \in {file, taps}
         /\ live' = live \/ \E h \in Handlers : FillIn(h) \/ FillOut(h)
<1>1. ~Tick /\ \A e \in Emp : ~Tap(e) /\ ~PhonePunch(e) /\ ~Override(e)
  BY OnlyEntries DEF Tick, Tap, PhonePunch, Scheduled
<1>2. CASE Export \/ Agent
  BY <1>2 DEF Export, Agent, AgentStart, SendFails, AnswerFails, Accept, AgentOk, door, store
<1>3. ASSUME NEW h \in Handlers, Import(h) \/ Abort(h)
      PROVE  /\ now' = now /\ taps' = taps /\ file' = file
             /\ live' = live \/ FillIn(h) \/ FillOut(h)
  BY <1>3 DEF Import, SkipGroup, LoadPunchState, FillIn, FillOut, Fill, Regenerate, Discard, Abort, door, store
<1> QED
  BY <1>1, <1>2, <1>3 DEF Next

\* What a fill adds to the day of the handler's employee, from the one file.
LEMMA WhatFillsDo ==
  ASSUME IInv, NEW h \in Handlers, FillIn(h) \/ FillOut(h), NEW e, e = cur[h]
  PROVE  /\ e \in Emp /\ e \in Eligible /\ body[h][e] # {} /\ body[h][e] \in SUBSET Instants
         /\ \A d : d # e => TimesOf(d)' = TimesOf(d)
         /\ FillIn(h) => TimesOf(e)' = TimesOf(e) \union {Min(body[h][e])}
         /\ FillOut(h) => TimesOf(e)' = TimesOf(e) \union {Max(body[h][e])}
         /\ TimesOf(e) \in SUBSET Instants
         /\ Scheduled => body[h][e] = taps[e]
<1>1. pc[h] \in Running /\ pc[h] \in {"fill_in", "fill_out"}
  BY DEF FillIn, FillOut, Running
<1>2. e \in Emp /\ e \in Eligible /\ body[h][e] # {} /\ body[h][e] \in SUBSET Instants
  BY <1>1 DEF IInv, PlaceInv, TypeOK, Files
<1>3. Min(body[h][e]) \in Instants /\ Max(body[h][e]) \in Instants
  BY <1>2, FirstAndLastTap
<1>4. ASSUME NEW t \in Instants, Fill(h, t)
      PROVE  TimesOf(e)' = TimesOf(e) \union {t} /\ \A d : d # e => TimesOf(d)' = TimesOf(d)
  <2> DEFINE l == NewLog(e, t, "nfc")
  <2>1. l.emp = e /\ l.time = t /\ live' = live \union {l}
    BY <1>2, <1>4, NewLogIsLog DEF IInv, Fill
  <2> HIDE DEF l
  <2> QED
    BY <2>1, OneMoreLog
<1>5. Scheduled => body[h][e] = taps[e]
  BY <1>1, <1>2 DEF IInv, ScheduleInv, ScheduleOf, NoTaps
<1>6. TimesOf(e) \in SUBSET Instants
  BY TimesAreInstants DEF IInv
<1>7. CASE FillIn(h)
  <2>1. Fill(h, Min(body[h][e])) /\ ~FillOut(h)
    BY <1>7 DEF FillIn, FillOut
  <2> QED
    BY <1>2, <1>3, <1>4, <1>5, <1>6, <2>1
<1>8. CASE FillOut(h)
  <2>1. Fill(h, Max(body[h][e])) /\ ~FillIn(h)
    BY <1>8 DEF FillIn, FillOut
  <2> QED
    BY <1>2, <1>3, <1>4, <1>5, <1>6, <2>1
<1> QED
  BY <1>7, <1>8

\* A fill leaves what every other handler is about to do possible.
LEMMA DaysKept ==
  ASSUME IInv, Scheduled, Next, ~(now < EndOfDay), NEW g \in Handlers, NEW e, e = cur[g],
         pc[g] \in {"fill_in", "fill_out"}
  PROVE  /\ pc[g] = "fill_in" => TimesOf(e)' \in InStates(body[g][e])
         /\ pc[g] = "fill_out" => TimesOf(e)' \in OutStates(body[g][e])
<1>0. /\ e \in Emp /\ body[g][e] # {} /\ body[g][e] = taps[e] /\ taps[e] \in SUBSET Instants
      /\ TimesOf(e) \in SUBSET Instants
  <2>1. e \in Emp /\ body[g][e] # {} /\ body[g] \in {NoTaps, taps}
    BY DEF IInv, PlaceInv, ScheduleInv, ScheduleOf, Running
  <2>2. body[g][e] = taps[e]
    BY <2>1 DEF NoTaps
  <2> QED
    BY <2>1, <2>2, TimesAreInstants DEF IInv, TypeOK, Files
<1>1. /\ pc[g] = "fill_in" => TimesOf(e) \in InStates(taps[e])
      /\ pc[g] = "fill_out" => TimesOf(e) \in OutStates(taps[e])
  BY <1>0 DEF IInv, ScheduleInv, ScheduleOf
<1>2. CASE TimesOf(e)' = TimesOf(e)
  BY <1>0, <1>1, <1>2
<1>3. ASSUME NEW h \in Handlers, FillIn(h) \/ FillOut(h), cur[h] = e
      PROVE  /\ pc[g] = "fill_in" => TimesOf(e)' \in InStates(body[g][e])
             /\ pc[g] = "fill_out" => TimesOf(e)' \in OutStates(body[g][e])
  <2>1. body[h][e] = taps[e]
    BY <1>3, WhatFillsDo
  <2>2. CASE FillIn(h)
    <3>1. TimesOf(e) \in InStates(taps[e])
      BY <1>3, <2>1, <2>2 DEF IInv, ScheduleInv, ScheduleOf, FillIn
    <3>2. TimesOf(e)' = TimesOf(e) \union {Min(taps[e])}
      BY <1>3, <2>1, <2>2, WhatFillsDo
    <3> QED
      BY <1>0, <1>1, <3>1, <3>2, FillsCommute
  <2>3. CASE FillOut(h)
    <3>1. TimesOf(e) \in OutStates(taps[e])
      BY <1>3, <2>1, <2>3 DEF IInv, ScheduleInv, ScheduleOf, FillOut
    <3>2. TimesOf(e)' = TimesOf(e) \union {Max(taps[e])}
      BY <1>3, <2>1, <2>3, WhatFillsDo
    <3> QED
      BY <1>0, <1>1, <3>1, <3>2, FillsCommute
  <2> QED
    BY <1>3, <2>2, <2>3
<1>4. CASE live' = live
  BY <1>2, <1>4 DEF TimesOf, LogsOf
<1>5. ASSUME NEW h \in Handlers, FillIn(h) \/ FillOut(h), cur[h] # e
      PROVE  TimesOf(e)' = TimesOf(e)
  BY <1>5, WhatFillsDo
<1> QED
  BY <1>2, <1>3, <1>4, <1>5, AfterTheEnd

\* A handler that finds a side missing is about to fill it in from there.
LEMMA LoadSchedules ==
  ASSUME IInv, Scheduled, Next, ~(now < EndOfDay), NEW h \in Handlers, LoadPunchState(h)
  PROVE  ScheduleOf(h)'
<1> SUFFICES ASSUME NEW e, e = cur[h], NEW day, day = body[h][e]
             PROVE  ScheduleOf(h)'
  OBVIOUS
<1>0. /\ TypeOK /\ IsFiniteSet(live) /\ pc[h] = "load" /\ live' = live /\ now' = now /\ taps' = taps
      /\ body' = body /\ body[h] \in {NoTaps, taps}
  BY AfterTheEnd DEF IInv, LoadPunchState, store, Advance, Goto, ScheduleInv, ScheduleOf
<1>1. TimesOf(e)' = TimesOf(e) /\ day # {} /\ day \in SUBSET Instants /\ e \in Eligible /\ TimesOf(e) \in SUBSET Instants
  <2>1. TimesOf(e)' = TimesOf(e) /\ TimesOf(e) \in SUBSET Instants
    BY <1>0, TimesAreInstants DEF TimesOf, LogsOf
  <2>2. e \in Emp /\ e \in Eligible /\ day # {}
    BY <1>0 DEF IInv, PlaceInv, Running, LoadPunchState
  <2> QED
    BY <1>0, <2>1, <2>2 DEF TypeOK, Files
<1>2. CASE Advance(h)
  <2>1. pc'[h] \in {"load", "reply"}
    BY <1>0, <1>2 DEF Advance, TypeOK
  <2> QED
    BY <1>0, <2>1 DEF ScheduleOf
<1>3. CASE ~HasIn(LogsOf(e))
  <2>1. pc'[h] = "fill_in" /\ cur'[h] = e
    BY <1>0, <1>3 DEF LoadPunchState, Goto, TypeOK
  <2>2. TimesOf(e) = {}
    BY <1>0, <1>3, InMeansSome, TimesAreInstants
  <2>3. TimesOf(cur[h])' \in InStates(day)
    BY <1>1, <2>1, <2>2 DEF InStates, TimesOf, LogsOf
  <2> QED
    BY <1>0, <2>1, <2>3 DEF ScheduleOf, InStates
<1>4. CASE HasIn(LogsOf(e)) /\ ~HasOut(LogsOf(e)) /\ LaterThan(Max(day), Min(TimesOf(e)))
  <2>1. pc'[h] = "fill_out" /\ cur'[h] = e
    BY <1>0, <1>4 DEF LoadPunchState, Goto, TypeOK
  <2>2. PICK l \in LogsOf(e) : LogsOf(e) = {l}
    BY <1>0, <1>4, OnlyInMeansOne
  <2>3. TimesOf(e) = {l.time} /\ l.time \in Instants
    BY <1>1, <2>2 DEF TimesOf
  <2>4. Min(TimesOf(e)) = l.time
    BY <1>1, <2>3, FirstAndLastTap
  <2>5. l.time < Max(day)
    <3>1. Max(day) \in Nat /\ l.time \in Int
      BY <1>1, <2>3, FirstAndLastTap DEF Instants
    <3> QED
      BY <1>4, <2>4, <3>1 DEF LaterThan
  <2>6. TimesOf(e) \in OutStates(day)
    BY <2>3, <2>5 DEF OutStates
  <2>7. TimesOf(cur[h])' \in OutStates(day)
    BY <1>1, <2>1, <2>6 DEF TimesOf, LogsOf
  <2> QED
    BY <1>0, <2>1, <2>7 DEF ScheduleOf, OutStates
<1> QED
  BY <1>2, <1>3, <1>4 DEF LoadPunchState

\* What the handler that takes a step finds.
LEMMA HandlerSchedules ==
  ASSUME IInv, Scheduled, Next, ~(now < EndOfDay), NEW h \in Handlers,
         Import(h) \/ Abort(h) \/ Accept(h) \/ AgentOk(h)
  PROVE  ScheduleOf(h)'
<1>0. TypeOK /\ now' = now /\ taps' = taps /\ file \in {NoTaps, taps} /\ (pc[h] # "free" => body[h] \in {NoTaps, taps})
  BY AfterTheEnd DEF IInv, ScheduleInv, ScheduleOf
<1>1. CASE Freed(h)
  <2>1. pc'[h] = "free"
    BY <1>0, <1>1 DEF Freed, TypeOK
  <2> QED
    BY <1>0, <2>1 DEF ScheduleOf
<1>2. CASE Accept(h)
  <2>1. pc'[h] = "load" /\ body'[h] = file
    BY <1>0, <1>2 DEF Accept, TypeOK
  <2> QED
    BY <1>0, <2>1 DEF ScheduleOf
<1>3. CASE Advance(h) /\ pc[h] \in Running
  <2>1. pc'[h] \in {"load", "reply"} /\ body' = body /\ pc[h] # "free"
    BY <1>0, <1>3 DEF Advance, TypeOK, Running
  <2> QED
    BY <1>0, <2>1 DEF ScheduleOf
<1>4. CASE FillIn(h) \/ FillOut(h)
  <2> SUFFICES ASSUME NEW e, e = cur[h], NEW day, day = body[h][e]
               PROVE  ScheduleOf(h)'
    OBVIOUS
  <2>1. body' = body /\ cur' = cur /\ pc[h] # "free"
    BY <1>4 DEF FillIn, FillOut, Goto
  <2>2. CASE pc'[h] = "regen"
    BY <1>0, <2>1, <2>2 DEF ScheduleOf
  <2>3. CASE pc'[h] # "regen"
    <3>1. FillIn(h) /\ pc'[h] = "fill_out" /\ LaterThan(Max(day), Min(day))
      BY <1>0, <1>4, <2>3 DEF FillIn, FillOut, Goto, TypeOK
    <3>2. /\ TimesOf(e)' = TimesOf(e) \union {Min(day)} /\ day # {} /\ day \in SUBSET Instants
          /\ TimesOf(e) \in SUBSET Instants
      BY <1>4, <3>1, WhatFillsDo
    <3>3. TimesOf(e) \in InStates(day)
      BY <3>1 DEF IInv, ScheduleInv, ScheduleOf, FillIn
    <3>4. Min(day) < Max(day)
      <4>1. Min(day) \in Nat /\ Max(day) \in Nat
        BY <3>2, FirstAndLastTap
      <4> QED
        BY <3>1, <4>1 DEF LaterThan
    <3>5. TimesOf(e)' \in OutStates(day)
      BY <3>2, <3>3, <3>4, FillsCommute
    <3>6. TimesOf(cur[h])' \in OutStates(day)
      BY <2>1, <3>5 DEF TimesOf, LogsOf
    <3> QED
      BY <1>0, <2>1, <3>1, <3>6 DEF ScheduleOf, OutStates
  <2> QED
    BY <2>2, <2>3
<1>5. CASE LoadPunchState(h)
  BY <1>5, LoadSchedules
<1>6. CASE SkipGroup(h) \/ Regenerate(h)
  BY <1>3, <1>6 DEF SkipGroup, Regenerate, Running
<1>7. CASE Discard(h) \/ Abort(h) \/ AgentOk(h)
  BY <1>1, <1>7 DEF Discard, Abort, AgentOk
<1> QED
  BY <1>2, <1>4, <1>5, <1>6, <1>7 DEF Import

LEMMA ScheduleStep == ASSUME IInv, [Next]_vars PROVE ScheduleInv'
<1>1. CASE UNCHANGED vars
  <2>1. ASSUME NEW e PROVE TimesOf(e)' = TimesOf(e)
    BY <1>1 DEF TimesOf, LogsOf, vars
  <2>2. /\ Scheduled' = Scheduled
        /\ UNCHANGED <<now, taps, file, agent, pc, body, cur>>
    BY <1>1 DEF Scheduled, vars
  <2>3. \A h \in Handlers : TimesOf(cur[h])' = TimesOf(cur[h])
    BY <2>1, <2>2
  <2>4. ASSUME NEW h \in Handlers, ScheduleOf(h) PROVE ScheduleOf(h)'
    BY <2>2, <2>3, <2>4 DEF ScheduleOf, InStates, OutStates
  <2> QED
    BY <2>2, <2>4 DEF IInv, ScheduleInv
<1>2. CASE Next /\ now < EndOfDay
  <2> SUFFICES ASSUME Scheduled PROVE ScheduleInv'
    BY SettingStays DEF ScheduleInv, Scheduled
  <2>1. UNCHANGED <<pc, file, agent>>
    BY <1>2, BeforeTheEnd
  <2>2. /\ file' = NoTaps /\ agent' = "off"
        /\ \A h \in Handlers : pc'[h] = "free"
    BY <1>2, <2>1 DEF IInv, ScheduleInv, ScheduleOf
  <2> QED
    BY <2>2 DEF ScheduleInv, ScheduleOf
<1>3. CASE Next /\ ~(now < EndOfDay)
  <2> SUFFICES ASSUME Scheduled PROVE ScheduleInv'
    BY SettingStays DEF ScheduleInv, Scheduled
  <2>1. now' = now /\ file' \in {NoTaps, taps'}
    BY <1>3, AfterTheEnd DEF IInv, ScheduleInv
  <2>2. ASSUME NEW g \in Handlers PROVE ScheduleOf(g)'
    <3>1. CASE Import(g) \/ Abort(g) \/ Accept(g) \/ AgentOk(g)
      BY <1>3, <3>1, HandlerSchedules
    <3>2. CASE ~(Import(g) \/ Abort(g) \/ Accept(g) \/ AgentOk(g))
      <4>1. pc'[g] = pc[g] /\ body'[g] = body[g] /\ cur'[g] = cur[g]
        BY <1>3, <3>2, OneHandlerSteps
      <4>2. ASSUME NEW e, e = cur[g]
            PROVE  /\ pc'[g] = "fill_in" => TimesOf(cur[g])' \in InStates(body[g][cur[g]])
                   /\ pc'[g] = "fill_out" => TimesOf(cur[g])' \in OutStates(body[g][cur[g]])
        BY <1>3, <4>1, <4>2, DaysKept DEF TimesOf, LogsOf
      <4>3. taps' = taps
        BY <1>3, AfterTheEnd
      <4> QED
        BY <1>3, <2>1, <4>1, <4>2, <4>3 DEF IInv, ScheduleInv, ScheduleOf, InStates, OutStates
    <3> QED
      BY <3>1, <3>2
  <2> QED
    BY <1>3, <2>1, <2>2 DEF ScheduleInv
<1> QED
  BY <1>1, <1>2, <1>3

----------------------------------------------------------------------------
(* The theorems.                                                           *)

LEMMA NextInv == ASSUME IInv, [Next]_vars PROVE IInv'
  BY TypeStep, MarkStep, CoverStep, ScheduleStep DEF IInv

\* The inductive invariant holds.
THEOREM Invariance == Spec => []IInv
<1>1. Init => IInv
  BY InitInv
<1>2. IInv /\ [Next]_vars => IInv'
  BY NextInv
<1> QED
  BY <1>1, <1>2, PTL DEF Spec

\* Every variable keeps its type, the summary row included: it is None or the
\* first and last of instants of the date.
THEOREM TypeCorrect == Spec => []TypeOK
<1>1. IInv => TypeOK
  BY DEF IInv
<1> QED
  BY <1>1, Invariance, PTL

\* An attempt that the agent logs as OK has covered every employee in its
\* file: _fill_group_gaps has found or made a clock-in and, if the last tap is
\* later, a clock-out, and no attempt that timed out before, no crash and no
\* half-written override has undone it; only the commit in which HR takes
\* logs back does.
THEOREM LoggedIsCovered == Spec => SuccessCovers
<1>1. ASSUME IInv, NEW h \in Handlers, AgentOk(h), NEW e \in Emp \ entered[h]
      PROVE  Covered(e, body[h][e])
  BY <1>1, ReplyCovers DEF AgentOk
<1>2. IInv => [\A h \in Handlers : AgentOk(h) => \A e \in Emp \ entered[h] : Covered(e, body[h][e])]_vars
  BY <1>1
<1> QED
  BY <1>2, Invariance, PTL DEF SuccessCovers

\* A file that has been logged as OK and is sent again adds no log to the day
\* of an employee of whom HR has taken none back since.
THEOREM SecondImportAddsNothing == Spec => ReimportIsNoop
<1>1. ASSUME IInv, NEW h \in Handlers, cur[h] \in resend[h], Import(h)
      PROVE  live' = live
  <2>1. ~FillIn(h) /\ ~FillOut(h)
    BY <1>1 DEF IInv, CoverInv, CoverOf, FillIn, FillOut
  <2> QED
    BY <1>1, <2>1 DEF Import, SkipGroup, LoadPunchState, Regenerate, Discard, store
<1>2. IInv => [\A h \in Handlers : cur[h] \in resend[h] /\ Import(h) => live' = live]_vars
  BY <1>1
<1> QED
  BY <1>2, Invariance, PTL DEF ReimportIsNoop

----------------------------------------------------------------------------
(* The import is a gap fill.                                               *)

Times == [e \in Emp |-> TimesOf(e)]

\* A step that changes one employee's day changes one entry.
LEMMA OneDay ==
  ASSUME NEW e \in Emp, \A d \in Emp : d # e => TimesOf(d)' = TimesOf(d)
  PROVE  Times' = [Times EXCEPT ![e] = TimesOf(e)']
<1>1. Times' = [d \in Emp |-> TimesOf(d)']
  BY DEF Times
<1>2. [Times EXCEPT ![e] = TimesOf(e)'] = [d \in Emp |-> IF d = e THEN TimesOf(e)' ELSE TimesOf(d)]
  BY DEF Times
<1> QED
  BY <1>1, <1>2

\* A punch, and each log of an override, changes one employee's day.
LEMMA WhatPeopleDo ==
  ASSUME IInv, NEW e \in Emp, PhonePunch(e) \/ OverrideLog(e)
  PROVE  \A d \in Emp : d # e => TimesOf(d)' = TimesOf(d)
<1>1. CASE PhonePunch(e)
  <2> DEFINE l == NewLog(e, now, "phone")
  <2>1. now \in Instants
    BY <1>1, NfcAssumption DEF IInv, TypeOK, PhonePunch, Instants
  <2>2. l.emp = e /\ live' = live \union {l}
    BY <1>1, <2>1, NewLogIsLog DEF IInv, PhonePunch
  <2> HIDE DEF l
  <2> QED
    BY <2>2, OneMoreLog
<1>2. CASE OverrideLog(e)
  <2>1. \A d : d # e => LogsOf(d)' = LogsOf(d)
    BY <1>2, OverriddenDay
  <2> QED
    BY <2>1 DEF TimesOf
<1> QED
  BY <1>1, <1>2

\* A change of one day while the date is open is a punch.
LEMMA ChangeIsPunch ==
  ASSUME IInv, [Next]_vars, Open, Open', taps' = taps, NEW e \in Emp,
         \A d \in Emp : d # e => TimesOf(d)' = TimesOf(d)
  PROVE  Promise!Punch(e)
<1>1. TimesOf(e)' \in SUBSET Instants
  <2>1. TypeOK'
    BY TypeStep
  <2> QED
    BY <2>1, TimesAreInstants DEF TypeOK, TimesOf, LogsOf, Log
<1>2. Times' = [Times EXCEPT ![e] = TimesOf(e)']
  BY OneDay
<1> QED
  BY <1>1, <1>2 DEF Promise!Punch, Times

\* Steps that leave the log and the taps.
LEMMA QuietStep ==
  ASSUME IInv, [Next]_vars, live' = live, taps' = taps
  PROVE  Promise!Close \/ UNCHANGED <<Open, taps, Times>>
<1>1. Times' = Times
  BY DEF Times, TimesOf, LogsOf
<1>2. Open' => Open
  <2>1. now' < EndOfDay => now < EndOfDay
    <3>1. now' = now \/ now' = now + 1
      BY DEF Next, Tick, Export, Tap, PhonePunch, Override, OverrideMark, OverrideLog,
         OverrideRegenerate, OverrideStops, Agent, AgentStart, SendFails, AnswerFails, Accept,
         AgentOk, Import, SkipGroup, LoadPunchState, FillIn, FillOut, Fill, Regenerate, Discard, Abort,
         door, client, server, vars
    <3> QED
      BY <3>1, NfcAssumption DEF IInv, TypeOK
  <2> QED
    BY <2>1, SettingStays DEF Open
<1> QED
  BY <1>1, <1>2 DEF Promise!Close, Times, Open

\* A fill after the date is over is the promised one, or has been made.
LEMMA LateFill ==
  ASSUME IInv, Next, ~Open, NEW h \in Handlers, FillIn(h) \/ FillOut(h)
  PROVE  (\E e \in Emp : Promise!FillIn(e) \/ Promise!FillOut(e)) \/ UNCHANGED <<Open, taps, Times>>
<1> SUFFICES ASSUME NEW e, e = cur[h]
             PROVE  Promise!FillIn(e) \/ Promise!FillOut(e) \/ UNCHANGED <<Open, taps, Times>>
  BY WhatFillsDo
<1>0. Scheduled /\ ~(now < EndOfDay) /\ taps' = taps /\ now' = now /\ setting' = setting
  BY AfterTheEnd, SettingStays DEF Open, Scheduled
<1>1. /\ e \in Emp /\ e \in Eligible /\ taps[e] # {} /\ taps[e] \in SUBSET Instants
      /\ body[h][e] = taps[e] /\ TimesOf(e) \in SUBSET Instants
      /\ \A d : d # e => TimesOf(d)' = TimesOf(d)
  BY <1>0, WhatFillsDo
<1>2. ~Open' /\ Open' = Open
  BY <1>0 DEF Open
<1>3. Times' = [Times EXCEPT ![e] = TimesOf(e)']
  BY <1>1, OneDay
<1>4. TimesOf(e)' = TimesOf(e) => UNCHANGED <<Open, taps, Times>>
  <2> SUFFICES ASSUME TimesOf(e)' = TimesOf(e) PROVE Times' = Times
    BY <1>0, <1>2
  <2>1. \A d \in Emp : TimesOf(d)' = TimesOf(d)
    BY <1>1
  <2> QED
    BY <2>1 DEF Times
<1> SUFFICES ASSUME NEW a, a = Min(taps[e]), NEW b, b = Max(taps[e])
             PROVE  Promise!FillIn(e) \/ Promise!FillOut(e) \/ UNCHANGED <<Open, taps, Times>>
  OBVIOUS
<1>5. /\ a \in taps[e] /\ b \in taps[e] /\ a \in Nat /\ b \in Nat
      /\ \A u \in taps[e] : a <= u /\ u <= b
  BY <1>1, FirstAndLastTap
<1>6. CASE FillIn(h)
  <2>1. TimesOf(e)' = TimesOf(e) \union {a} /\ TimesOf(e) \in {{}, {a}, {a, b}}
    BY <1>0, <1>1, <1>6, WhatFillsDo DEF IInv, ScheduleInv, ScheduleOf, FillIn, InStates
  <2>2. CASE TimesOf(e) = {}
    <3>1. TimesOf(e)' = {a}
      BY <2>1, <2>2
    <3> QED
      BY <1>0, <1>1, <1>2, <1>3, <1>5, <2>2, <3>1 DEF Promise!FillIn, Times
  <2>3. CASE TimesOf(e) # {}
    BY <1>4, <2>1, <2>3
  <2> QED
    BY <2>2, <2>3
<1>7. CASE FillOut(h)
  <2>1. TimesOf(e)' = TimesOf(e) \union {b} /\ TimesOf(e) \in OutStates(taps[e])
    BY <1>0, <1>1, <1>7, WhatFillsDo DEF IInv, ScheduleInv, ScheduleOf, FillOut
  <2>2. PICK x \in Instants : x < b /\ TimesOf(e) \in {{x}, {x, b}}
    BY <2>1 DEF OutStates
  <2>3. CASE TimesOf(e) = {x}
    <3>1. TimesOf(e)' = {x, b} /\ b > x
      BY <1>5, <2>1, <2>2, <2>3 DEF Instants
    <3>2. Times[e] = {x} /\ Times' = [Times EXCEPT ![e] = {x, b}]
      BY <1>1, <1>3, <2>3, <3>1 DEF Times
    <3>3. x \in Instants /\ b \in taps[e] /\ b > x /\ \A u \in taps[e] : u <= b
      BY <1>5, <3>1
    <3>4. ~Open /\ e \in Eligible /\ UNCHANGED <<Open, taps>>
      BY <1>0, <1>1, <1>2
    <3> QED
      BY <3>2, <3>3, <3>4 DEF Promise!FillOut, Times
  <2>4. CASE TimesOf(e) = {x, b}
    BY <1>4, <2>1, <2>4
  <2> QED
    BY <2>2, <2>3, <2>4
<1> QED
  BY <1>6, <1>7

\* Every step of the import is a step of the gap fill, or none.
LEMMA PromiseStep ==
  ASSUME IInv, [Next]_vars
  PROVE  Promise!Next \/ UNCHANGED <<Open, taps, Times>>
<1>1. CASE live' = live /\ taps' = taps
  BY <1>1, QuietStep DEF Promise!Next
<1>2. ASSUME NEW e \in Emp, Tap(e) PROVE Promise!Tap(e)
  <2>1. now \in Instants
    BY <1>2, NfcAssumption DEF IInv, TypeOK, Tap, Instants
  <2>2. Open /\ Open' /\ taps' = [taps EXCEPT ![e] = @ \union {now}] /\ live' = live
    BY <1>2 DEF Tap, Open, store
  <2>3. Times' = Times
    BY <2>2 DEF Times, TimesOf, LogsOf
  <2> QED
    BY <2>1, <2>2, <2>3 DEF Promise!Tap, Times
<1>3. ASSUME NEW e \in Emp, PhonePunch(e) \/ OverrideLog(e) PROVE Promise!Punch(e)
  <2>1. Open /\ Open' /\ taps' = taps
    <3>1. OverrideLog(e) => setting.overrides # {}
      BY OnlyEntries DEF Override
    <3> QED
      BY <1>3, <3>1 DEF PhonePunch, OverrideLog, Open, door
  <2> QED
    BY <1>3, <2>1, WhatPeopleDo, ChangeIsPunch
<1>4. ASSUME NEW h \in Handlers, FillIn(h) \/ FillOut(h)
      PROVE  Promise!Next \/ UNCHANGED <<Open, taps, Times>>
  <2>1. CASE Open
    <3> SUFFICES ASSUME NEW e, e = cur[h] PROVE Promise!Next
      OBVIOUS
    <3>1. Open' /\ taps' = taps
      BY <1>4, <2>1 DEF FillIn, FillOut, Fill, Open, door
    <3>2. e \in Emp /\ \A d \in Emp : d # e => TimesOf(d)' = TimesOf(d)
      BY <1>4, WhatFillsDo
    <3>3. Promise!Punch(e)
      BY <2>1, <3>1, <3>2, ChangeIsPunch
    <3> QED
      BY <3>2, <3>3 DEF Promise!Next
  <2>2. CASE ~Open
    <3>1. Next
      BY <1>4 DEF Next, Import
    <3> QED
      BY <1>4, <2>2, <3>1, LateFill DEF Promise!Next
  <2> QED
    BY <2>1, <2>2
<1>5. ASSUME \A e \in Emp : ~Tap(e) /\ ~PhonePunch(e) /\ ~OverrideLog(e),
             \A h \in Handlers : ~FillIn(h) /\ ~FillOut(h)
      PROVE  live' = live /\ taps' = taps
  BY <1>5 DEF Next, Tick, Export, Override, OverrideMark, OverrideRegenerate, OverrideStops, Agent,
         AgentStart, SendFails, AnswerFails, Accept, AgentOk, Import, SkipGroup, LoadPunchState, Regenerate, Discard, Abort, door, store, vars
<1> QED
  BY <1>1, <1>2, <1>3, <1>4, <1>5 DEF Promise!Next

\* The import implements the gap fill: run as scheduled it never adds a third
\* time or moves a punched one, however often the file is sent, however the
\* attempts overlap and wherever they stop.
THEOREM IsGapFill == Spec => ImplementsGapFill
<1>1. Init => Promise!Init
  <2> SUFFICES ASSUME Init PROVE Promise!Init
    OBVIOUS
  <2>1. Open
    BY NfcAssumption DEF Init, Open
  <2>2. \A e \in Emp : TimesOf(e) = {}
    BY DEF Init, TimesOf, LogsOf
  <2> QED
    BY <2>1, <2>2 DEF Init, NoTaps, Promise!Init
<1>2. IInv /\ [Next]_vars => [Promise!Next]_<<Open, taps, Times>>
  BY PromiseStep
<1> QED
  BY <1>1, <1>2, Invariance, PTL DEF Spec, ImplementsGapFill, Promise!Spec, Times

=============================================================================
