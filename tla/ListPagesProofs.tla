-------------------------- MODULE ListPagesProofs --------------------------
(***************************************************************************)
(* Theorems about ListPages, for any employees, departments, ranges and    *)
(* bounds.  A table at rest is of the filters on screen because every      *)
(* change of the filters starts a load of its own, the latest: either it   *)
(* is still under way, or its answer has been handled, and then the table  *)
(* is its answer unless an older one has come after it.                    *)
(***************************************************************************)
EXTENDS ListPages, FiniteSetTheorems, WellFoundedInduction, TLAPS

----------------------------------------------------------------------------
(* The inductive invariant.                                                *)

\* Everything but the requests has its type.
PageOK ==
    /\ kind \in Kinds /\ resigned \subseteq Emps /\ filters \in Filters /\ list \subseteq Emps
    /\ run \in Nat /\ (table = None \/ table \in Tables)
    /\ loading \in BOOLEAN /\ error \in BOOLEAN /\ busy \in BOOLEAN
    /\ ended \in Nat /\ overtaken \in BOOLEAN

\* The requests have theirs, and a button's request disables the buttons.
CallsOK ==
    /\ calls \subseteq Requests /\ IsFiniteSet(calls)
    /\ \A c, d \in calls : c.op = "job" /\ d.op = "job" => c = d
    /\ \A c \in calls : c.op = "job" => busy
    /\ ~Loads => \A c \in calls : c.op # "load"
    /\ ~Lists => \A c \in calls : c.op # "list"

\* The latest load is under way or has been answered.
LatestIsKnown == ended = run \/ \E c \in calls : c.op = "load" /\ c.run = run

\* What the table shows once the latest load has been answered.
TableInv ==
    Loads =>
        /\ ended <= run /\ LatestIsKnown
        /\ \A c \in calls : c.op = "load" => c.run <= run /\ (c.run = run => c.of = filters)
        /\ ended = run => ~loading
        /\ ended = run /\ ~error /\ ~overtaken => table = [run |-> run, of |-> filters]

\* The file is named for the filters it was asked with.
FileInv ==
    file # None =>
        /\ file.of \in Filters
        /\ \E hrm \in BOOLEAN : file.name = FileName(file.of, hrm)

IInv == PageOK /\ CallsOK /\ SelectionListed /\ TableInv /\ FileInv

----------------------------------------------------------------------------
(* Numbers of requests.                                                    *)

\* Less-than as a relation.
Below == {p \in Nat \X Nat : p[1] < p[2]}

LEMMA BelowIsWellFounded == IsWellFoundedOn(Below, Nat)
  BY NatLessThanWellFounded DEF OpToRel, Below

\* A set of natural numbers that has an element has a smallest one.
LEMMA MinIsElement ==
  ASSUME NEW S \in SUBSET Nat, S # {}
  PROVE  Min(S) \in S
<1>1. PICK x \in S : \A y \in S : ~(<<y, x>> \in Below)
  BY WFMin, BelowIsWellFounded
<1>2. ASSUME NEW y \in S PROVE x <= y
  <2>1. y \in Nat /\ x \in Nat /\ ~(<<y, x>> \in Below)
    BY <1>1
  <2> QED
    BY <2>1 DEF Below
<1> QED
  BY <1>2 DEF Min

\* Of the numbers up to the number of requests one is free, whatever numbers
\* the requests have.
LEMMA NumberIsFree ==
  ASSUME IsFiniteSet(calls), NEW op
  PROVE  {i \in 0..Cardinality(calls) : \A c \in calls : c.op = op => c.n # i} # {}
<1> DEFINE k == Cardinality(calls)
           f == [i \in 0..k |-> CHOOSE c \in calls : c.n = i]
<1>1. k \in Nat
  BY FS_CardinalityType
<1>2. SUFFICES ASSUME \A i \in 0..k : \E c \in calls : c.n = i
               PROVE  FALSE
  OBVIOUS
<1>3. \A i \in 0..k : f[i] \in calls /\ f[i].n = i
  BY <1>2
<1>4. f \in [0..k -> calls]
  BY <1>3
<1>5. IsFiniteSet(0..k) /\ Cardinality(0..k) = k + 1
  BY <1>1, FS_Interval
<1>6. k < Cardinality(0..k)
  BY <1>1, <1>5
<1>7. \E x, y \in 0..k : x # y /\ f[x] = f[y]
  <2> HIDE DEF f, k
  <2> QED
    BY <1>4, <1>5, <1>6, FS_PigeonHole DEF k
<1> QED
  BY <1>3, <1>7

\* A new request is a request.
LEMMA CallIsRequest ==
  ASSUME IsFiniteSet(calls), NEW op \in {"load", "list", "job"}, NEW f \in Filters, NEW r \in Nat
  PROVE  /\ Call(op, f, r) \in Requests
         /\ Call(op, f, r).op = op /\ Call(op, f, r).of = f /\ Call(op, f, r).run = r
<1> DEFINE N == {i \in 0..Cardinality(calls) : \A c \in calls : c.op = op => c.n # i}
<1>1. N \in SUBSET Nat
  BY FS_CardinalityType
<1>2. N # {}
  BY NumberIsFree
<1>3. Min(N) \in Nat
  <2> HIDE DEF N
  <2> QED
    BY <1>1, <1>2, MinIsElement
<1> QED
  BY <1>3 DEF Call, Requests

----------------------------------------------------------------------------
(* Steps.                                                                  *)

\* The page starts in the invariant.
LEMMA InitInv == Init => IInv
<1> SUFFICES ASSUME Init PROVE IInv
  OBVIOUS
<1>1. NoFilters \in Filters /\ NoFilters.emp = None /\ NoFilters.dept = None
  BY ListPagesAssumption DEF NoFilters, Filters
<1>2. PageOK
  <2>1. run \in Nat
    BY DEF Init
  <2>2. loading \in BOOLEAN
    BY DEF Init, Loads
  <2> QED
    BY <1>1, <2>1, <2>2 DEF Init, PageOK
<1> DEFINE Sent(op) == [n |-> 0, op |-> op, of |-> NoFilters, hrm |-> FALSE,
                        run |-> IF op = "load" THEN 1 ELSE 0]
<1>3. calls = (IF Loads THEN {Sent("load")} ELSE {}) \union (IF Lists THEN {Sent("list")} ELSE {})
  BY DEF Init
<1>4. /\ Sent("load") \in Requests /\ Sent("load").op = "load"
      /\ Sent("load").run = 1 /\ Sent("load").of = NoFilters
      /\ Sent("list") \in Requests /\ Sent("list").op = "list"
  BY <1>1 DEF Requests
<1> HIDE DEF Sent
<1>5. CallsOK
  <2>1. IsFiniteSet(calls)
    BY <1>3, FS_EmptySet, FS_Singleton, FS_Union
  <2> QED
    BY <1>3, <1>4, <2>1 DEF CallsOK
<1>6. SelectionListed /\ FileInv
  BY <1>1 DEF Init, SelectionListed, FileInv
<1>7. TableInv
  <2> SUFFICES ASSUME Loads PROVE TableInv
    BY DEF TableInv
  <2>1. run = 1 /\ ended = 0 /\ filters = NoFilters
    BY DEF Init
  <2>2. Sent("load") \in calls /\ \A c \in calls : c.op = "load" => c = Sent("load")
    BY <1>3, <1>4
  <2> QED
    BY <1>4, <2>1, <2>2 DEF TableInv, LatestIsKnown
<1> QED
  BY <1>2, <1>5, <1>6, <1>7 DEF IInv

\* Other filters, with the load that follows, keep the invariant's parts; the
\* requests that end and begin with them are for lists.
LEMMA RefilterInv ==
  ASSUME IInv, NEW f \in Filters, NEW gone \in SUBSET calls, NEW more \in SUBSET Requests,
         IsFiniteSet(more), \A c \in gone \union more : c.op = "list",
         Lists \/ more = {}, kind = "today" => f = filters,
         Refilter(f, gone, more), list' \subseteq Emps, UNCHANGED <<kind, resigned>>
  PROVE  PageOK' /\ CallsOK' /\ TableInv' /\ FileInv'
<1>1. Loads' = Loads /\ Lists' = Lists
  BY DEF Loads, Lists
<1>2. FileInv'
  BY DEF Refilter, IInv, FileInv
<1>3. IsFiniteSet((calls \ gone) \union more)
  BY FS_Difference, FS_Union DEF IInv, CallsOK
<1>4. CASE Loads
  <2> DEFINE new == Call("load", f, run + 1)
  <2>1. new \in Requests /\ new.op = "load" /\ new.of = f /\ new.run = run + 1
    BY CallIsRequest DEF IInv, CallsOK, PageOK
  <2>2. calls' = (calls \ gone) \union more \union {new} /\ run' = run + 1
    BY <1>4 DEF Refilter
  <2> HIDE DEF new
  <2>3. IsFiniteSet(calls')
    BY <1>3, <2>2, FS_Singleton, FS_Union
  <2>4. PageOK'
    BY <1>4, <2>2 DEF Refilter, IInv, PageOK, history
  <2>5. CallsOK'
    BY <1>1, <1>4, <2>1, <2>2, <2>3 DEF Refilter, IInv, CallsOK
  <2>6. TableInv'
    <3>1. ended' = ended /\ ended <= run /\ run \in Nat /\ ended \in Nat /\ filters' = f
      BY <1>4 DEF Refilter, history, IInv, PageOK, TableInv
    <3>2. \A c \in calls' : c.op = "load" => c.run <= run' /\ (c.run = run' => c.of = filters')
      <4> SUFFICES ASSUME NEW c \in calls', c.op = "load"
                   PROVE  c.run <= run' /\ (c.run = run' => c.of = filters')
        OBVIOUS
      <4>1. CASE c = new
        BY <2>1, <2>2, <3>1, <4>1
      <4>2. CASE c \in calls
        <5>1. c.run \in Nat /\ c.run <= run
          BY <1>4, <4>2 DEF IInv, TableInv, CallsOK, Requests
        <5> QED
          BY <2>2, <3>1, <5>1
      <4> QED
        BY <2>2, <4>1, <4>2
    <3>3. LatestIsKnown'
      BY <2>1, <2>2 DEF LatestIsKnown
    <3> QED
      BY <2>2, <3>1, <3>2, <3>3 DEF TableInv
  <2> QED
    BY <1>2, <2>4, <2>5, <2>6
<1>5. CASE ~Loads
  <2>1. calls' = (calls \ gone) \union more
    BY <1>5 DEF Refilter
  <2>2. PageOK'
    BY <1>5 DEF Refilter, IInv, PageOK, history
  <2>3. CallsOK'
    BY <1>1, <1>3, <1>5, <2>1 DEF Refilter, IInv, CallsOK
  <2>4. TableInv'
    BY <1>1, <1>5 DEF TableInv
  <2> QED
    BY <1>2, <2>2, <2>3, <2>4
<1> QED
  BY <1>4, <1>5

\* The selections, the checkbox, the dates and the language.
LEMMA FilterInv ==
  ASSUME IInv, Select \/ SetRange \/ Tick \/ SwitchLanguage
  PROVE  IInv'
<1>1. filters \in Filters /\ list \subseteq Emps /\ SelectionListed
  BY DEF IInv, PageOK
<1>2. IsFiniteSet({}) /\ {} \in SUBSET calls /\ {} \in SUBSET Requests
  BY FS_EmptySet
<1>3. ASSUME NEW f \in Filters, Refilter(f, {}, {}), UNCHANGED <<kind, resigned, list>>,
             kind = "today" => f = filters,
             f.emp # None => f.emp \in list, f.dept # None => f.dept \in {Dept[e] : e \in list}
      PROVE  IInv'
  <2>1. PageOK' /\ CallsOK' /\ TableInv' /\ FileInv'
    BY <1>1, <1>2, <1>3, RefilterInv
  <2>2. SelectionListed'
    BY <1>3 DEF SelectionListed, Refilter
  <2> QED
    BY <2>1, <2>2 DEF IInv
<1>4. CASE Select
  <2>1. UNCHANGED <<kind, resigned, list>> /\ kind # "today"
    BY <1>4 DEF Select, Event, Lists
  <2>2. CASE \E e \in (list \union {None}) \ {filters.emp} :
                Refilter([filters EXCEPT !.emp = e], {}, {})
    <3>1. PICK e \in list \union {None} : Refilter([filters EXCEPT !.emp = e], {}, {})
      BY <2>2
    <3> DEFINE f == [filters EXCEPT !.emp = e]
    <3>2. f \in Filters /\ f.emp = e /\ f.dept = filters.dept
      BY <1>1 DEF Filters
    <3> HIDE DEF f
    <3> QED
      BY <1>1, <1>3, <2>1, <3>1, <3>2 DEF SelectionListed, f
  <2>3. CASE \E d \in ({Dept[e] : e \in list} \union {None}) \ {filters.dept} :
                Refilter([filters EXCEPT !.dept = d], {}, {})
    <3>1. PICK d \in {Dept[e] : e \in list} \union {None} : Refilter([filters EXCEPT !.dept = d], {}, {})
      BY <2>3
    <3> DEFINE f == [filters EXCEPT !.dept = d]
    <3>2. f \in Filters /\ f.dept = d /\ f.emp = filters.emp
      BY <1>1 DEF Filters, Depts
    <3> HIDE DEF f
    <3> QED
      BY <1>1, <1>3, <2>1, <3>1, <3>2 DEF SelectionListed, f
  <2> QED
    BY <1>4, <2>2, <2>3 DEF Select
<1>5. CASE SetRange
  <2>1. UNCHANGED <<kind, resigned, list>> /\ kind # "today"
    BY <1>5 DEF SetRange, Event
  <2>2. PICK r \in Ranges : Refilter([filters EXCEPT !.range = r], {}, {})
    BY <1>5 DEF SetRange
  <2> DEFINE f == [filters EXCEPT !.range = r]
  <2>3. f \in Filters /\ f.emp = filters.emp /\ f.dept = filters.dept
    BY <1>1 DEF Filters
  <2> HIDE DEF f
  <2> QED
    BY <1>1, <1>3, <2>1, <2>2, <2>3 DEF SelectionListed, f
<1>6. CASE Tick
  <2> DEFINE f == [filters EXCEPT !.former = ~@]
             more == {Call("list", f, 0)}
  <2>1. UNCHANGED <<kind, resigned, list>> /\ kind # "today" /\ Lists /\ Refilter(f, {}, more)
    BY <1>6 DEF Tick, Event, Lists
  <2>2. f \in Filters /\ f.emp = filters.emp /\ f.dept = filters.dept
    BY <1>1 DEF Filters
  <2>3. more \in SUBSET Requests /\ \A c \in more : c.op = "list"
    <3> HIDE DEF f
    <3> QED
      BY <2>2, CallIsRequest DEF IInv, CallsOK
  <2>4. IsFiniteSet(more)
    BY FS_Singleton
  <2> HIDE DEF f, more
  <2>5. PageOK' /\ CallsOK' /\ TableInv' /\ FileInv'
    BY <1>1, <1>2, <2>1, <2>2, <2>3, <2>4, RefilterInv
  <2>6. SelectionListed'
    BY <1>1, <2>1, <2>2 DEF SelectionListed, Refilter
  <2> QED
    BY <2>5, <2>6 DEF IInv
<1>7. CASE SwitchLanguage
  <2>1. UNCHANGED <<kind, resigned, list>> /\ Refilter(filters, {}, {})
    BY <1>7 DEF SwitchLanguage, Event
  <2> QED
    BY <1>1, <1>3, <2>1 DEF SelectionListed
<1> QED
  BY <1>4, <1>5, <1>6, <1>7

\* The button of a page without a table.
LEMMA StartInv == ASSUME IInv, Start PROVE IInv'
<1>1. PICK hrm \in BOOLEAN : calls' = calls \union {[Call("job", filters, 0) EXCEPT !.hrm = hrm]}
  BY DEF Start
<1> DEFINE new == [Call("job", filters, 0) EXCEPT !.hrm = hrm]
<1>2. new \in Requests /\ new.op = "job"
  <2>1. Call("job", filters, 0) \in Requests /\ Call("job", filters, 0).op = "job"
    BY CallIsRequest DEF IInv, PageOK, CallsOK
  <2> QED
    BY <2>1 DEF Requests
<1>3. calls' = calls \union {new} /\ ~Loads /\ ~busy /\ busy' = TRUE
  BY <1>1 DEF Start
<1>4. UNCHANGED <<kind, resigned, filters, list, run, table, loading, error, file, ended, overtaken>>
  BY DEF Start, Event, history
<1> HIDE DEF new
<1>5. IsFiniteSet(calls')
  BY <1>3, FS_Singleton, FS_Union DEF IInv, CallsOK
<1>6. CallsOK'
  BY <1>2, <1>3, <1>4, <1>5 DEF IInv, CallsOK, Loads, Lists
<1>7. PageOK' /\ SelectionListed' /\ FileInv' /\ TableInv'
  BY <1>3, <1>4 DEF IInv, PageOK, SelectionListed, FileInv, TableInv, Loads
<1> QED
  BY <1>6, <1>7 DEF IInv

\* A list that arrives takes the selection along that it lacks.
LEMMA ListArrivesInv == ASSUME IInv, NEW c \in calls, ListArrives(c) PROVE IInv'
<1> DEFINE f == [filters EXCEPT
                   !.emp = IF @ \in Listed(c.of) THEN @ ELSE None,
                   !.dept = IF \E e \in Listed(c.of) : Dept[e] = @ THEN @ ELSE None]
<1>1. /\ c.op = "list" /\ list' = Listed(c.of) /\ list' \subseteq Emps
      /\ UNCHANGED <<kind, resigned>> /\ filters \in Filters
  BY DEF ListArrives, Quietly, Listed, IInv, PageOK
<1>2. f \in Filters /\ f.emp \in list' \union {None} /\ f.dept \in {Dept[e] : e \in list'} \union {None}
  <2>1. f.emp \in list' \union {None} /\ f.dept \in {Dept[e] : e \in list'} \union {None}
    BY <1>1 DEF Filters
  <2> QED
    BY <1>1, <2>1 DEF Filters, Depts
<1>3. Lists /\ kind # "today"
  BY <1>1 DEF IInv, CallsOK, Lists
<1>4. CASE f # filters
  <2>1. Refilter(f, {c}, {})
    BY <1>4 DEF ListArrives
  <2>2. IsFiniteSet({})
    BY FS_EmptySet
  <2> HIDE DEF f
  <2>3. PageOK' /\ CallsOK' /\ TableInv' /\ FileInv'
    BY <1>1, <1>2, <1>3, <2>1, <2>2, RefilterInv
  <2>4. SelectionListed'
    BY <1>2, <2>1 DEF SelectionListed, Refilter
  <2> QED
    BY <2>3, <2>4 DEF IInv
<1>5. CASE f = filters
  <2>1. calls' = calls \ {c} /\ UNCHANGED <<filters, run, table, loading, error, busy, file, history>>
    BY <1>5 DEF ListArrives
  <2> HIDE DEF f
  <2>2. IsFiniteSet(calls')
    BY <2>1, FS_Difference DEF IInv, CallsOK
  <2>3. CallsOK'
    BY <1>1, <2>1, <2>2 DEF IInv, CallsOK, Loads, Lists
  <2>4. PageOK' /\ FileInv'
    BY <1>1, <2>1 DEF IInv, PageOK, FileInv, history
  <2>5. SelectionListed'
    BY <1>2, <1>5, <2>1 DEF SelectionListed
  <2>6. TableInv'
    BY <1>1, <2>1 DEF IInv, TableInv, LatestIsKnown, Loads, history
  <2> QED
    BY <2>3, <2>4, <2>5, <2>6 DEF IInv
<1> QED
  BY <1>4, <1>5

\* A list that fails changes nothing on the page.
LEMMA ListFailsInv == ASSUME IInv, NEW c \in calls, ListFails(c) PROVE IInv'
<1>1. calls' = calls \ {c} /\ c.op = "list" /\ UNCHANGED <<kind, resigned, page, history>>
  BY DEF ListFails, Fault
<1>2. IsFiniteSet(calls')
  BY <1>1, FS_Difference DEF IInv, CallsOK
<1>3. CallsOK'
  BY <1>1, <1>2 DEF IInv, CallsOK, Loads, Lists, page
<1>4. PageOK' /\ SelectionListed' /\ FileInv'
  BY <1>1 DEF IInv, PageOK, SelectionListed, FileInv, page, history
<1>5. TableInv'
  BY <1>1 DEF IInv, TableInv, LatestIsKnown, Loads, page, history
<1> QED
  BY <1>3, <1>4, <1>5 DEF IInv

\* An answer or an error of the table's.
LEMMA LoadInv == ASSUME IInv, NEW c \in calls, LoadAnswered(c) \/ LoadFails(c) PROVE IInv'
<1>1. /\ c.op = "load" /\ calls' = calls \ {c}
      /\ UNCHANGED <<kind, resigned, filters, list, run, busy, file>>
  BY DEF LoadAnswered, LoadFails, LoadEnds, Quietly, Fault
<1>2. /\ c \in Requests /\ c.run \in Nat /\ c.of \in Filters /\ Loads /\ Loads' /\ Lists' = Lists
      /\ c.run <= run /\ (c.run = run => c.of = filters)
      /\ run \in Nat /\ ended \in Nat /\ ended <= run
  BY <1>1 DEF IInv, CallsOK, TableInv, Requests, Loads, Lists, PageOK
<1>3. CallsOK'
  <2>1. IsFiniteSet(calls')
    BY <1>1, FS_Difference DEF IInv, CallsOK
  <2> QED
    BY <1>1, <1>2, <2>1 DEF IInv, CallsOK
<1>4. SelectionListed' /\ FileInv'
  BY <1>1 DEF IInv, SelectionListed, FileInv
<1>5. CASE Cancelled(c)
  <2>1. UNCHANGED <<loading, table, ended, overtaken>>
    BY <1>5 DEF LoadAnswered, LoadFails, LoadEnds, history
  <2>2. c.run < run /\ error' = error
    <3>1. c.run < run
      BY <1>5 DEF Cancelled
    <3>2. error \in BOOLEAN
      BY DEF IInv, PageOK
    <3> QED
      BY <1>5, <3>1, <3>2 DEF LoadAnswered, LoadFails
  <2>3. PageOK'
    BY <1>1, <2>1, <2>2 DEF IInv, PageOK
  <2>4. TableInv'
    BY <1>1, <1>2, <2>1, <2>2 DEF IInv, TableInv, LatestIsKnown
  <2> QED
    BY <1>3, <1>4, <2>3, <2>4 DEF IInv
<1>6. CASE ~Cancelled(c)
  <2>1. /\ loading' = FALSE /\ overtaken' = (c.run < ended)
        /\ ended' = (IF c.run < ended THEN ended ELSE c.run)
    BY <1>6 DEF LoadAnswered, LoadFails, LoadEnds
  <2>2. \/ table' = [run |-> c.run, of |-> c.of] /\ error' = error
        \/ table' = table /\ error' = TRUE
    <3>1. CASE LoadAnswered(c)
      BY <1>6, <3>1 DEF LoadAnswered
    <3>2. CASE LoadFails(c)
      <4>1. error' = (error \/ ~Cancelled(c)) /\ table' = table
        BY <3>2 DEF LoadFails
      <4>2. error' = TRUE
        BY <1>6, <4>1
      <4> QED
        BY <4>1, <4>2
    <3> QED
      BY <3>1, <3>2
  <2>3. ended' \in Nat /\ ended' <= run /\ (c.run = run => ended' = run) /\ overtaken' \in BOOLEAN
    BY <1>2, <2>1
  <2>4. PageOK'
    <3>1. error' \in BOOLEAN
      BY <2>2 DEF IInv, PageOK
    <3>2. table' = None \/ table' \in Tables
      BY <1>2, <2>2 DEF IInv, PageOK, Tables
    <3> QED
      BY <1>1, <2>1, <2>3, <3>1, <3>2 DEF IInv, PageOK
  <2>5. LatestIsKnown'
    <3>1. CASE c.run = run
      BY <1>1, <2>3, <3>1 DEF LatestIsKnown
    <3>2. CASE c.run # run /\ ended = run
      <4>1. c.run < ended
        BY <1>2, <3>2
      <4> QED
        BY <1>1, <2>1, <3>2, <4>1 DEF LatestIsKnown
    <3>3. CASE c.run # run /\ ended # run
      BY <1>1, <1>2, <3>3 DEF IInv, TableInv, LatestIsKnown
    <3> QED
      BY <3>1, <3>2, <3>3
  <2>6. ended' = run' /\ ~error' /\ ~overtaken' => table' = [run |-> run', of |-> filters']
    <3> SUFFICES ASSUME ended' = run, ~error', ~overtaken'
                 PROVE  table' = [run |-> run, of |-> filters]
      BY <1>1
    <3>1. c.run = run
      BY <1>2, <2>1
    <3> QED
      BY <1>2, <2>2, <3>1
  <2>7. TableInv'
    BY <1>1, <1>2, <2>1, <2>3, <2>5, <2>6 DEF IInv, TableInv
  <2> QED
    BY <1>3, <1>4, <2>4, <2>7 DEF IInv
<1> QED
  BY <1>5, <1>6

\* A button's answer or error.
LEMMA JobInv == ASSUME IInv, NEW c \in calls, JobAnswered(c) \/ JobFails(c) PROVE IInv'
<1>1. /\ c.op = "job" /\ calls' = calls \ {c} /\ busy' = FALSE
      /\ UNCHANGED <<kind, resigned, filters, list, run, table, loading, error, ended, overtaken>>
      /\ file' = file \/ file' = [name |-> FileName(c.of, c.hrm), of |-> c.of]
  BY DEF JobAnswered, JobFails, Quietly, Fault, history
<1>2. IsFiniteSet(calls')
  BY <1>1, FS_Difference DEF IInv, CallsOK
<1>3. CallsOK'
  BY <1>1, <1>2 DEF IInv, CallsOK, Loads, Lists
<1>4. PageOK' /\ SelectionListed'
  BY <1>1 DEF IInv, PageOK, SelectionListed
<1>5. FileInv'
  <2>1. c.of \in Filters /\ c.hrm \in BOOLEAN
    BY DEF IInv, CallsOK, Requests
  <2> QED
    BY <1>1, <2>1 DEF IInv, FileInv
<1>6. TableInv'
  BY <1>1 DEF IInv, TableInv, LatestIsKnown, Loads
<1> QED
  BY <1>3, <1>4, <1>5, <1>6 DEF IInv

\* Every step keeps the invariant.
LEMMA NextInv == IInv /\ [Next]_vars => IInv'
<1> SUFFICES ASSUME IInv, [Next]_vars PROVE IInv'
  OBVIOUS
<1>1. CASE UNCHANGED vars
  BY <1>1 DEF IInv, PageOK, CallsOK, SelectionListed, TableInv, LatestIsKnown, FileInv,
              Loads, Lists, vars, page, history
<1>2. CASE Select \/ SetRange \/ Tick \/ SwitchLanguage \/ Start
  BY <1>2, FilterInv, StartInv
<1>3. ASSUME NEW c \in calls, CallStep(c) \/ ListFails(c) \/ LoadFails(c) \/ JobFails(c)
      PROVE  IInv'
  BY <1>3, ListArrivesInv, ListFailsInv, LoadInv, JobInv DEF CallStep
<1> QED
  BY <1>1, <1>2, <1>3 DEF Next

----------------------------------------------------------------------------
(* Theorems.                                                               *)

\* The invariant holds throughout.
THEOREM Invariance == Spec => []IInv
  BY InitInv, NextInv, PTL DEF Spec

\* A file's name and contents come from the same filters.
LEMMA FileOfFilters ==
  ASSUME IInv, file # None
  PROVE  /\ file.name \in FileNames /\ file.of \in Filters
         /\ file.name.emp \in {None, file.of.emp} /\ file.name.dept \in {None, file.of.dept}
         /\ file.name.range = file.of.range
<1>1. PICK hrm \in BOOLEAN : file.name = FileName(file.of, hrm)
  BY DEF IInv, FileInv
<1>2. file.of \in Filters
  BY DEF IInv, FileInv
<1> QED
  BY <1>1, <1>2 DEF FileName, FileNames, Filters

\* The page, its requests and answers keep their types, and a button has one
\* request under way at most.
THEOREM TypeCorrect == Spec => []TypeOK
<1>1. IInv => TypeOK
  <2> SUFFICES ASSUME IInv PROVE TypeOK
    OBVIOUS
  <2> DEFINE jobs == {c \in calls : c.op = "job"}
  <2>1. Cardinality(jobs) <= 1
    <3>1. jobs = {} \/ \E c : jobs = {c}
      BY DEF IInv, CallsOK
    <3> HIDE DEF jobs
    <3>2. Cardinality(jobs) = 0 \/ Cardinality(jobs) = 1
      BY <3>1, FS_EmptySet, FS_Singleton
    <3> QED
      BY <3>2
  <2>2. ~Loads => {c \in calls : c.op = "load"} = {}
    BY DEF IInv, CallsOK
  <2>3. ~Lists => {c \in calls : c.op = "list"} = {}
    BY DEF IInv, CallsOK
  <2>4. file = None \/ (file.name \in FileNames /\ file.of \in Filters)
    BY FileOfFilters
  <2> QED
    BY <2>1, <2>2, <2>3, <2>4 DEF TypeOK, IInv, PageOK, CallsOK
<1> QED
  BY <1>1, Invariance, PTL

\* The table is not stale when it is at rest, however the loads of earlier
\* filters were answered.
THEOREM TableCurrent == Spec => []SettledTableIsCurrent
<1>1. IInv => SettledTableIsCurrent
  BY DEF IInv, PageOK, TableInv, LatestIsKnown, SettledTableIsCurrent, Settled, OnScreen
<1> QED
  BY <1>1, Invariance, PTL

\* What is selected can be selected, and the resigned are shown only to whom
\* asks for them.
THEOREM ListsHold == Spec => []ListInv
<1>1. IInv => ResignedOnlyIfAsked
  <2> SUFFICES ASSUME IInv, kind = "report", Settled, ~error, NEW e \in Rows(table.of) \intersect resigned
               PROVE  filters.former \/ filters.emp = e
    BY DEF ResignedOnlyIfAsked
  <2>1. table.of = filters
    BY DEF IInv, PageOK, TableInv, LatestIsKnown, Settled, Loads
  <2> QED
    BY <2>1 DEF Rows, Asked
<1>2. IInv => SelectionListed
  BY DEF IInv
<1> QED
  BY <1>1, <1>2, TypeCorrect, Invariance, PTL DEF ListInv

\* A file holds what its name says, whatever was selected while it was on
\* its way.
THEOREM FilesHold == Spec => []FileHoldsWhatItSays
<1>1. IInv => FileHoldsWhatItSays
  <2> SUFFICES ASSUME IInv, file # None
               PROVE  /\ \A e \in Rows(file.of) : file.name.emp \in {None, e} /\ file.name.dept \in {None, Dept[e]}
                      /\ file.of.range = file.name.range
    BY DEF FileHoldsWhatItSays
  <2>1. \A e \in Rows(file.of) : file.of.emp \in {None, e} /\ file.of.dept \in {None, Dept[e]}
    BY DEF Rows, Asked
  <2> QED
    BY <2>1, FileOfFilters
<1> QED
  BY <1>1, Invariance, PTL

=============================================================================
