------------------------- MODULE SystemConfigProofs -------------------------
(***************************************************************************)
(* Theorems about SystemConfig, for any users, entries, kinds of section   *)
(* and bounds.  A list is a sequence without repetition; what relates the  *)
(* list on a page to the row is what the page has been told and what its   *)
(* user has edited since.                                                  *)
(***************************************************************************)
EXTENDS SystemConfig, FiniteSetTheorems, SequenceTheorems, TLAPS

----------------------------------------------------------------------------
(* The inductive invariant.                                                *)

\* The steps a request of each kind goes through, in any order.
StepsOf(op) ==
    CASE op \in {"load", "status"} -> {"sent", "done"}
      [] op = "save" -> {"sent", "write", "done", "refused"}
      [] op = "refresh" -> {"sent", "put", "write", "done", "refused"}
      [] OTHER -> Steps

IsCall(c) ==
    /\ c \in [n : {c.n}, u : Users \union {None}, op : Ops, gen : Nat, list : Values \union {None},
              val : Values \union {None}, new : BOOLEAN, step : Steps]
    /\ c.step \in StepsOf(c.op)

\* Which requests there are, and what they carry.
CallOK(c) ==
    /\ IsCall(c)
    /\ IF kind = "calendar" THEN c.op \in Ops \ {"load", "save"} ELSE c.op \in {"load", "save"}
    /\ c.u \in Users \/ c.op \in {"month", "report"}
    /\ c.op = "save" \/ c.step \in {"put", "write"} => c.list \in Values
    /\ c.op \in {"month", "report"} /\ c.step \in {"put", "write"} => c.list = Full
    /\ c.new => c.op = "status" \/ c.step = "done"
    /\ kind # "calendar" /\ c.step = "done" => c.val \in Values

CallInv == \A c \in calls : CallOK(c)

\* A page that has never been told of a draft hides its editor.
UnloadedIsHidden == kind = "draft" => \A u \in Users : known[u] = "nothing" => loading[u] \/ error[u]

\* What an answer on its way that is still so, and a page that has been told
\* what is still so, say of the row.
AnswerIsSo(c) ==
    c.op \in {"load", "save"} /\ c.step = "done" /\ c.new => c.val = ServerValue

Expected(u, entries) ==
    {x \in Items : <<x, TRUE>> \in todo[u] \/ (x \in entries /\ <<x, FALSE>> \notin todo[u])}

KnownInv ==
    kind # "calendar" /\ ~spoilt =>
        /\ \A c \in calls : AnswerIsSo(c)
        /\ kind \in {"draft", "list"} =>
              \A u \in Users : known[u] = "current" => ToSet(view[u]) = Expected(u, ToSet(ServerValue))
        /\ kind = "list" => \A u \in Users : todo[u] = {}

\* The saves so far have the row as they want it, or one is on its way to it.
SerialInv ==
    kind # "calendar" /\ ~spoilt =>
        /\ \A c, d \in Saving : c = d
        /\ Saving = {} => ToSet(ServerValue) = wanted
        /\ \A c \in Saving :
              /\ c.step # "refused"
              /\ ToSet(c.list) = wanted
              /\ c.step = "write" => c.val = row
              /\ c.step = "done" => ToSet(ServerValue) = wanted

IInv == ConfigInv /\ CallInv /\ UnloadedIsHidden /\ KnownInv /\ SerialInv

----------------------------------------------------------------------------
(* Lists: sequences of entries without repetition.                         *)

NoRepeat(l) == \A i, j \in 1..Len(l) : i # j => l[i] # l[j]

\* The entries of a list and its places are as many.
LEMMA ListsAre ==
    ASSUME NEW l
    PROVE  l \in Lists <=> l \in Seq(Items) /\ NoRepeat(l)
<1>1. ASSUME l \in Lists
      PROVE  l \in Seq(Items) /\ NoRepeat(l)
  <2>1. PICK s \in SUBSET Items : l \in SetToSeqs(s)
    BY <1>1 DEF Lists, SetToAllKPermutations
  <2>2. /\ l \in [1..Cardinality(s) -> s]
        /\ \A i, j \in 1..Cardinality(s) : i # j => l[i] # l[j]
    BY <2>1 DEF SetToSeqs
  <2>3. Cardinality(s) \in Nat
    BY SystemConfigAssumption, FS_Subset, FS_CardinalityType
  <2>4. l \in Seq(Items) /\ Len(l) = Cardinality(s)
    BY <2>2, <2>3
  <2> QED
    BY <2>2, <2>4 DEF NoRepeat
<1>2. ASSUME l \in Seq(Items), NoRepeat(l)
      PROVE  l \in Lists
  <2> DEFINE s == ToSet(l)
  <2>1. Len(l) \in Nat /\ DOMAIN l = 1..Len(l) /\ s \in SUBSET Items
    BY <1>2 DEF ToSet
  <2>2. l \in [1..Len(l) -> s]
    BY <1>2, <2>1 DEF ToSet
  <2>3. l \in Surjection(1..Len(l), s)
    BY <2>1, <2>2 DEF Surjection, ToSet
  <2>4. l \in Injection(1..Len(l), s)
    BY <1>2, <2>1, <2>2 DEF Injection, IsInjective, NoRepeat
  <2>5. Cardinality(s) = Len(l)
    <3>1. IsFiniteSet(1..Len(l)) /\ Cardinality(1..Len(l)) = Len(l)
      <4>1. 1 \in Int /\ Len(l) \in Int
        BY <2>1
      <4>2. /\ IsFiniteSet(1..Len(l))
            /\ Cardinality(1..Len(l)) = IF 1 > Len(l) THEN 0 ELSE Len(l) - 1 + 1
        BY <4>1, FS_Interval
      <4> QED
        BY <2>1, <4>2
    <3> QED
      BY <2>3, <2>4, <3>1, FS_Surjection
  <2>6. l \in SetToSeqs(s)
    BY <1>2, <2>2, <2>5 DEF SetToSeqs, NoRepeat
  <2> QED
    BY <2>1, <2>6 DEF Lists, SetToAllKPermutations
<1> QED
  BY <1>1, <1>2

\* handleAdd: a list takes an entry it does not hold.
LEMMA AppendIsList ==
    ASSUME NEW l \in Lists, NEW x \in Items, x \notin ToSet(l)
    PROVE  Append(l, x) \in Lists /\ ToSet(Append(l, x)) = ToSet(l) \union {x}
<1>1. l \in Seq(Items) /\ NoRepeat(l) /\ Len(l) \in Nat /\ DOMAIN l = 1..Len(l)
  BY ListsAre
<1>2. \A i \in 1..Len(l) : l[i] # x
  BY <1>1 DEF ToSet
<1>3. /\ Append(l, x) \in Seq(Items) /\ Len(Append(l, x)) = Len(l) + 1
      /\ DOMAIN Append(l, x) = 1..(Len(l) + 1)
      /\ \A i \in 1..Len(l) : Append(l, x)[i] = l[i]
      /\ Append(l, x)[Len(l) + 1] = x
  BY <1>1
<1>4. NoRepeat(Append(l, x))
  BY <1>1, <1>2, <1>3 DEF NoRepeat
<1>5. ToSet(Append(l, x)) = ToSet(l) \union {x}
  <2>1. \A i \in 1..(Len(l) + 1) : i \in 1..Len(l) \/ i = Len(l) + 1
    BY <1>1
  <2>2. \A i \in 1..Len(l) : i \in 1..(Len(l) + 1)
    BY <1>1
  <2>3. Len(l) + 1 \in 1..(Len(l) + 1)
    BY <1>1
  <2> QED
    BY <1>1, <1>3, <2>1, <2>2, <2>3 DEF ToSet
<1> QED
  BY <1>3, <1>4, <1>5, ListsAre

\* handleRemove: a list loses the entry at a place, and only that one.
LEMMA RemovalIsList ==
    ASSUME NEW l \in Lists, NEW i \in DOMAIN l
    PROVE  RemoveAt(l, i) \in Lists /\ ToSet(RemoveAt(l, i)) = ToSet(l) \ {l[i]}
<1> DEFINE a == SubSeq(l, 1, i - 1)
           b == SubSeq(l, i + 1, Len(l))
           r == RemoveAt(l, i)
<1>1. /\ l \in Seq(Items) /\ NoRepeat(l) /\ Len(l) \in Nat /\ DOMAIN l = 1..Len(l)
      /\ i \in 1..Len(l) /\ i \in Int
  BY ListsAre
<1>2. a \in Seq(Items) /\ Len(a) = i - 1 /\ \A k \in 1..(i - 1) : a[k] = l[k]
  <2>1. \A k \in 1..(i - 1) : l[k] \in Items
    BY <1>1, ElementOfSeq
  <2>2. 1 \in Int /\ i - 1 \in Int
    BY <1>1
  <2>3. /\ a \in Seq(Items)
        /\ Len(a) = IF 1 <= i - 1 THEN (i - 1) - 1 + 1 ELSE 0
        /\ \A k \in 1..((i - 1) - 1 + 1) : a[k] = l[1 + k - 1]
    BY <2>1, <2>2, SubSeqProperties, SMTT(20)
  <2> QED
    BY <1>1, <2>3
<1>3. b \in Seq(Items) /\ Len(b) = Len(l) - i /\ \A k \in 1..(Len(l) - i) : b[k] = l[i + k]
  <2>1. \A k \in (i + 1)..Len(l) : l[k] \in Items
    BY <1>1, ElementOfSeq
  <2>2. i + 1 \in Int /\ Len(l) \in Int
    BY <1>1
  <2>3. /\ b \in Seq(Items)
        /\ Len(b) = IF i + 1 <= Len(l) THEN Len(l) - (i + 1) + 1 ELSE 0
        /\ \A k \in 1..(Len(l) - (i + 1) + 1) : b[k] = l[i + 1 + k - 1]
    BY <2>1, <2>2, SubSeqProperties, SMTT(20)
  <2> QED
    BY <1>1, <2>3
<1>4. /\ r \in Seq(Items) /\ Len(r) = Len(l) - 1
      /\ \A k \in 1..(Len(l) - 1) : r[k] = IF k <= i - 1 THEN l[k] ELSE l[k + 1]
  <2>1. r = a \o b
    BY DEF RemoveAt
  <2> HIDE DEF a, b, r
  <2>2. /\ r \in Seq(Items) /\ Len(r) = Len(a) + Len(b)
        /\ \A k \in 1..(Len(a) + Len(b)) : r[k] = IF k <= Len(a) THEN a[k] ELSE b[k - Len(a)]
    BY <1>2, <1>3, <2>1, ConcatProperties
  <2>3. Len(a) + Len(b) = Len(l) - 1
    BY <1>1, <1>2, <1>3
  <2>4. ASSUME NEW k \in 1..(Len(l) - 1)
        PROVE  r[k] = IF k <= i - 1 THEN l[k] ELSE l[k + 1]
    <3>1. CASE k <= i - 1
      <4>1. k \in 1..(i - 1) /\ r[k] = a[k]
        BY <1>1, <1>2, <2>2, <2>3, <3>1
      <4> QED
        BY <1>2, <3>1, <4>1
    <3>2. CASE ~(k <= i - 1)
      <4>1. k - (i - 1) \in 1..(Len(l) - i) /\ i + (k - (i - 1)) = k + 1
        BY <1>1, <3>2
      <4>2. r[k] = b[k - (i - 1)]
        BY <1>2, <2>2, <2>3, <3>2
      <4>3. b[k - (i - 1)] = l[i + (k - (i - 1))]
        BY <1>3, <4>1
      <4> QED
        BY <3>2, <4>1, <4>2, <4>3
    <3> QED
      BY <3>1, <3>2
  <2> QED
    BY <2>2, <2>3, <2>4
<1> HIDE DEF a, b, r
<1>5. NoRepeat(r)
  <2> SUFFICES ASSUME NEW k \in 1..(Len(l) - 1), NEW m \in 1..(Len(l) - 1), k # m
               PROVE  r[k] # r[m]
    BY <1>4 DEF NoRepeat
  <2> QED
    BY <1>1, <1>4 DEF NoRepeat
<1>6. ToSet(r) = ToSet(l) \ {l[i]}
  <2>1. DOMAIN r = 1..(Len(l) - 1)
    BY <1>4
  <2>2. ASSUME NEW k \in 1..(Len(l) - 1)
        PROVE  r[k] \in ToSet(l) /\ r[k] # l[i]
    <3>1. /\ k \in 1..Len(l) /\ k + 1 \in 1..Len(l)
          /\ k <= i - 1 => k # i
          /\ ~(k <= i - 1) => k + 1 # i
      BY <1>1
    <3>2. r[k] = IF k <= i - 1 THEN l[k] ELSE l[k + 1]
      BY <1>4
    <3> QED
      BY <1>1, <3>1, <3>2 DEF NoRepeat, ToSet
  <2>3. ASSUME NEW k \in 1..Len(l), l[k] # l[i]
        PROVE  \E m \in 1..(Len(l) - 1) : r[m] = l[k]
    <3>1. CASE k < i
      BY <1>1, <1>4, <3>1
    <3>2. CASE k > i
      <4>1. k - 1 \in 1..(Len(l) - 1) /\ ~(k - 1 <= i - 1) /\ (k - 1) + 1 = k
        BY <1>1, <3>2
      <4> QED
        BY <1>4, <4>1
    <3> QED
      BY <1>1, <2>3, <3>1, <3>2
  <2>4. ToSet(r) = {r[k] : k \in 1..(Len(l) - 1)} /\ ToSet(l) = {l[k] : k \in 1..Len(l)}
    BY <1>1, <2>1 DEF ToSet
  <2>5. ASSUME NEW x \in ToSet(l) \ {l[i]}
        PROVE  x \in ToSet(r)
    BY <2>3, <2>4, <2>5
  <2> QED
    BY <2>2, <2>4, <2>5
<1> QED
  BY <1>4, <1>5, <1>6, ListsAre DEF r

\* move: two neighbours change places, and the list holds what it held.
LEMMA MoveIsList ==
    ASSUME NEW l \in Lists, NEW i \in 1..(Len(l) - 1)
    PROVE  LET m == [l EXCEPT ![i] = l[i + 1], ![i + 1] = l[i]]
           IN  m \in Lists /\ ToSet(m) = ToSet(l)
<1> DEFINE m == [l EXCEPT ![i] = l[i + 1], ![i + 1] = l[i]]
<1>1. /\ l \in Seq(Items) /\ NoRepeat(l) /\ Len(l) \in Nat /\ DOMAIN l = 1..Len(l)
      /\ i \in 1..Len(l) /\ i + 1 \in 1..Len(l) /\ i # i + 1
  BY ListsAre
<1>2. /\ DOMAIN m = 1..Len(l) /\ m[i] = l[i + 1] /\ m[i + 1] = l[i]
      /\ \A k \in 1..Len(l) : k # i /\ k # i + 1 => m[k] = l[k]
  BY <1>1
<1>3. m \in Seq(Items) /\ Len(m) = Len(l)
  BY <1>1, <1>2, ElementOfSeq
<1>4. NoRepeat(m)
  BY <1>1, <1>2, <1>3 DEF NoRepeat
<1>5. ToSet(m) = ToSet(l)
  BY <1>1, <1>2 DEF ToSet
<1> QED
  BY <1>3, <1>4, <1>5, ListsAre

\* A list holds entries of the section, a value too.
LEMMA ValueFacts ==
    /\ Full \in Values /\ <<>> \in Values /\ On \in Items
    /\ \A x \in Items : <<x>> \in Lists
    /\ kind \in {"draft", "list"} => Values = Lists
    /\ kind = "form" => \A x \in Items : <<x>> \in Values
    /\ \A v \in Values : ToSet(v) \subseteq Items
    /\ kind = "switch" => \A v \in Values : v \in {<<>>, <<On>>}
    /\ ToSet(<<>>) = {}
    /\ None \notin Values
<1>1. On \in Items
  BY SystemConfigAssumption DEF On
<1>2. \A x : ToSet(<<x>>) = {x}
  BY DEF ToSet
<1>3. ToSet(<<>>) = {}
  BY DEF ToSet
<1>4. <<>> \in Lists
  <2>1. <<>> \in Seq(Items) /\ Len(<<>>) = 0
    BY EmptySeq
  <2>2. NoRepeat(<<>>)
    BY <2>1 DEF NoRepeat
  <2> QED
    BY <2>1, <2>2, ListsAre
<1>5. \A x \in Items : <<x>> \in Lists
  <2> TAKE x \in Items
  <2>1. <<x>> \in Seq(Items) /\ Len(<<x>>) = 1
    OBVIOUS
  <2>2. NoRepeat(<<x>>)
    BY <2>1 DEF NoRepeat
  <2> QED
    BY <2>1, <2>2, ListsAre
<1>6. \A l \in Lists : ToSet(l) \subseteq Items
  BY ListsAre DEF ToSet
<1>7. \A v \in Values : ToSet(v) \subseteq Items
  <2> TAKE v \in Values
  <2>1. CASE kind \in {"draft", "list"}
    BY <1>6, <2>1 DEF Values
  <2>2. CASE kind = "form"
    BY <1>2, <1>3, <2>2 DEF Values
  <2>3. CASE kind \notin {"draft", "list", "form"}
    BY <1>1, <1>2, <1>3, <2>3 DEF Values
  <2> QED
    BY <2>1, <2>2, <2>3
<1>8. Full \in Values /\ <<>> \in Values
  <2>1. CASE kind \in {"draft", "list"}
    BY <1>1, <1>4, <1>5, <2>1 DEF Values, Full
  <2>2. CASE kind = "form"
    BY <1>1, <2>2 DEF Values, Full
  <2>3. CASE kind \notin {"draft", "list", "form"}
    BY <2>3 DEF Values, Full
  <2> QED
    BY <2>1, <2>2, <2>3
<1>9. None \notin Values
  <2>1. None \notin Lists
    BY SystemConfigAssumption
  <2> QED
    BY <1>1, <1>4, <1>5, <2>1 DEF Values
<1> QED
  BY <1>1, <1>3, <1>5, <1>7, <1>8, <1>9 DEF Values

LEMMA ServerHasAValue ==
    ASSUME TypeOK, kind # "calendar"
    PROVE  ServerValue \in Values
BY ValueFacts DEF TypeOK, ServerValue

----------------------------------------------------------------------------
(* Requests.                                                               *)

\* The kind of section stays, and with it the values it may hold.
LEMMA KindStays ==
    ASSUME [Next]_vars
    PROVE  kind' = kind /\ Values' = Values
<1>1. kind' = kind
  BY DEF Next, vars, UserStep, ServerStep, Answer, Event, Fault, Quietly, Edit, Move, Type, Save,
         AddNow, RemoveNow, Toggle, Refresh, SwitchLanguage, ReadElsewhere, Read, ReadCalendar,
         Fetched, FetchFailed, PutRead, PutWrite, LoadAnswered, LoadFails, SaveAnswered,
         RefreshAnswered, StatusAnswered, StatusFails, SaveEndsBadly, ReaderAnswered
<1> QED
  BY <1>1 DEF Values

\* A request sent by a page, or by a reader elsewhere.
LEMMA CallSent ==
    ASSUME NEW u \in Users \union {None}, NEW op \in Ops, NEW g \in Nat,
           NEW list \in Values \union {None},
           IF kind = "calendar" THEN op \in Ops \ {"load", "save"} ELSE op \in {"load", "save"},
           op = "save" => list \in Values, u \in Users \/ op \in {"month", "report"}
    PROVE  LET d == Call(u, op, g, list)
           IN  /\ CallOK(d) /\ d.u = u /\ d.op = op /\ d.gen = g /\ d.list = list
               /\ d.step = "sent" /\ ~d.new
<1> DEFINE d == Call(u, op, g, list)
<1>1. /\ d.u = u /\ d.op = op /\ d.gen = g /\ d.list = list /\ d.val = None /\ d.step = "sent"
      /\ d.new = FALSE
  BY DEF Call
<1>2. d.step \in StepsOf(d.op) /\ d.step \in Steps
  BY <1>1 DEF StepsOf, Ops, Steps
<1>3. d = [n |-> d.n, u |-> d.u, op |-> d.op, gen |-> d.gen, list |-> d.list, val |-> d.val,
           new |-> d.new, step |-> d.step]
  BY DEF Call
<1> HIDE DEF d
<1>4. IsCall(d)
  BY <1>1, <1>2, <1>3 DEF IsCall
<1>5. CallOK(d)
  BY <1>1, <1>4 DEF CallOK
<1> QED
  BY <1>1, <1>5 DEF d

\* d is a request of the sender of c, with these fields.
Made(d, c, op, list, val, new, step) ==
    /\ d \in [n : {d.n}, u : Users \union {None}, op : Ops, gen : Nat, list : Values \union {None},
              val : Values \union {None}, new : BOOLEAN, step : Steps]
    /\ d.u = c.u /\ d.gen = c.gen /\ d.op = op /\ d.list = list /\ d.val = val
    /\ d.new = new /\ d.step = step

LEMMA CallFields ==
    ASSUME NEW c, CallOK(c),
           NEW op \in Ops, NEW list \in Values \union {None}, NEW val \in Values \union {None},
           NEW new \in BOOLEAN, NEW step \in Steps
    PROVE  /\ Made([c EXCEPT !.step = step], c, c.op, c.list, c.val, c.new, step)
           /\ Made([c EXCEPT !.new = new], c, c.op, c.list, c.val, new, c.step)
           /\ Made([c EXCEPT !.step = step, !.val = val], c, c.op, c.list, val, c.new, step)
           /\ Made([c EXCEPT !.list = list, !.step = step], c, c.op, list, c.val, c.new, step)
           /\ Made([c EXCEPT !.step = step, !.val = val, !.new = new],
                   c, c.op, c.list, val, new, step)
           /\ Made([c EXCEPT !.list = list, !.step = step, !.val = val],
                   c, c.op, list, val, c.new, step)
           /\ Made([c EXCEPT !.op = op, !.step = step, !.val = val],
                   c, op, c.list, val, c.new, step)
BY DEF CallOK, IsCall, Made

\* Each step of the server leaves requests as they should be.
LEMMA ServerKeepsCalls ==
    ASSUME TypeOK, CallInv, NEW c \in calls, ServerStep(c)
    PROVE  \A d \in calls' : CallOK(d)
<1>1. CallOK(c) /\ \A d \in calls : CallOK(d)
  BY DEF CallInv
<1>2. c.u \in Users \union {None} /\ c.op \in Ops /\ c.new \in BOOLEAN /\ c.step \in StepsOf(c.op)
      /\ c.list \in Values \union {None} /\ c.val \in Values \union {None} /\ c.step \in Steps
  BY <1>1 DEF CallOK, IsCall
<1>3. row \in Values \union {None} /\ ServerValue \in Values \union {None}
      /\ (kind # "calendar" => ServerValue \in Values)
  BY ServerHasAValue DEF TypeOK, ServerValue
<1>4. Full \in Values /\ <<>> \in Values
  BY ValueFacts
<1>5. CASE Read(c)
  <2> DEFINE d == [c EXCEPT !.step = "done", !.val = ServerValue, !.new = TRUE]
  <2>1. Made(d, c, c.op, c.list, ServerValue, TRUE, "done")
    BY <1>1, <1>2, <1>3, CallFields DEF Steps
  <2>2. calls' = (calls \ {c}) \union {d}
    BY <1>5 DEF Read, Becomes
  <2>3. c.op \in {"load", "status"}
    BY <1>5 DEF Read
  <2> HIDE DEF d
  <2>4. CallOK(d)
    BY <1>1, <1>3, <2>1, <2>3 DEF Made, CallOK, IsCall, StepsOf
  <2> QED
    BY <1>1, <2>2, <2>4
<1>6. CASE ReadCalendar(c)
  <2> DEFINE d == [c EXCEPT !.step = "done", !.val = row]
             e == [c EXCEPT !.step = "fetch"]
  <2>1. /\ Made(d, c, c.op, c.list, row, c.new, "done")
        /\ Made(e, c, c.op, c.list, c.val, c.new, "fetch")
    BY <1>1, <1>2, <1>3, CallFields DEF Steps
  <2>2. calls' = (calls \ {c}) \union {d} \/ calls' = (calls \ {c}) \union {e}
    BY <1>6 DEF ReadCalendar, Becomes
  <2>3. c.op \in {"month", "report"} /\ c.step = "sent" /\ ~c.new
    BY <1>1, <1>2, <1>6 DEF ReadCalendar, CallOK
  <2> HIDE DEF d, e
  <2>4. CallOK(d) /\ CallOK(e)
    BY <1>1, <2>1, <2>3 DEF Made, CallOK, IsCall, StepsOf, Ops, Steps
  <2> QED
    BY <1>1, <2>2, <2>4
<1>7. CASE Fetched(c)
  <2> DEFINE s == IF c.op = "report" THEN "refused" ELSE "put"
             d == [c EXCEPT !.list = Full, !.step = s]
  <2>1. Made(d, c, c.op, Full, c.val, c.new, s)
    BY <1>1, <1>2, <1>4, CallFields DEF Steps
  <2>2. calls' = (calls \ {c}) \union {d}
    BY <1>7 DEF Fetched, Becomes
  <2>3. c.op \in {"refresh", "month", "report"} /\ ~c.new
    BY <1>1, <1>2, <1>7 DEF Fetched, Fetching, CallOK, StepsOf, Ops
  <2> HIDE DEF d
  <2>4. CallOK(d)
    BY <1>1, <1>4, <2>1, <2>3 DEF Made, CallOK, IsCall, StepsOf, Ops, Steps
  <2> QED
    BY <1>1, <2>2, <2>4
<1>8. CASE FetchFailed(c)
  <2> DEFINE d == [c EXCEPT !.list = <<>>, !.step = "put"]
             e == [c EXCEPT !.list = <<>>, !.step = "done", !.val = <<>>]
  <2>1. /\ Made(d, c, c.op, <<>>, c.val, c.new, "put")
        /\ Made(e, c, c.op, <<>>, <<>>, c.new, "done")
    BY <1>1, <1>2, <1>4, CallFields DEF Steps
  <2>2. \/ c.op = "refresh" /\ calls' = (calls \ {c}) \union {d}
        \/ c.op # "refresh" /\ calls' = (calls \ {c}) \union {e}
    BY <1>8 DEF FetchFailed, Becomes
  <2>3. c.op \in {"refresh", "month", "report"} /\ ~c.new
    BY <1>1, <1>2, <1>8 DEF FetchFailed, Fetching, CallOK, StepsOf, Ops
  <2> HIDE DEF d, e
  <2>4. c.op = "refresh" => CallOK(d)
    BY <1>1, <1>4, <2>1, <2>3 DEF Made, CallOK, IsCall, StepsOf, Ops, Steps
  <2>5. c.op # "refresh" => CallOK(e)
    BY <1>1, <1>4, <2>1, <2>3 DEF Made, CallOK, IsCall, StepsOf, Ops, Steps
  <2> QED
    BY <1>1, <2>2, <2>4, <2>5
<1>9. CASE PutRead(c)
  <2> DEFINE d == [c EXCEPT !.step = "write", !.val = row]
  <2>1. Made(d, c, c.op, c.list, row, c.new, "write")
    BY <1>1, <1>2, <1>3, CallFields DEF Steps
  <2>2. calls' = (calls \ {c}) \union {d}
    BY <1>9 DEF PutRead, Becomes
  <2>3. /\ c.op \in {"save", "refresh", "month", "report"} /\ ~c.new
        /\ c.step = "put" \/ (c.op = "save" /\ c.step = "sent")
    BY <1>1, <1>2, <1>9 DEF PutRead, CallOK, StepsOf, Ops
  <2> HIDE DEF d
  <2>4. CallOK(d)
    BY <1>1, <2>1, <2>3 DEF Made, CallOK, IsCall, StepsOf, Ops, Steps
  <2> QED
    BY <1>1, <2>2, <2>4
<1>10. CASE PutWrite(c)
  <2>1. c.step = "write" /\ ~c.new /\ c.list \in Values
        /\ c.op \in {"save", "refresh", "month", "report"}
    BY <1>1, <1>2, <1>10 DEF PutWrite, CallOK, StepsOf, Ops
  <2>2. CASE c.val = None /\ row # None
    <3> DEFINE d == [c EXCEPT !.step = "refused"]
    <3>1. Made(d, c, c.op, c.list, c.val, c.new, "refused")
      BY <1>1, <1>2, CallFields DEF Steps
    <3>2. calls' = (calls \ {c}) \union {d}
      BY <1>10, <2>2 DEF PutWrite, Becomes
    <3> HIDE DEF d
    <3>3. CallOK(d)
      BY <1>1, <2>1, <3>1 DEF Made, CallOK, IsCall, StepsOf, Ops, Steps
    <3> QED
      BY <1>1, <3>2, <3>3
  <2>3. CASE ~(c.val = None /\ row # None)
    <3> DEFINE d == [c EXCEPT !.step = "done", !.val = c.list, !.new = TRUE]
    <3>1. Made(d, c, c.op, c.list, c.list, TRUE, "done")
      BY <1>1, <1>2, <2>1, CallFields DEF Steps
    <3>2. calls' = {[e EXCEPT !.new = FALSE] : e \in calls \ {c}} \union {d}
      BY <1>10, <2>3 DEF PutWrite
    <3> HIDE DEF d
    <3>3. CallOK(d)
      BY <1>1, <2>1, <3>1 DEF Made, CallOK, IsCall, StepsOf, Ops, Steps
    <3>4. ASSUME NEW e \in calls
          PROVE  CallOK([e EXCEPT !.new = FALSE])
      <4> DEFINE f == [e EXCEPT !.new = FALSE]
      <4>1. CallOK(e) /\ e.op \in Ops /\ e.step \in Steps /\ e.list \in Values \union {None}
            /\ e.val \in Values \union {None}
        BY <1>1 DEF CallOK, IsCall
      <4>2. Made(f, e, e.op, e.list, e.val, FALSE, e.step)
        BY <4>1, CallFields
      <4> HIDE DEF f
      <4>3. CallOK(f)
        BY <4>1, <4>2 DEF Made, CallOK, IsCall
      <4> QED
        BY <4>3 DEF f
    <3> QED
      BY <3>2, <3>3, <3>4
  <2> QED
    BY <2>2, <2>3
<1> QED
  BY <1>5, <1>6, <1>7, <1>8, <1>9, <1>10 DEF ServerStep

\* An answer ends a request, or makes a status request of a refresh.
LEMMA AnswerKeepsCalls ==
    ASSUME CallInv, NEW c \in calls, Answer(c)
    PROVE  \A d \in calls' : CallOK(d)
<1>1. CallOK(c) /\ \A d \in calls : CallOK(d)
  BY DEF CallInv
<1>2. CASE RefreshAnswered(c)
  <2> DEFINE d == [c EXCEPT !.op = "status", !.step = "sent", !.val = None]
  <2>1. c.op = "refresh" /\ c.list \in Values \union {None} /\ c.new \in BOOLEAN
    BY <1>1, <1>2 DEF RefreshAnswered, CallOK, IsCall
  <2>2. Made(d, c, "status", c.list, None, c.new, "sent")
    BY <1>1, <2>1, CallFields DEF Steps, Ops
  <2>3. calls' = (calls \ {c}) \union {d}
    BY <1>2 DEF RefreshAnswered, Becomes
  <2> HIDE DEF d
  <2>4. CallOK(d)
    BY <1>1, <2>1, <2>2 DEF Made, CallOK, IsCall, StepsOf, Ops, Steps
  <2> QED
    BY <1>1, <2>3, <2>4
<1>3. CASE ~RefreshAnswered(c)
  <2>1. calls' = calls \ {c}
    BY <1>3 DEF Answer, Done, LoadAnswered, LoadFails, SaveAnswered, StatusAnswered, StatusFails,
                SaveEndsBadly, ReaderAnswered
  <2> QED
    BY <1>1, <2>1
<1> QED
  BY <1>2, <1>3

LEMMA CallsStayTyped ==
    ASSUME kind' = kind, Values' = Values, \A d \in calls' : CallOK(d)
    PROVE  /\ CallInv'
           /\ \A d \in calls' : /\ d.u \in Users \union {None} /\ d.op \in Ops /\ d.step \in Steps
                                /\ d.list \in Values \union {None} /\ d.val \in Values \union {None}
BY DEF CallInv, CallOK, IsCall

----------------------------------------------------------------------------
(* What users do.                                                          *)

\* A save sends the list the user means, when the page knows the row: a draft
\* is the row with the edits of the user, a list the row with one entry more
\* or less.
LEMMA PutsWhatIsMeant ==
    ASSUME IInv, NEW u \in Users, Save(u) \/ AddNow(u) \/ RemoveNow(u) \/ Toggle(u)
    PROVE  \E list \in Values, asked \in SUBSET Items :
              /\ Put(u, list, asked)
              /\ kind # "calendar" /\ kind' = kind /\ row' = row
              /\ kind = "draft" => Usable(u)
              /\ ~spoilt /\ known[u] = "current" /\ Saving = {} => ToSet(list) = asked
<1>1. kind' = kind /\ row' = row
  BY DEF Save, AddNow, RemoveNow, Toggle, Event, server
<1>2. TypeOK /\ wanted \subseteq Items /\ view[u] \in Values \union {None}
      /\ (kind # "calendar" => view[u] \in Values)
  BY DEF IInv, ConfigInv, TypeOK
<1>3. ~spoilt /\ known[u] = "current" /\ Saving = {} /\ kind # "calendar"
        => /\ ToSet(ServerValue) = wanted
           /\ kind \in {"draft", "list"} => ToSet(view[u]) = Expected(u, wanted)
           /\ kind = "list" => todo[u] = {}
  BY DEF IInv, KnownInv, SerialInv
<1>4. CASE Save(u) /\ kind = "form"
  <2>1. Put(u, view[u], ToSet(view[u]))
    BY <1>4 DEF Save
  <2>2. view[u] \in Values /\ ToSet(view[u]) \in SUBSET Items
    BY <1>2, <1>4, ValueFacts
  <2> QED
    BY <1>1, <1>4, <2>1, <2>2
<1>5. CASE Save(u) /\ kind # "form"
  <2> DEFINE asked == {x \in Items : \/ <<x, TRUE>> \in todo[u]
                                     \/ (x \in wanted /\ <<x, FALSE>> \notin todo[u])}
  <2>1. Put(u, view[u], asked) /\ kind = "draft" /\ Usable(u)
    BY <1>5 DEF Save
  <2>2. asked = Expected(u, wanted)
    BY DEF Expected
  <2> QED
    BY <1>1, <1>2, <1>3, <2>1, <2>2
<1>6. CASE AddNow(u)
  <2>1. PICK x \in Items \ ToSet(view[u]) : Put(u, Append(view[u], x), wanted \union {x})
    BY <1>6 DEF AddNow
  <2>2. kind = "list" /\ view[u] \in Lists /\ Values = Lists
    BY <1>2, <1>6, ValueFacts DEF AddNow
  <2>3. Append(view[u], x) \in Values /\ ToSet(Append(view[u], x)) = ToSet(view[u]) \union {x}
    BY <2>2, AppendIsList
  <2>4. todo[u] = {} => Expected(u, wanted) = wanted
    BY <1>2 DEF Expected
  <2>5. wanted \union {x} \in SUBSET Items
    BY <1>2
  <2> QED
    BY <1>1, <1>3, <2>1, <2>2, <2>3, <2>4, <2>5
<1>7. CASE RemoveNow(u)
  <2>1. PICK i \in DOMAIN view[u] : Put(u, RemoveAt(view[u], i), wanted \ {view[u][i]})
    BY <1>7 DEF RemoveNow
  <2>2. kind = "list" /\ view[u] \in Lists /\ Values = Lists
    BY <1>2, <1>7, ValueFacts DEF RemoveNow
  <2>3. /\ RemoveAt(view[u], i) \in Values
        /\ ToSet(RemoveAt(view[u], i)) = ToSet(view[u]) \ {view[u][i]}
    BY <2>2, RemovalIsList
  <2>4. todo[u] = {} => Expected(u, wanted) = wanted
    BY <1>2 DEF Expected
  <2>5. wanted \ {view[u][i]} \in SUBSET Items
    BY <1>2
  <2> QED
    BY <1>1, <1>3, <2>1, <2>2, <2>3, <2>4, <2>5
<1>8. CASE Toggle(u)
  <2> DEFINE next == IF view[u] = <<>> THEN <<On>> ELSE <<>>
  <2>1. Put(u, next, ToSet(next)) /\ kind = "switch"
    BY <1>8 DEF Toggle
  <2>2. next \in Values /\ ToSet(next) \in SUBSET Items
    BY ValueFacts DEF Full
  <2> QED
    BY <1>1, <2>1, <2>2
<1> QED
  BY <1>4, <1>5, <1>6, <1>7, <1>8

LEMMA PutKeepsInv ==
    ASSUME IInv, NEW u \in Users, NEW list \in Values, NEW asked \in SUBSET Items,
           Put(u, list, asked), kind # "calendar", kind' = kind, row' = row,
           kind = "draft" => Usable(u),
           ~spoilt /\ known[u] = "current" /\ Saving = {} => ToSet(list) = asked
    PROVE  IInv'
<1> DEFINE d == Call(u, "save", gen[u], list)
<1>1. Values' = Values /\ ServerValue' = ServerValue
  BY DEF Values, ServerValue
<1>2. calls' = calls \union {d} /\ busy' = [busy EXCEPT ![u] = TRUE]
      /\ spoilt' = (spoilt \/ known[u] # "current" \/ Saving # {})
      /\ wanted' = (IF spoilt' THEN {} ELSE asked)
      /\ UNCHANGED <<view, loading, error, gen, known, todo>>
  BY DEF Put
<1>3. TypeOK /\ NeverSavedUnloaded /\ CallInv /\ UnloadedIsHidden /\ KnownInv /\ SerialInv
  BY DEF IInv, ConfigInv
<1>4. CallOK(d) /\ d.u = u /\ d.op = "save" /\ d.list = list /\ d.step = "sent"
      /\ kind \in AllKinds
  <2>1. kind \in AllKinds
    BY <1>3, SystemConfigAssumption DEF TypeOK
  <2>2. gen[u] \in Nat
    BY <1>3 DEF TypeOK
  <2> QED
    BY <2>1, <2>2, CallSent DEF Ops
<1> HIDE DEF d
<1>5. CallInv' /\ \A c \in calls' : /\ c.u \in Users \union {None} /\ c.op \in Ops /\ c.step \in Steps
                                    /\ c.list \in Values \union {None}
                                    /\ c.val \in Values \union {None}
  <2>1. \A c \in calls' : CallOK(c)
    BY <1>2, <1>3, <1>4 DEF CallInv
  <2> QED
    BY <1>1, <2>1, CallsStayTyped
<1>6. TypeOK'
  <2>1. busy' \in [Users -> BOOLEAN] /\ spoilt' \in BOOLEAN /\ wanted' \subseteq Items
    BY <1>2, <1>3 DEF TypeOK
  <2> QED
    BY <1>1, <1>2, <1>3, <1>5, <2>1 DEF TypeOK
<1>7. Saving' = Saving \union {d}
  BY <1>2, <1>4 DEF Saving
<1>8. NeverSavedUnloaded'
  BY <1>2, <1>3, <1>4, <1>7 DEF NeverSavedUnloaded, UnloadedIsHidden, Usable
<1>9. UnloadedIsHidden'
  BY <1>2, <1>3 DEF UnloadedIsHidden
<1>10. KnownInv'
  <2> SUFFICES ASSUME ~spoilt' PROVE KnownInv'
    BY DEF KnownInv
  <2>1. ~spoilt
    BY <1>2
  <2>2. \A c \in calls' : AnswerIsSo(c)'
    BY <1>1, <1>2, <1>3, <1>4, <2>1 DEF KnownInv, AnswerIsSo
  <2> QED
    BY <1>1, <1>2, <1>3, <2>1, <2>2 DEF KnownInv, Expected
<1>11. SerialInv'
  <2> SUFFICES ASSUME ~spoilt' PROVE SerialInv'
    BY DEF SerialInv
  <2>1. Saving' = {d} /\ wanted' = asked /\ ToSet(list) = asked
    BY <1>2, <1>7
  <2> QED
    BY <1>4, <2>1 DEF SerialInv
<1> QED
  BY <1>5, <1>6, <1>8, <1>9, <1>10, <1>11 DEF IInv, ConfigInv

\* Editing touches nothing but the editor, and keeps account of what it does.
LEMMA EditingKeepsInv ==
    ASSUME IInv, NEW u \in Users, kind \in {"draft", "form"}, NEW v \in Values,
           NEW t \in SUBSET (Items \X BOOLEAN),
           view' = [view EXCEPT ![u] = v], todo' = [todo EXCEPT ![u] = t],
           UNCHANGED <<kind, row, loading, error, gen, busy, calls, known, wanted, spoilt>>,
           kind = "draft" /\ ToSet(view[u]) = Expected(u, ToSet(ServerValue))
              => ToSet(v) = {x \in Items : \/ <<x, TRUE>> \in t
                                           \/ (x \in ToSet(ServerValue) /\ <<x, FALSE>> \notin t)}
    PROVE  IInv'
<1>1. Values' = Values /\ ServerValue' = ServerValue /\ Saving' = Saving
  BY DEF Values, ServerValue, Saving
<1>2. TypeOK /\ NeverSavedUnloaded /\ CallInv /\ UnloadedIsHidden /\ KnownInv /\ SerialInv
  BY DEF IInv, ConfigInv
<1>3. CallInv'
  BY <1>1, <1>2, CallsStayTyped DEF CallInv
<1>4. TypeOK'
  <2>1. view' \in [Users -> Values \union {None}] /\ todo' \in [Users -> SUBSET (Items \X BOOLEAN)]
    BY <1>2 DEF TypeOK
  <2>2. kind # "calendar" => \A w \in Users : view'[w] # None
    BY <1>2, ValueFacts DEF TypeOK
  <2> QED
    BY <1>1, <1>2, <2>1, <2>2 DEF TypeOK
<1>5. NeverSavedUnloaded' /\ UnloadedIsHidden'
  BY <1>1, <1>2 DEF NeverSavedUnloaded, UnloadedIsHidden
<1>6. KnownInv'
  <2>1. ASSUME NEW w \in Users, kind = "draft", ~spoilt, known[w] = "current"
        PROVE  ToSet(view'[w]) = {x \in Items : \/ <<x, TRUE>> \in todo'[w]
                                                \/ (x \in ToSet(ServerValue) /\ <<x, FALSE>> \notin todo'[w])}
    <3>1. ToSet(view[w]) = Expected(w, ToSet(ServerValue))
      BY <1>2, <2>1 DEF KnownInv
    <3>2. CASE w = u
      BY <1>2, <2>1, <3>1, <3>2 DEF TypeOK
    <3>3. CASE w # u
      BY <1>2, <3>1, <3>3 DEF TypeOK, Expected
    <3> QED
      BY <3>2, <3>3
  <2> QED
    BY <1>1, <1>2, <2>1 DEF KnownInv, Expected, AnswerIsSo
<1>7. SerialInv'
  BY <1>1, <1>2 DEF SerialInv
<1> QED
  BY <1>3, <1>4, <1>5, <1>6, <1>7 DEF IInv, ConfigInv

LEMMA EditKeepsInv ==
    ASSUME IInv, NEW u \in Users, Edit(u)
    PROVE  IInv'
<1>1. TypeOK /\ kind = "draft" /\ Values = Lists /\ view[u] \in Lists /\ row' = row /\ kind' = kind
  <2>1. TypeOK /\ kind = "draft" /\ row' = row /\ kind' = kind
    BY DEF IInv, ConfigInv, Edit, Event, server
  <2> QED
    BY <2>1, ValueFacts DEF TypeOK
<1>2. UNCHANGED <<loading, error, gen, busy, calls, known, wanted, spoilt>>
  BY DEF Edit
<1>3. todo[u] \in SUBSET (Items \X BOOLEAN) /\ u \in DOMAIN todo /\ ToSet(ServerValue) \subseteq Items
  BY <1>1, ValueFacts, ServerHasAValue DEF TypeOK
<1>4. CASE \E x \in Items \ ToSet(view[u]) :
             /\ view' = [view EXCEPT ![u] = Append(view[u], x)]
             /\ todo' = [todo EXCEPT ![u] = (@ \ {<<x, FALSE>>}) \union {<<x, TRUE>>}]
  <2>1. PICK x \in Items \ ToSet(view[u]) :
             /\ view' = [view EXCEPT ![u] = Append(view[u], x)]
             /\ todo' = [todo EXCEPT ![u] = (@ \ {<<x, FALSE>>}) \union {<<x, TRUE>>}]
    BY <1>4
  <2> DEFINE v == Append(view[u], x)
             t == (todo[u] \ {<<x, FALSE>>}) \union {<<x, TRUE>>}
  <2>2. view' = [view EXCEPT ![u] = v] /\ todo' = [todo EXCEPT ![u] = t]
    BY <1>3, <2>1
  <2>3. v \in Values /\ ToSet(v) = ToSet(view[u]) \union {x} /\ t \in SUBSET (Items \X BOOLEAN)
    <3>1. v \in Lists /\ ToSet(v) = ToSet(view[u]) \union {x}
      BY <1>1, AppendIsList
    <3>2. <<x, TRUE>> \in Items \X BOOLEAN /\ t \subseteq todo[u] \union {<<x, TRUE>>}
      OBVIOUS
    <3>3. t \in SUBSET (Items \X BOOLEAN)
      BY <1>3, <3>2, Zenon
    <3> QED
      BY <1>1, <3>1, <3>3
  <2>4. ToSet(view[u]) = Expected(u, ToSet(ServerValue))
           => ToSet(v) = {y \in Items : \/ <<y, TRUE>> \in t
                                        \/ (y \in ToSet(ServerValue) /\ <<y, FALSE>> \notin t)}
    BY <1>3, <2>3 DEF Expected
  <2> HIDE DEF v, t
  <2> QED
    BY <1>1, <1>2, <2>2, <2>3, <2>4, EditingKeepsInv
<1>5. CASE \E i \in DOMAIN view[u] :
             LET x == view[u][i]
             IN /\ ~busy[u]
                /\ view' = [view EXCEPT ![u] = RemoveAt(view[u], i)]
                /\ todo' = [todo EXCEPT ![u] = (@ \ {<<x, TRUE>>}) \union {<<x, FALSE>>}]
  <2>1. PICK i \in DOMAIN view[u] :
             /\ view' = [view EXCEPT ![u] = RemoveAt(view[u], i)]
             /\ todo' = [todo EXCEPT ![u] = (@ \ {<<view[u][i], TRUE>>})
                                            \union {<<view[u][i], FALSE>>}]
    BY <1>5
  <2> DEFINE x == view[u][i]
             v == RemoveAt(view[u], i)
             t == (todo[u] \ {<<x, TRUE>>}) \union {<<x, FALSE>>}
  <2>2. view' = [view EXCEPT ![u] = v] /\ todo' = [todo EXCEPT ![u] = t]
    BY <1>3, <2>1
  <2>3. x \in Items
    BY <1>1, ValueFacts DEF ToSet
  <2>4. v \in Values /\ ToSet(v) = ToSet(view[u]) \ {x} /\ t \in SUBSET (Items \X BOOLEAN)
    <3>1. v \in Lists /\ ToSet(v) = ToSet(view[u]) \ {x}
      BY <1>1, RemovalIsList
    <3>2. <<x, FALSE>> \in Items \X BOOLEAN /\ t \subseteq todo[u] \union {<<x, FALSE>>}
      BY <2>3
    <3>3. t \in SUBSET (Items \X BOOLEAN)
      BY <1>3, <3>2, Zenon
    <3> QED
      BY <1>1, <3>1, <3>3
  <2>5. ToSet(view[u]) = Expected(u, ToSet(ServerValue))
           => ToSet(v) = {y \in Items : \/ <<y, TRUE>> \in t
                                        \/ (y \in ToSet(ServerValue) /\ <<y, FALSE>> \notin t)}
    BY <1>3, <2>3, <2>4 DEF Expected
  <2> HIDE DEF v, t, x
  <2> QED
    BY <1>1, <1>2, <2>2, <2>4, <2>5, EditingKeepsInv
<1> QED
  BY <1>4, <1>5 DEF Edit

LEMMA MoveKeepsInv ==
    ASSUME IInv, NEW u \in Users, Move(u)
    PROVE  IInv'
<1>1. TypeOK /\ kind = "draft" /\ Values = Lists /\ view[u] \in Lists /\ row' = row /\ kind' = kind
  <2>1. TypeOK /\ kind = "draft" /\ row' = row /\ kind' = kind
    BY DEF IInv, ConfigInv, Move, Event, server
  <2> QED
    BY <2>1, ValueFacts DEF TypeOK
<1>2. UNCHANGED <<loading, error, gen, busy, calls, known, todo, wanted, spoilt>>
  BY DEF Move, history
<1>3. PICK i \in 1..(Len(view[u]) - 1) :
        view' = [view EXCEPT ![u] = [@ EXCEPT ![i] = view[u][i + 1], ![i + 1] = view[u][i]]]
  BY DEF Move
<1> DEFINE v == [view[u] EXCEPT ![i] = view[u][i + 1], ![i + 1] = view[u][i]]
<1>4. v \in Values /\ ToSet(v) = ToSet(view[u])
  BY <1>1, MoveIsList
<1>5. view' = [view EXCEPT ![u] = v]
  <2>1. u \in DOMAIN view
    BY <1>1 DEF TypeOK
  <2> QED
    BY <1>3, <2>1, Zenon
<1>6. todo' = [todo EXCEPT ![u] = todo[u]] /\ todo[u] \in SUBSET (Items \X BOOLEAN)
  BY <1>1, <1>2 DEF TypeOK
<1> HIDE DEF v
<1> QED
  BY <1>1, <1>2, <1>4, <1>5, <1>6, EditingKeepsInv DEF Expected

LEMMA TypeKeepsInv ==
    ASSUME IInv, NEW u \in Users, Type(u)
    PROVE  IInv'
<1>1. TypeOK /\ kind = "form" /\ row' = row /\ kind' = kind
  BY DEF IInv, ConfigInv, Type, Event, server
<1>2. UNCHANGED <<loading, error, gen, busy, calls, known, todo, wanted, spoilt>>
  BY DEF Type, history
<1>3. PICK v \in Values : view' = [view EXCEPT ![u] = v]
  BY DEF Type
<1>4. todo' = [todo EXCEPT ![u] = todo[u]] /\ todo[u] \in SUBSET (Items \X BOOLEAN)
  BY <1>1, <1>2 DEF TypeOK
<1> QED
  BY <1>1, <1>2, <1>3, <1>4, EditingKeepsInv

\* A request that saves nothing only asks.
LEMMA AskingKeepsInv ==
    ASSUME IInv, NEW d, CallOK(d), d.step = "sent", d.op # "save",
           d.op = "refresh" => kind = "calendar",
           calls' = calls \union {d},
           UNCHANGED <<kind, row, view, loading, error, known, todo, wanted, spoilt>>,
           gen' \in [Users -> Nat], busy' \in [Users -> BOOLEAN]
    PROVE  IInv'
<1>1. Values' = Values /\ ServerValue' = ServerValue
  BY DEF Values, ServerValue
<1>2. TypeOK /\ NeverSavedUnloaded /\ CallInv /\ UnloadedIsHidden /\ KnownInv /\ SerialInv
  BY DEF IInv, ConfigInv
<1>3. \A c \in calls' : CallOK(c)
  BY <1>2 DEF CallInv
<1>4. CallInv' /\ \A c \in calls' : /\ c.u \in Users \union {None} /\ c.op \in Ops /\ c.step \in Steps
                                    /\ c.list \in Values \union {None}
                                    /\ c.val \in Values \union {None}
  BY <1>1, <1>3, CallsStayTyped
<1>5. TypeOK'
  BY <1>1, <1>2, <1>4 DEF TypeOK
<1>6. kind # "calendar" => Saving' = Saving
  BY DEF Saving
<1>7. NeverSavedUnloaded' /\ UnloadedIsHidden'
  BY <1>2, <1>6 DEF NeverSavedUnloaded, UnloadedIsHidden
<1>8. KnownInv'
  BY <1>1, <1>2 DEF KnownInv, Expected, AnswerIsSo
<1>9. SerialInv'
  BY <1>1, <1>2, <1>6 DEF SerialInv
<1> QED
  BY <1>4, <1>5, <1>7, <1>8, <1>9 DEF IInv, ConfigInv

LEMMA UserKeepsInv ==
    ASSUME IInv, NEW u \in Users, UserStep(u)
    PROVE  IInv'
<1>1. TypeOK /\ gen[u] \in Nat /\ gen[u] + 1 \in Nat /\ u \in Users \union {None}
  BY DEF IInv, ConfigInv, TypeOK
<1>2. CASE Save(u) \/ AddNow(u) \/ RemoveNow(u) \/ Toggle(u)
  BY <1>2, PutsWhatIsMeant, PutKeepsInv
<1>3. CASE Edit(u) \/ Move(u) \/ Type(u)
  BY <1>3, EditKeepsInv, MoveKeepsInv, TypeKeepsInv
<1>4. CASE Refresh(u)
  <2> DEFINE d == Call(u, "refresh", gen[u], None)
  <2>1. kind = "calendar" /\ kind' = kind /\ row' = row
    BY <1>4 DEF Refresh, Event, server
  <2>2. CallOK(d) /\ d.op = "refresh" /\ d.step = "sent"
    BY <1>1, <2>1, CallSent DEF Ops
  <2>3. calls' = calls \union {d} /\ busy' = [busy EXCEPT ![u] = TRUE]
        /\ UNCHANGED <<view, loading, error, gen, known, todo, wanted, spoilt>>
    BY <1>4 DEF Refresh, history
  <2>4. gen' \in [Users -> Nat] /\ busy' \in [Users -> BOOLEAN]
    BY <1>1, <2>3 DEF TypeOK
  <2> HIDE DEF d
  <2> QED
    BY <2>1, <2>2, <2>3, <2>4, AskingKeepsInv
<1>5. CASE SwitchLanguage(u)
  <2> DEFINE d == Call(u, "load", gen[u] + 1, None)
  <2>1. kind \in {"draft", "form"} /\ kind' = kind /\ row' = row
    BY <1>5 DEF SwitchLanguage, Event, server
  <2>2. CallOK(d) /\ d.op = "load" /\ d.step = "sent"
    BY <1>1, <2>1, CallSent DEF Ops
  <2>3. calls' = calls \union {d} /\ gen' = [gen EXCEPT ![u] = @ + 1]
        /\ UNCHANGED <<view, loading, error, busy, known, todo, wanted, spoilt>>
    BY <1>5 DEF SwitchLanguage, history
  <2>4. gen' \in [Users -> Nat] /\ busy' \in [Users -> BOOLEAN]
    BY <1>1, <2>3 DEF TypeOK
  <2> HIDE DEF d
  <2> QED
    BY <2>1, <2>2, <2>3, <2>4, AskingKeepsInv
<1> QED
  BY <1>2, <1>3, <1>4, <1>5 DEF UserStep

LEMMA ReadElsewhereKeepsInv ==
    ASSUME IInv, ReadElsewhere
    PROVE  IInv'
<1>1. PICK op \in {"month", "report"} : calls' = calls \union {Call(None, op, 0, None)}
  BY DEF ReadElsewhere
<1> DEFINE d == Call(None, op, 0, None)
<1>2. kind = "calendar" /\ kind' = kind /\ row' = row
      /\ UNCHANGED <<view, loading, error, gen, busy, known, todo, wanted, spoilt>>
  BY DEF ReadElsewhere, Event, server, page, history
<1>3. CallOK(d) /\ d.op = op /\ d.step = "sent"
  <2>1. None \in Users \union {None} /\ op \in Ops /\ op # "save" /\ op \in Ops \ {"load", "save"}
        /\ 0 \in Nat /\ None \in Values \union {None}
    BY DEF Ops
  <2> QED
    BY <1>2, <2>1, CallSent
<1>4. gen' \in [Users -> Nat] /\ busy' \in [Users -> BOOLEAN]
  BY <1>2 DEF IInv, ConfigInv, TypeOK
<1> HIDE DEF d
<1>5. calls' = calls \union {d}
  BY <1>1 DEF d
<1> QED
  BY <1>2, <1>3, <1>4, <1>5, AskingKeepsInv

----------------------------------------------------------------------------
(* The server.                                                             *)

\* A step of the server on one request that writes no row: the request keeps
\* its sender and its list, and no answer of a save says anything yet.
LEMMA ServingKeepsInv ==
    ASSUME IInv, NEW c \in calls, NEW d, calls' = (calls \ {c}) \union {d},
           \A e \in calls' : CallOK(e), d.op = c.op, d.u = c.u,
           UNCHANGED <<kind, row, view, loading, error, gen, busy, known, todo, wanted, spoilt>>,
           kind # "calendar" => AnswerIsSo(d),
           kind # "calendar" /\ c \in Saving /\ ~spoilt =>
              d.list = c.list /\ d.step = "write" /\ d.val = row
    PROVE  IInv'
<1>1. Values' = Values /\ ServerValue' = ServerValue
  BY DEF Values, ServerValue
<1>2. TypeOK /\ NeverSavedUnloaded /\ CallInv /\ UnloadedIsHidden /\ KnownInv /\ SerialInv
  BY DEF IInv, ConfigInv
<1>3. CallInv' /\ \A e \in calls' : /\ e.u \in Users \union {None} /\ e.op \in Ops /\ e.step \in Steps
                                    /\ e.list \in Values \union {None}
                                    /\ e.val \in Values \union {None}
  BY <1>1, CallsStayTyped
<1>4. TypeOK'
  BY <1>1, <1>2, <1>3 DEF TypeOK
<1>5. Saving' = (Saving \ {c}) \union (IF c \in Saving THEN {d} ELSE {})
  BY DEF Saving
<1>6. NeverSavedUnloaded' /\ UnloadedIsHidden'
  BY <1>2, <1>5 DEF NeverSavedUnloaded, UnloadedIsHidden
<1>7. KnownInv'
  BY <1>1, <1>2 DEF KnownInv, Expected, AnswerIsSo
<1>8. SerialInv'
  BY <1>1, <1>2, <1>5 DEF SerialInv
<1> QED
  BY <1>3, <1>4, <1>6, <1>7, <1>8 DEF IInv, ConfigInv

\* In the sections that save lists and values, only a save writes.
LEMMA OnlySavesWrite ==
    ASSUME NEW c, CallOK(c), kind # "calendar"
    PROVE  /\ c.op \in {"load", "save"}
           /\ c.op = "load" => c.step \in {"sent", "done"}
           /\ c.op = "save" => c.step \in {"sent", "write", "done", "refused"}
BY DEF CallOK, IsCall, StepsOf

Stale(c) == [c EXCEPT !.new = FALSE]

\* The row becomes what the request writes; pages that knew it know an old
\* one, and so do the answers on their way, unless it has not changed.
LEMMA PutWriteKeepsInv ==
    ASSUME IInv, NEW c \in calls, PutWrite(c)
    PROVE  IInv'
<1>1. TypeOK /\ NeverSavedUnloaded /\ CallInv /\ UnloadedIsHidden /\ KnownInv /\ SerialInv
  BY DEF IInv, ConfigInv
<1>2. kind' = kind /\ Values' = Values
      /\ UNCHANGED <<view, loading, error, gen, busy, todo, wanted, spoilt>>
  BY DEF PutWrite, Quietly, page, Values
<1>3. CallOK(c) /\ c.step = "write" /\ c.list \in Values
  BY <1>1 DEF CallInv, CallOK, PutWrite
<1>4. CallInv' /\ \A e \in calls' : /\ e.u \in Users \union {None} /\ e.op \in Ops /\ e.step \in Steps
                                    /\ e.list \in Values \union {None}
                                    /\ e.val \in Values \union {None}
  <2>1. \A d \in calls' : CallOK(d)
    BY <1>1, ServerKeepsCalls DEF ServerStep
  <2> QED
    BY <1>2, <2>1, CallsStayTyped
<1>5. row' \in Values \union {None}
  BY <1>1, <1>3 DEF PutWrite, TypeOK, server
<1>6. known' = [u \in Users |-> IF known[u] = "nothing" \/ row' = row THEN known[u] ELSE "old"]
  BY DEF PutWrite
<1>7. TypeOK'
  <2>1. known' \in [Users -> {"nothing", "current", "old"}]
    BY <1>1, <1>6 DEF TypeOK
  <2> QED
    BY <1>1, <1>2, <1>4, <1>5, <2>1 DEF TypeOK
<1>8. UnloadedIsHidden'
  BY <1>1, <1>2, <1>6 DEF UnloadedIsHidden
<1>9. CASE kind = "calendar"
  BY <1>2, <1>4, <1>7, <1>8, <1>9 DEF IInv, ConfigInv, NeverSavedUnloaded, KnownInv, SerialInv
<1>10. CASE kind # "calendar" /\ c.val = None /\ row # None
  <2> DEFINE d == [c EXCEPT !.step = "refused"]
  <2>1. c.op = "save" /\ c \in Saving /\ c.u \in Users
    BY <1>3, <1>10, OnlySavesWrite DEF Saving, CallOK
  <2>2. calls' = (calls \ {c}) \union {d} /\ row' = row
    BY <1>10 DEF PutWrite, Becomes, server
  <2>3. d.op = "save" /\ d.u = c.u
    BY <1>3, <2>1 DEF CallOK, IsCall
  <2> HIDE DEF d
  <2>4. spoilt
    BY <1>1, <1>3, <1>10, <2>1 DEF SerialInv
  <2>5. NeverSavedUnloaded'
    <3>1. Saving' \subseteq (Saving \ {c}) \union {d}
      BY <2>2 DEF Saving
    <3>2. \A e \in Saving : e.u \in Users
      BY <1>1 DEF CallInv, CallOK, Saving
    <3>3. \A e \in Saving' : \E f \in Saving : f.u = e.u
      BY <2>1, <2>3, <3>1
    <3> QED
      BY <1>1, <1>2, <1>6, <3>2, <3>3 DEF NeverSavedUnloaded
  <2> QED
    BY <1>2, <1>4, <1>7, <1>8, <2>4, <2>5 DEF IInv, ConfigInv, KnownInv, SerialInv
<1>11. CASE kind # "calendar" /\ ~(c.val = None /\ row # None)
  <2> DEFINE d == [c EXCEPT !.step = "done", !.val = c.list, !.new = TRUE]
  <2>1. c.op = "save" /\ c \in Saving /\ c.u \in Users
    BY <1>3, <1>11, OnlySavesWrite DEF Saving, CallOK
  <2>2. calls' = {Stale(e) : e \in calls \ {c}} \union {d}
        /\ row' = IF c.val = c.list THEN row ELSE c.list
    BY <1>11 DEF PutWrite, Stale
  <2>3. /\ d.op = "save" /\ d.u = c.u /\ d.step = "done" /\ d.val = c.list /\ d.list = c.list
        /\ \A e \in calls : /\ Stale(e).op = e.op /\ Stale(e).u = e.u /\ ~Stale(e).new
                            /\ e.op = "save" => e.u \in Users
    <3>1. \A e \in calls : Stale(e).op = e.op /\ Stale(e).u = e.u /\ ~Stale(e).new
      BY <1>1 DEF CallInv, CallOK, IsCall, Stale
    <3>2. \A e \in calls : e.op = "save" => e.u \in Users
      BY <1>1 DEF CallInv, CallOK
    <3> QED
      BY <1>3, <2>1, <3>1, <3>2 DEF CallOK, IsCall
  <2> HIDE DEF d
  <2>4. NeverSavedUnloaded'
    <3>1. \A e \in calls : e.op # "refresh"
      BY <1>1, <1>11, OnlySavesWrite DEF CallInv
    <3> SUFFICES ASSUME kind = "draft", NEW e \in calls', e.op \in {"save", "refresh"}
                 PROVE  known'[e.u] # "nothing"
      BY <1>2 DEF NeverSavedUnloaded, Saving
    <3>2. \A f \in calls : f.op = "save" => known[f.u] # "nothing" /\ f.u \in Users
      <4>1. \A f \in Saving : known[f.u] # "nothing"
        BY <1>1 DEF NeverSavedUnloaded
      <4>2. \A f \in calls : f.op = "save" => f \in Saving
        BY DEF Saving
      <4> QED
        BY <2>3, <4>1, <4>2
    <3>3. PICK f \in calls : f.op = "save" /\ f.u = e.u
      BY <2>1, <2>2, <2>3, <3>1
    <3> QED
      BY <1>6, <3>2, <3>3
  <2>5. ASSUME ~spoilt
        PROVE  row' = c.list /\ ServerValue' = c.list /\ Saving = {c} /\ Saving' = {d}
    <3>1. c.val = row /\ Saving = {c}
      BY <1>1, <1>3, <1>11, <2>1, <2>5 DEF SerialInv
    <3>2. row' = c.list /\ c.list # None
      BY <1>3, <2>2, <3>1, ValueFacts
    <3>3. Saving' = {d}
      BY <2>2, <2>3, <3>1 DEF Saving
    <3> QED
      BY <3>1, <3>2, <3>3 DEF ServerValue
  <2>6. KnownInv'
    <3> SUFFICES ASSUME ~spoilt PROVE KnownInv'
      BY <1>2 DEF KnownInv
    <3>1. \A e \in calls' : AnswerIsSo(e)'
      BY <2>2, <2>3, <2>5 DEF AnswerIsSo
    <3>2. ASSUME NEW u \in Users, known'[u] = "current"
          PROVE  ServerValue' = ServerValue /\ known[u] = "current"
      <4>1. row' = row /\ known[u] = "current"
        BY <1>6, <3>2
      <4> QED
        BY <1>2, <4>1 DEF ServerValue
    <3> QED
      BY <1>1, <1>2, <3>1, <3>2 DEF KnownInv, Expected
  <2>7. SerialInv'
    <3> SUFFICES ASSUME ~spoilt PROVE SerialInv'
      BY <1>2 DEF SerialInv
    <3>1. ToSet(c.list) = wanted
      BY <1>1, <1>11, <2>1 DEF SerialInv
    <3> QED
      BY <1>2, <2>3, <2>5, <3>1 DEF SerialInv
  <2> QED
    BY <1>4, <1>7, <1>8, <2>4, <2>6, <2>7 DEF IInv, ConfigInv
<1> QED
  BY <1>9, <1>10, <1>11

LEMMA ServerKeepsInv ==
    ASSUME IInv, NEW c \in calls, ServerStep(c)
    PROVE  IInv'
<1>1. TypeOK /\ CallInv /\ CallOK(c) /\ \A e \in calls' : CallOK(e)
  BY ServerKeepsCalls DEF IInv, ConfigInv, CallInv
<1>2. c.op \in Ops /\ c.list \in Values \union {None} /\ c.val \in Values \union {None}
      /\ c.new \in BOOLEAN /\ c.step \in Steps /\ c.step \in StepsOf(c.op)
  BY <1>1 DEF CallOK, IsCall
<1>3. row \in Values \union {None} /\ ServerValue \in Values \union {None} /\ Full \in Values
      /\ <<>> \in Values
  BY <1>1, ValueFacts DEF TypeOK, ServerValue
<1>4. CASE Read(c)
  <2> DEFINE d == [c EXCEPT !.step = "done", !.val = ServerValue, !.new = TRUE]
  <2>1. Made(d, c, c.op, c.list, ServerValue, TRUE, "done")
    BY <1>1, <1>2, <1>3, CallFields DEF Steps
  <2>2. calls' = (calls \ {c}) \union {d} /\ c.op \in {"load", "status"}
        /\ UNCHANGED <<kind, row, view, loading, error, gen, busy, known, todo, wanted, spoilt>>
    BY <1>4 DEF Read, Becomes, Quietly, server, page, history
  <2> HIDE DEF d
  <2>3. d.op = c.op /\ d.u = c.u /\ AnswerIsSo(d) /\ c \notin Saving
    BY <2>1, <2>2 DEF Made, AnswerIsSo, Saving
  <2> QED
    BY <1>1, <2>2, <2>3, ServingKeepsInv
<1>5. CASE ReadCalendar(c)
  <2>1. PICK step \in Steps, val \in Values \union {None} :
          calls' = (calls \ {c}) \union {[c EXCEPT !.step = step, !.val = val]}
    <3>1. CASE row # None
      BY <1>3, <1>5, <3>1 DEF ReadCalendar, Becomes, Steps
    <3>2. CASE row = None
      <4>1. calls' = (calls \ {c}) \union {[c EXCEPT !.step = "fetch"]}
        BY <1>5, <3>2 DEF ReadCalendar, Becomes
      <4>2. [c EXCEPT !.step = "fetch"] = [c EXCEPT !.step = "fetch", !.val = c.val]
        BY <1>1 DEF CallOK, IsCall
      <4> QED
        BY <1>2, <4>1, <4>2 DEF Steps
    <3> QED
      BY <3>1, <3>2
  <2> DEFINE d == [c EXCEPT !.step = step, !.val = val]
  <2>2. Made(d, c, c.op, c.list, val, c.new, step)
    BY <1>1, <1>2, CallFields
  <2>3. kind = "calendar"
        /\ UNCHANGED <<kind, row, view, loading, error, gen, busy, known, todo, wanted, spoilt>>
    BY <1>1, <1>5 DEF ReadCalendar, CallOK, Quietly, server, page, history
  <2> HIDE DEF d
  <2>4. d.op = c.op /\ d.u = c.u
    BY <2>2 DEF Made
  <2> QED
    BY <1>1, <2>1, <2>3, <2>4, ServingKeepsInv DEF d
<1>6. CASE Fetched(c)
  <2> DEFINE s == IF c.op = "report" THEN "refused" ELSE "put"
             d == [c EXCEPT !.list = Full, !.step = s]
  <2>1. Made(d, c, c.op, Full, c.val, c.new, s)
    BY <1>1, <1>2, <1>3, CallFields DEF Steps
  <2>2. calls' = (calls \ {c}) \union {d} /\ kind = "calendar"
        /\ UNCHANGED <<kind, row, view, loading, error, gen, busy, known, todo, wanted, spoilt>>
    BY <1>1, <1>2, <1>6 DEF Fetched, Fetching, Becomes, Quietly, server, page, history, CallOK,
                            StepsOf
  <2> HIDE DEF d
  <2>3. d.op = c.op /\ d.u = c.u
    BY <2>1 DEF Made
  <2> QED
    BY <1>1, <2>2, <2>3, ServingKeepsInv
<1>7. CASE FetchFailed(c)
  <2> DEFINE d == [c EXCEPT !.list = <<>>, !.step = "put"]
             e == [c EXCEPT !.list = <<>>, !.step = "done", !.val = <<>>]
  <2>1. /\ Made(d, c, c.op, <<>>, c.val, c.new, "put")
        /\ Made(e, c, c.op, <<>>, <<>>, c.new, "done")
    BY <1>1, <1>2, <1>3, CallFields DEF Steps
  <2>2. /\ calls' = (calls \ {c}) \union {d} \/ calls' = (calls \ {c}) \union {e}
        /\ kind = "calendar"
        /\ UNCHANGED <<kind, row, view, loading, error, gen, busy, known, todo, wanted, spoilt>>
    BY <1>1, <1>2, <1>7 DEF FetchFailed, Fetching, Becomes, Fault, server, page, history, CallOK,
                            StepsOf
  <2> HIDE DEF d, e
  <2>3. d.op = c.op /\ d.u = c.u /\ e.op = c.op /\ e.u = c.u
    BY <2>1 DEF Made
  <2> QED
    BY <1>1, <2>2, <2>3, ServingKeepsInv
<1>8. CASE PutRead(c)
  <2> DEFINE d == [c EXCEPT !.step = "write", !.val = row]
  <2>1. Made(d, c, c.op, c.list, row, c.new, "write")
    BY <1>1, <1>2, <1>3, CallFields DEF Steps
  <2>2. calls' = (calls \ {c}) \union {d}
        /\ UNCHANGED <<kind, row, view, loading, error, gen, busy, known, todo, wanted, spoilt>>
    BY <1>8 DEF PutRead, Becomes, Quietly, server, page, history
  <2> HIDE DEF d
  <2>3. d.op = c.op /\ d.u = c.u /\ d.list = c.list /\ d.step = "write" /\ d.val = row
        /\ AnswerIsSo(d)
    BY <2>1 DEF Made, AnswerIsSo
  <2> QED
    BY <1>1, <2>2, <2>3, ServingKeepsInv
<1> QED
  BY <1>4, <1>5, <1>6, <1>7, <1>8, PutWriteKeepsInv DEF ServerStep

----------------------------------------------------------------------------
(* Answers.                                                                *)

\* An answer that tells the page of the row: what the page shows is the
\* answer, with no edits of its own.
LEMMA TellingKeepsInv ==
    ASSUME IInv, NEW c \in calls, c.op \in {"load", "status", "save"}, c.step = "done",
           calls' = calls \ {c}, NEW v \in Values \union {None}, Told(c, v),
           kind # "calendar" => v # None, kind \in {"draft", "list"} => v = c.val,
           UNCHANGED <<kind, row, wanted, spoilt>>, gen' = gen,
           loading' \in [Users -> BOOLEAN], error' \in [Users -> BOOLEAN],
           busy' \in [Users -> BOOLEAN],
           \A w \in Users : w # c.u => loading'[w] = loading[w] /\ error'[w] = error[w]
    PROVE  IInv'
<1>1. Values' = Values /\ ServerValue' = ServerValue
  BY DEF Values, ServerValue
<1>2. TypeOK /\ NeverSavedUnloaded /\ CallInv /\ UnloadedIsHidden /\ KnownInv /\ SerialInv
  BY DEF IInv, ConfigInv
<1>3. CallOK(c) /\ c.u \in Users /\ c.new \in BOOLEAN
  BY <1>2 DEF CallInv, CallOK, IsCall
<1>4. /\ view' = [view EXCEPT ![c.u] = v]
      /\ known' = [known EXCEPT ![c.u] = IF c.new THEN "current" ELSE "old"]
      /\ todo' = [todo EXCEPT ![c.u] = {}]
  BY DEF Told
<1>5. CallInv' /\ \A e \in calls' : /\ e.u \in Users \union {None} /\ e.op \in Ops /\ e.step \in Steps
                                    /\ e.list \in Values \union {None}
                                    /\ e.val \in Values \union {None}
  BY <1>1, <1>2, CallsStayTyped DEF CallInv
<1>6. TypeOK'
  <2>1. /\ view' \in [Users -> Values \union {None}]
        /\ known' \in [Users -> {"nothing", "current", "old"}]
        /\ todo' \in [Users -> SUBSET (Items \X BOOLEAN)]
    BY <1>2, <1>3, <1>4 DEF TypeOK
  <2>2. kind # "calendar" => \A w \in Users : view'[w] # None
    BY <1>2, <1>3, <1>4 DEF TypeOK
  <2>3. gen' \in [Users -> Nat] /\ row' \in Values' \union {None} /\ kind' \in Kinds
        /\ wanted' \subseteq Items /\ spoilt' \in BOOLEAN
    BY <1>1, <1>2 DEF TypeOK
  <2> QED
    BY <1>1, <1>5, <2>1, <2>2, <2>3 DEF TypeOK
<1>7. NeverSavedUnloaded' /\ UnloadedIsHidden'
  <2>1. \A w \in Users : known'[w] = IF w # c.u THEN known[w] ELSE IF c.new THEN "current" ELSE "old"
    BY <1>2, <1>3, <1>4 DEF TypeOK
  <2>2. \A e \in Saving' : e \in Saving /\ (kind = "draft" => e.u \in Users)
    BY <1>2 DEF Saving, CallInv, CallOK
  <2> QED
    BY <1>2, <2>1, <2>2 DEF NeverSavedUnloaded, UnloadedIsHidden
<1>8. KnownInv'
  <2> SUFFICES ASSUME ~spoilt, kind # "calendar" PROVE KnownInv'
    BY DEF KnownInv
  <2>1. \A e \in calls' : AnswerIsSo(e)'
    BY <1>1, <1>2 DEF KnownInv, AnswerIsSo
  <2>2. ASSUME kind \in {"draft", "list"}, NEW w \in Users, known'[w] = "current"
        PROVE  ToSet(view'[w]) = Expected(w, ToSet(ServerValue))'
    <3>1. CASE w = c.u
      <4>1. c.new
        BY <1>2, <1>3, <1>4, <2>2, <3>1 DEF TypeOK
      <4>2. c.op \in {"load", "save"}
        BY <1>3, <2>2 DEF CallOK
      <4>3. view'[w] = ServerValue /\ todo'[w] = {}
        BY <1>2, <1>3, <1>4, <2>2, <3>1, <4>1, <4>2 DEF TypeOK, KnownInv, AnswerIsSo
      <4>4. ToSet(ServerValue) \subseteq Items
        BY <1>2, ServerHasAValue, ValueFacts
      <4> QED
        BY <1>1, <4>3, <4>4 DEF Expected
    <3>2. CASE w # c.u
      <4>1. known[w] = "current" /\ view'[w] = view[w] /\ todo'[w] = todo[w]
        BY <1>2, <1>3, <1>4, <2>2, <3>2 DEF TypeOK
      <4> QED
        BY <1>1, <1>2, <2>2, <4>1 DEF KnownInv, Expected
    <3> QED
      BY <3>1, <3>2
  <2>3. kind = "list" => \A w \in Users : todo'[w] = {}
    BY <1>2, <1>3, <1>4 DEF TypeOK, KnownInv
  <2> QED
    BY <1>1, <2>1, <2>2, <2>3 DEF KnownInv
<1>9. SerialInv'
  <2> SUFFICES ASSUME ~spoilt, kind # "calendar" PROVE SerialInv'
    BY DEF SerialInv
  <2>1. Saving' = Saving \ {c}
    BY DEF Saving
  <2> QED
    BY <1>1, <1>2, <2>1 DEF SerialInv
<1> QED
  BY <1>5, <1>6, <1>7, <1>8, <1>9 DEF IInv, ConfigInv

\* The end of a request that tells nothing; of a save it tells that the
\* saves are no longer as they were meant.
LEMMA EndingKeepsInv ==
    ASSUME IInv, \A d \in calls' : CallOK(d), kind # "calendar" => calls' \subseteq calls,
           UNCHANGED <<kind, row, view, gen, known, todo>>,
           loading' \in [Users -> BOOLEAN], error' \in [Users -> BOOLEAN],
           busy' \in [Users -> BOOLEAN],
           kind = "draft" => \A w \in Users : known[w] = "nothing" => loading'[w] \/ error'[w],
           \/ spoilt' = TRUE /\ wanted' = {}
           \/ UNCHANGED <<wanted, spoilt>> /\ (kind # "calendar" => Saving' = Saving)
    PROVE  IInv'
<1>1. Values' = Values /\ ServerValue' = ServerValue
  BY DEF Values, ServerValue
<1>2. TypeOK /\ NeverSavedUnloaded /\ CallInv /\ UnloadedIsHidden /\ KnownInv /\ SerialInv
  BY DEF IInv, ConfigInv
<1>3. CallInv' /\ \A e \in calls' : /\ e.u \in Users \union {None} /\ e.op \in Ops /\ e.step \in Steps
                                    /\ e.list \in Values \union {None}
                                    /\ e.val \in Values \union {None}
  BY <1>1, CallsStayTyped
<1>4. TypeOK'
  BY <1>1, <1>2, <1>3 DEF TypeOK
<1>5. NeverSavedUnloaded' /\ UnloadedIsHidden'
  BY <1>2 DEF NeverSavedUnloaded, UnloadedIsHidden, Saving
<1>6. KnownInv'
  BY <1>1, <1>2 DEF KnownInv, AnswerIsSo, Expected
<1>7. SerialInv'
  BY <1>1, <1>2 DEF SerialInv
<1> QED
  BY <1>3, <1>4, <1>5, <1>6, <1>7 DEF IInv, ConfigInv

LEMMA AnswerKeepsInv ==
    ASSUME IInv, NEW c \in calls, Answer(c)
    PROVE  IInv'
<1>1. TypeOK /\ CallInv /\ UnloadedIsHidden /\ CallOK(c) /\ \A e \in calls' : CallOK(e)
  BY AnswerKeepsCalls DEF IInv, ConfigInv, CallInv
<1>2. /\ c.val \in Values \union {None} /\ c.u \in Users \union {None} /\ c.new \in BOOLEAN
      /\ kind # "calendar" /\ c.step = "done" => c.val \in Values
      /\ c.op \in {"load", "save"} => kind # "calendar" /\ c.u \in Users
      /\ c.op \in {"status", "refresh"} => kind = "calendar" /\ c.u \in Users
      /\ c.op \in {"month", "report"} => kind = "calendar"
  BY <1>1 DEF CallOK, IsCall
<1>3. /\ loading \in [Users -> BOOLEAN] /\ error \in [Users -> BOOLEAN] /\ busy \in [Users -> BOOLEAN]
      /\ view \in [Users -> Values \union {None}]
      /\ kind # "calendar" => \A u \in Users : view[u] # None
      /\ None \notin Values
  BY <1>1, ValueFacts DEF TypeOK
<1>4. CASE LoadAnswered(c)
  <2>1. c.op = "load" /\ c.step = "done" /\ calls' = calls \ {c} /\ kind' = kind /\ row' = row
        /\ UNCHANGED <<gen, busy, wanted, spoilt>>
    BY <1>4 DEF LoadAnswered, Done, Quietly, server
  <2>2. CASE c.gen = gen[c.u]
    <3> DEFINE v == IF kind = "form" /\ c.val = <<>> THEN view[c.u] ELSE c.val
    <3>1. Told(c, v) /\ loading' = [loading EXCEPT ![c.u] = FALSE]
          /\ error' = [error EXCEPT ![c.u] = FALSE]
      BY <1>4, <2>2 DEF LoadAnswered
    <3>2. v \in Values \union {None} /\ v # None /\ (kind \in {"draft", "list"} => v = c.val)
      BY <1>2, <1>3, <2>1
    <3>3. loading' \in [Users -> BOOLEAN] /\ error' \in [Users -> BOOLEAN]
          /\ \A w \in Users : w # c.u => loading'[w] = loading[w] /\ error'[w] = error[w]
      BY <1>3, <3>1
    <3> HIDE DEF v
    <3> QED
      BY <1>3, <2>1, <3>1, <3>2, <3>3, TellingKeepsInv
  <2>3. CASE c.gen # gen[c.u]
    <3>1. UNCHANGED <<view, known, todo, loading, error>>
      BY <1>4, <2>3 DEF LoadAnswered
    <3>2. Saving' = Saving
      BY <2>1 DEF Saving
    <3> QED
      BY <1>1, <1>3, <2>1, <3>1, <3>2, EndingKeepsInv DEF UnloadedIsHidden
  <2> QED
    BY <2>2, <2>3
<1>5. CASE LoadFails(c)
  <2>1. c.op = "load" /\ calls' = calls \ {c} /\ kind' = kind /\ row' = row
        /\ UNCHANGED <<view, gen, busy, known, todo, wanted, spoilt>>
    BY <1>5 DEF LoadFails, Done, Fault, server, history
  <2>2. \/ /\ loading' = [loading EXCEPT ![c.u] = FALSE]
           /\ error' = [error EXCEPT ![c.u] = (kind = "draft")]
        \/ UNCHANGED <<loading, error>>
    BY <1>5 DEF LoadFails
  <2>3. loading' \in [Users -> BOOLEAN] /\ error' \in [Users -> BOOLEAN]
        /\ (kind = "draft" => \A w \in Users : known[w] = "nothing" => loading'[w] \/ error'[w])
    <3> DEFINE hides == (kind = "draft")
    <3>1. hides \in BOOLEAN
      OBVIOUS
    <3> QED
      BY <1>1, <1>3, <2>2, <3>1 DEF UnloadedIsHidden
  <2>4. Saving' = Saving
    BY <2>1 DEF Saving
  <2> QED
    BY <1>1, <1>3, <2>1, <2>3, <2>4, EndingKeepsInv
<1>6. CASE SaveAnswered(c)
  <2> DEFINE v == IF kind = "form" THEN view[c.u] ELSE c.val
  <2>1. c.op = "save" /\ c.step = "done" /\ calls' = calls \ {c} /\ Told(c, v)
        /\ kind' = kind /\ row' = row /\ UNCHANGED <<loading, error, gen, wanted, spoilt>>
        /\ busy' = [busy EXCEPT ![c.u] = FALSE]
    BY <1>6 DEF SaveAnswered, Done, Quietly, server
  <2>2. v \in Values \union {None} /\ v # None /\ (kind \in {"draft", "list"} => v = c.val)
    BY <1>2, <1>3, <2>1
  <2>3. busy' \in [Users -> BOOLEAN]
    BY <1>3, <2>1
  <2> HIDE DEF v
  <2> QED
    BY <1>3, <2>1, <2>2, <2>3, TellingKeepsInv
<1>7. CASE StatusAnswered(c)
  <2>1. c.op = "status" /\ c.step = "done" /\ calls' = calls \ {c} /\ Told(c, c.val)
        /\ kind' = kind /\ row' = row /\ UNCHANGED <<gen, wanted, spoilt>>
        /\ loading' = [loading EXCEPT ![c.u] = FALSE] /\ error' = [error EXCEPT ![c.u] = FALSE]
        /\ busy' = [busy EXCEPT ![c.u] = @ /\ c.list = None]
    BY <1>7 DEF StatusAnswered, Done, Quietly, server
  <2>2. loading' \in [Users -> BOOLEAN] /\ error' \in [Users -> BOOLEAN]
        /\ \A w \in Users : w # c.u => loading'[w] = loading[w] /\ error'[w] = error[w]
    BY <1>3, <2>1
  <2>3. busy' \in [Users -> BOOLEAN]
    BY <1>2, <1>3, <2>1
  <2> QED
    BY <1>2, <2>1, <2>2, <2>3, TellingKeepsInv
<1>8. CASE StatusFails(c)
  <2>1. c.op = "status" /\ calls' = calls \ {c} /\ kind' = kind /\ row' = row
        /\ UNCHANGED <<view, gen, known, todo, wanted, spoilt>>
        /\ loading' = [loading EXCEPT ![c.u] = FALSE] /\ error' = [error EXCEPT ![c.u] = TRUE]
        /\ busy' = [busy EXCEPT ![c.u] = @ /\ c.list = None]
    BY <1>8 DEF StatusFails, Done, Fault, server, history
  <2>2. loading' \in [Users -> BOOLEAN] /\ error' \in [Users -> BOOLEAN]
        /\ busy' \in [Users -> BOOLEAN]
    BY <1>2, <1>3, <2>1
  <2> QED
    BY <1>1, <1>2, <2>1, <2>2, EndingKeepsInv
<1>9. CASE RefreshAnswered(c) \/ ReaderAnswered(c)
  <2>1. kind = "calendar"
        /\ UNCHANGED <<kind, row, view, loading, error, gen, busy, known, todo, wanted, spoilt>>
    BY <1>2, <1>9 DEF RefreshAnswered, ReaderAnswered, Quietly, server, page, history
  <2> QED
    BY <1>1, <1>3, <2>1, EndingKeepsInv
<1>10. CASE SaveEndsBadly(c)
  <2>1. calls' = calls \ {c} /\ kind' = kind /\ row' = row
        /\ UNCHANGED <<view, loading, error, gen, known, todo>>
        /\ busy' = [busy EXCEPT ![c.u] = FALSE] /\ spoilt' = TRUE /\ wanted' = {}
    BY <1>10 DEF SaveEndsBadly, Done, Quietly, Fault, server
  <2>2. busy' \in [Users -> BOOLEAN]
    BY <1>3, <2>1
  <2> QED
    BY <1>1, <1>3, <2>1, <2>2, EndingKeepsInv DEF UnloadedIsHidden
<1> QED
  BY <1>4, <1>5, <1>6, <1>7, <1>8, <1>9, <1>10 DEF Answer

----------------------------------------------------------------------------
(* The theorems.                                                           *)

LEMMA InitHolds == Init => IInv
<1> SUFFICES ASSUME Init PROVE IInv
  OBVIOUS
<1>1. Full \in Values /\ <<>> \in Values /\ None \notin Values /\ ToSet(<<>>) = {} /\ On \in Items
  BY ValueFacts
<1>2. row \in {None, Full} /\ spoilt = FALSE /\ kind \in Kinds
  BY DEF Init
<1>3. \A c \in calls : /\ CallOK(c) /\ c.op \in {"load", "status"} /\ c.step = "sent"
                       /\ c.u \in Users \union {None} /\ c.op \in Ops /\ c.step \in Steps
                       /\ c.list \in Values \union {None} /\ c.val \in Values \union {None}
  <2> SUFFICES ASSUME NEW c \in calls
               PROVE  /\ CallOK(c) /\ c.op \in {"load", "status"} /\ c.step = "sent"
                      /\ c.u \in Users \union {None} /\ c.op \in Ops /\ c.step \in Steps
                      /\ c.list \in Values \union {None} /\ c.val \in Values \union {None}
    OBVIOUS
  <2> DEFINE op == IF kind = "calendar" THEN "status" ELSE "load"
  <2>1. PICK u \in Users : c = [n |-> 0, u |-> u, op |-> op, gen |-> 1, list |-> None, val |-> None,
                                new |-> FALSE, step |-> "sent"]
    BY DEF Init
  <2> QED
    BY <2>1 DEF CallOK, IsCall, StepsOf, Ops, Steps
<1>4. TypeOK
  <2>1. wanted \subseteq Items
    <3>1. ToSet(Full) \subseteq Items
      BY <1>1, ValueFacts
    <3> QED
      BY <1>2, <3>1 DEF Init
  <2>2. /\ view \in [Users -> Values \union {None}] /\ \A u \in Users : view[u] # None
        /\ loading \in [Users -> BOOLEAN] /\ error \in [Users -> BOOLEAN]
        /\ busy \in [Users -> BOOLEAN] /\ gen \in [Users -> Nat]
        /\ known \in [Users -> {"nothing", "current", "old"}]
        /\ todo \in [Users -> SUBSET (Items \X BOOLEAN)]
    BY <1>1 DEF Init
  <2> QED
    BY <1>1, <1>2, <1>3, <2>1, <2>2 DEF TypeOK
<1>5. CallInv /\ Saving = {}
  BY <1>3 DEF CallInv, Saving
<1>6. NeverSavedUnloaded /\ UnloadedIsHidden
  BY <1>5 DEF NeverSavedUnloaded, UnloadedIsHidden, Init
<1>7. KnownInv
  BY <1>3 DEF KnownInv, AnswerIsSo, Init
<1>8. SerialInv
  <2>1. kind # "calendar" => ToSet(ServerValue) = wanted
    BY <1>1, <1>2 DEF ServerValue, Init
  <2> QED
    BY <1>5, <2>1 DEF SerialInv
<1> QED
  BY <1>4, <1>5, <1>6, <1>7, <1>8 DEF IInv, ConfigInv

LEMMA StepKeepsInv == IInv /\ [Next]_vars => IInv'
<1> SUFFICES ASSUME IInv, [Next]_vars PROVE IInv'
  OBVIOUS
<1>1. CASE Next
  BY <1>1, UserKeepsInv, ReadElsewhereKeepsInv, ServerKeepsInv, AnswerKeepsInv DEF Next
<1>2. CASE UNCHANGED vars
  <2>1. UNCHANGED <<kind, row, view, loading, error, gen, busy, calls, known, todo, wanted, spoilt>>
    BY <1>2 DEF vars, server, page, history
  <2>2. TypeOK /\ CallInv /\ UnloadedIsHidden
    BY DEF IInv, ConfigInv
  <2>3. Saving' = Saving
    BY <2>1 DEF Saving
  <2> QED
    BY <2>1, <2>2, <2>3, EndingKeepsInv DEF CallInv, TypeOK, UnloadedIsHidden
<1> QED
  BY <1>1, <1>2

\* The inductive invariant: what requests carry, and how what pages have been
\* told, their users' edits and the saves under way relate to the row.
THEOREM Invariance == Spec => []IInv
BY InitHolds, StepKeepsInv, PTL DEF Spec

\* The row, the pages and the requests hold values of the section's kind, and
\* a draft list that a page has never got is never saved.
THEOREM ConfigHolds == Spec => []ConfigInv
<1>1. IInv => ConfigInv
  BY DEF IInv
<1> QED
  BY <1>1, Invariance, PTL

\* As long as each save knows the row and no two overlap, the row has exactly
\* the entries that the additions and removals of all users ask for.
THEOREM SerialSavesExact == Spec => []SerialUseIsExact
<1>1. IInv => SerialUseIsExact
  BY DEF IInv, SerialInv, SerialUseIsExact
<1> QED
  BY <1>1, Invariance, PTL

\* Nothing but a refresh takes the entries from a cached calendar: months and
\* reports that miss, fetch and store beside each other never lose them.
THEOREM RefreshesEmpty == Spec => OnlyRefreshEmpties
<1> DEFINE Emptied == row = Full /\ row' # Full /\ kind = "calendar" =>
                         \E c \in calls : c.op = "refresh" /\ c.step = "write" /\ c \notin calls'
<1>1. IInv /\ [Next]_vars => [Emptied]_vars
  <2> SUFFICES ASSUME IInv, Next, row = Full, row' # Full, kind = "calendar"
               PROVE  \E c \in calls : c.op = "refresh" /\ c.step = "write" /\ c \notin calls'
    OBVIOUS
  <2>1. PICK c \in calls : PutWrite(c)
    BY DEF Next, UserStep, ServerStep, Answer, Event, Fault, Edit, Move, Type, Save, AddNow,
           RemoveNow, Toggle, Refresh, SwitchLanguage, ReadElsewhere, Read, ReadCalendar, Fetched,
           FetchFailed, PutRead, LoadAnswered, LoadFails, SaveAnswered, RefreshAnswered,
           StatusAnswered, StatusFails, SaveEndsBadly, ReaderAnswered, server
  <2>2. \A e \in calls : CallOK(e)
    BY DEF IInv, CallInv
  <2>3. /\ calls' = {Stale(e) : e \in calls \ {c}} \union
                       {[c EXCEPT !.step = "done", !.val = c.list, !.new = TRUE]}
        /\ row' = c.list /\ c.step = "write"
    BY <2>1 DEF PutWrite, server, Stale
  <2>4. c.op = "refresh" /\ ~c.new
    BY <2>2, <2>3 DEF CallOK, IsCall, Ops, StepsOf
  <2>5. [c EXCEPT !.step = "done", !.val = c.list, !.new = TRUE] # c
    BY <2>2, <2>3 DEF CallOK, IsCall
  <2>6. ASSUME NEW e \in calls, Stale(e) = c
        PROVE  e = c
    <3>1. e.op = "refresh" /\ e.step = "write"
      BY <2>2, <2>3, <2>4, <2>6 DEF Stale, CallOK, IsCall
    <3>2. e.new = FALSE
      BY <2>2, <3>1 DEF CallOK, IsCall
    <3>3. Stale(e) = e
      BY <2>2, <3>2 DEF Stale, CallOK, IsCall
    <3> QED
      BY <2>6, <3>3
  <2>7. c \notin calls'
    BY <2>3, <2>5, <2>6
  <2> QED
    BY <2>3, <2>4, <2>7
<1> QED
  BY <1>1, Invariance, PTL DEF Spec, OnlyRefreshEmpties

=============================================================================
