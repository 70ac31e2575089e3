-------------------------- MODULE PunchPageProofs --------------------------
(***************************************************************************)
(* Proofs about PunchPage, for any number of clicks, instants and faults.  *)
(*                                                                         *)
(* The lock is held exactly while a punch is under way, and only once a    *)
(* position is known; a punch that waits for its position, and that a      *)
(* click after the shift asked for, has its reason in lateReasonRef until  *)
(* the effect has had its turn or the button has sent another punch.       *)
(***************************************************************************)
EXTENDS PunchPage, TLAPS

\* What holds the lock, and what a position request implies.
LockInv ==
    /\ lock <=> posts # {}
    /\ lock => fix
    /\ locating => ~fix

\* A confirmed reason is in lateReasonRef or has gone with a punch.
ReasonInv == carried + (IF chosen # None /\ ~lock THEN 1 ELSE 0) <= confirms

\* A punch that waits, and was not overtaken, is still to be sent by the
\* effect of its position, and has the reason it needs.
WaitingInv ==
    pending /\ ~overtaken =>
        /\ fix => painted /\ ~lock
        /\ due => chosen # None

IInv ==
    /\ TypeOK /\ LockInv /\ OnePostAtATime /\ PostsWereAsked
    /\ ReasonInv /\ WaitingInv /\ LateClickCarriesReason

\* The day of an instant is a natural number.
LEMMA TodayNat == TypeOK => Today \in Nat
BY DEF TypeOK, CountTypeOK, Today

\* Sending a punch keeps the types of the requests and the counters.
LEMMA SubmitTypes ==
    ASSUME TypeOK, NEW r \in Reasons \union {None}, NEW l \in BOOLEAN, NEW o \in BOOLEAN, Submit(r, l, o)
    PROVE  posts' \subseteq Post /\ sent' \in Nat /\ carried' \in Nat
<1>1. [n |-> sent, reason |-> r, late |-> l, over |-> o, step |-> "sent", day |-> Today, tardy |-> FALSE] \in Post
    BY TodayNat DEF TypeOK, CountTypeOK, Post
<1>2. posts' \subseteq Post
    BY <1>1 DEF Submit, TypeOK
<1>3. sent' \in Nat /\ carried' \in Nat
    BY DEF Submit, TypeOK, CountTypeOK
<1>4. QED
    BY <1>2, <1>3

\* So does a call of handlePunch.
LEMMA HandlePunchTypes ==
    ASSUME TypeOK, NEW r \in Reasons \union {None}, NEW l \in BOOLEAN, HandlePunch(r, l)
    PROVE  posts' \subseteq Post /\ sent' \in Nat /\ carried' \in Nat /\ asked' \in Nat
<1>1. asked' \in Nat
    BY DEF HandlePunch, TypeOK, CountTypeOK
<1>2. CASE fix
    BY <1>1, <1>2, SubmitTypes DEF HandlePunch
<1>3. CASE ~fix
    BY <1>1, <1>3 DEF HandlePunch, TypeOK, CountTypeOK
<1>4. QED
    BY <1>2, <1>3

\* The page starts in the invariant.
LEMMA InitInv == Init => IInv
<1> SUFFICES ASSUME Init PROVE IInv
    OBVIOUS
<1> USE PunchPageAssumption
<1>1. TypeOK
    <2>1. kind \in Kinds /\ calendar \in Kinds
        BY DEF Init
    <2>2. QED
        BY <2>1 DEF Init, TypeOK, ButtonTypeOK, ResultTypeOK, CountTypeOK, Post
<1>2. LockInv /\ OnePostAtATime /\ PostsWereAsked /\ ReasonInv /\ WaitingInv /\ LateClickCarriesReason
    BY DEF Init, LockInv, OnePostAtATime, PostsWereAsked, ReasonInv, WaitingInv, LateClickCarriesReason
<1>3. QED
    BY <1>1, <1>2 DEF IInv

\* Click keeps the invariant.
LEMMA ClickInv == ASSUME IInv, Click PROVE IInv'
<1> USE PunchPageAssumption DEF Click, HandlePunch, Submit, NeedsLateReason, vars, day, position, punching, outcome, server, history
<1>1. TypeOK'
    <2>1. ButtonTypeOK'
        BY DEF IInv, TypeOK, ButtonTypeOK
    <2> NeedsLateReason \in BOOLEAN /\ chosen \in Reasons \union {None}
        BY DEF IInv, TypeOK, ButtonTypeOK
    <2>2. posts' \subseteq Post /\ sent' \in Nat /\ carried' \in Nat /\ asked' \in Nat
        <3>1. CASE NeedsLateReason /\ chosen = None
            BY <3>1 DEF IInv, TypeOK, CountTypeOK
        <3>2. CASE ~(NeedsLateReason /\ chosen = None)
            <4>1. HandlePunch(chosen, NeedsLateReason)
                BY <3>2 DEF Click
            <4>2. QED
                BY <4>1, HandlePunchTypes DEF IInv
        <3>3. QED
            BY <3>1, <3>2
    <2>3. ResultTypeOK'
        BY TodayNat DEF IInv, TypeOK, ResultTypeOK, Post
    <2>4. CountTypeOK'
        <3>1. now' = now /\ punches' = punches /\ reasons' = reasons /\ faults' = faults /\ confirms' = confirms
            OBVIOUS
        <3>2. clicks' = clicks + 1
            OBVIOUS
        <3>3. QED
            BY <2>2, <3>1, <3>2 DEF IInv, TypeOK, CountTypeOK
    <2>5. QED
        BY <2>1, <2>2, <2>3, <2>4 DEF TypeOK
<1>2. LockInv' /\ OnePostAtATime'
    BY DEF IInv, TypeOK, ButtonTypeOK, CountTypeOK, Post, LockInv, OnePostAtATime
<1>3. PostsWereAsked' /\ ReasonInv'
    BY DEF IInv, TypeOK, ButtonTypeOK, CountTypeOK, Post, LockInv, PostsWereAsked, ReasonInv
<1>4. WaitingInv' /\ LateClickCarriesReason'
    BY DEF IInv, TypeOK, ButtonTypeOK, CountTypeOK, Post, LockInv, WaitingInv, LateClickCarriesReason
<1>5. QED
    BY <1>1, <1>2, <1>3, <1>4 DEF IInv

\* MarkOption keeps the invariant.
LEMMA MarkOptionInv == ASSUME IInv, MarkOption PROVE IInv'
<1> USE PunchPageAssumption DEF MarkOption, vars, day, position, punching, outcome, server, history
<1>1. TypeOK'
    <2>1. ButtonTypeOK'
        BY DEF IInv, TypeOK, ButtonTypeOK
    <2>2. posts' \subseteq Post
        BY TodayNat DEF IInv, TypeOK, ButtonTypeOK, CountTypeOK, Post
    <2>3. ResultTypeOK'
        BY TodayNat DEF IInv, TypeOK, ResultTypeOK, Post
    <2>4. CountTypeOK'
        BY <2>2 DEF IInv, TypeOK, CountTypeOK, ResultTypeOK, Post
    <2>5. QED
        BY <2>1, <2>2, <2>3, <2>4 DEF TypeOK
<1>2. LockInv' /\ OnePostAtATime'
    BY DEF IInv, TypeOK, ButtonTypeOK, CountTypeOK, Post, LockInv, OnePostAtATime
<1>3. PostsWereAsked' /\ ReasonInv'
    BY DEF IInv, TypeOK, ButtonTypeOK, CountTypeOK, Post, LockInv, PostsWereAsked, ReasonInv
<1>4. WaitingInv' /\ LateClickCarriesReason'
    BY DEF IInv, TypeOK, ButtonTypeOK, CountTypeOK, Post, LockInv, WaitingInv, LateClickCarriesReason
<1>5. QED
    BY <1>1, <1>2, <1>3, <1>4 DEF IInv

\* Confirm keeps the invariant.
LEMMA ConfirmInv == ASSUME IInv, Confirm PROVE IInv'
<1> USE PunchPageAssumption DEF Confirm, HandlePunch, Submit, vars, day, position, punching, outcome, server, history
<1>1. TypeOK'
    <2>1. ButtonTypeOK'
        BY DEF IInv, TypeOK, ButtonTypeOK
    <2> option \in Reasons \union {None}
        BY DEF IInv, TypeOK, ButtonTypeOK
    <2>2. posts' \subseteq Post /\ sent' \in Nat /\ carried' \in Nat /\ asked' \in Nat
        <3>1. CASE lock
            BY <3>1 DEF IInv, TypeOK, CountTypeOK
        <3>2. CASE ~lock
            <4>1. HandlePunch(option, TRUE)
                BY <3>2 DEF Confirm
            <4>2. QED
                BY <4>1, HandlePunchTypes DEF IInv
        <3>3. QED
            BY <3>1, <3>2
    <2>3. ResultTypeOK'
        BY TodayNat DEF IInv, TypeOK, ResultTypeOK, Post
    <2>4. CountTypeOK'
        <3>1. now' = now /\ punches' = punches /\ reasons' = reasons /\ faults' = faults /\ clicks' = clicks
            OBVIOUS
        <3>2. confirms' = confirms + 1
            OBVIOUS
        <3>3. QED
            BY <2>2, <3>1, <3>2 DEF IInv, TypeOK, CountTypeOK
    <2>5. QED
        BY <2>1, <2>2, <2>3, <2>4 DEF TypeOK
<1>2. LockInv' /\ OnePostAtATime'
    BY DEF IInv, TypeOK, ButtonTypeOK, CountTypeOK, Post, LockInv, OnePostAtATime
<1>3. PostsWereAsked' /\ ReasonInv'
    BY DEF IInv, TypeOK, ButtonTypeOK, CountTypeOK, Post, LockInv, PostsWereAsked, ReasonInv
<1>4. WaitingInv' /\ LateClickCarriesReason'
    BY DEF IInv, TypeOK, ButtonTypeOK, CountTypeOK, Post, LockInv, WaitingInv, LateClickCarriesReason
<1>5. QED
    BY <1>1, <1>2, <1>3, <1>4 DEF IInv

\* PositionEffect keeps the invariant.
LEMMA PositionEffectInv == ASSUME IInv, PositionEffect PROVE IInv'
<1> USE PunchPageAssumption DEF PositionEffect, Submit, vars, day, position, punching, outcome, server, history
<1>1. TypeOK'
    <2>1. ButtonTypeOK'
        BY DEF IInv, TypeOK, ButtonTypeOK
    <2>2. posts' \subseteq Post /\ sent' \in Nat /\ carried' \in Nat
        <3>1. CASE pending /\ fix /\ ~lock
            <4>1. Submit(chosen, due, overtaken)
                BY <3>1 DEF PositionEffect
            <4>2. QED
                BY <4>1, SubmitTypes DEF IInv, TypeOK, ButtonTypeOK
        <3>2. CASE ~(pending /\ fix /\ ~lock)
            BY <3>2 DEF IInv, TypeOK, CountTypeOK
        <3>3. QED
            BY <3>1, <3>2
    <2>3. ResultTypeOK'
        BY TodayNat DEF IInv, TypeOK, ResultTypeOK, Post
    <2>4. CountTypeOK'
        BY <2>2 DEF IInv, TypeOK, CountTypeOK, ResultTypeOK, Post
    <2>5. QED
        BY <2>1, <2>2, <2>3, <2>4 DEF TypeOK
<1>2. LockInv' /\ OnePostAtATime'
    BY DEF IInv, TypeOK, ButtonTypeOK, CountTypeOK, Post, LockInv, OnePostAtATime
<1>3. PostsWereAsked' /\ ReasonInv'
    BY DEF IInv, TypeOK, ButtonTypeOK, CountTypeOK, Post, LockInv, PostsWereAsked, ReasonInv
<1>4. WaitingInv' /\ LateClickCarriesReason'
    BY DEF IInv, TypeOK, ButtonTypeOK, CountTypeOK, Post, LockInv, WaitingInv, LateClickCarriesReason
<1>5. QED
    BY <1>1, <1>2, <1>3, <1>4 DEF IInv

\* SwitchLanguage keeps the invariant.
LEMMA SwitchLanguageInv == ASSUME IInv, SwitchLanguage PROVE IInv'
<1> USE PunchPageAssumption DEF SwitchLanguage, vars, day, position, punching, outcome, server, history
<1>1. TypeOK'
    <2>1. ButtonTypeOK'
        BY DEF IInv, TypeOK, ButtonTypeOK
    <2>2. posts' \subseteq Post
        BY TodayNat DEF IInv, TypeOK, ButtonTypeOK, CountTypeOK, Post
    <2>3. ResultTypeOK'
        BY TodayNat DEF IInv, TypeOK, ResultTypeOK, Post
    <2>4. CountTypeOK'
        BY <2>2 DEF IInv, TypeOK, CountTypeOK, ResultTypeOK, Post
    <2>5. QED
        BY <2>1, <2>2, <2>3, <2>4 DEF TypeOK
<1>2. LockInv' /\ OnePostAtATime'
    BY DEF IInv, TypeOK, ButtonTypeOK, CountTypeOK, Post, LockInv, OnePostAtATime
<1>3. PostsWereAsked' /\ ReasonInv'
    BY DEF IInv, TypeOK, ButtonTypeOK, CountTypeOK, Post, LockInv, PostsWereAsked, ReasonInv
<1>4. WaitingInv' /\ LateClickCarriesReason'
    BY DEF IInv, TypeOK, ButtonTypeOK, CountTypeOK, Post, LockInv, WaitingInv, LateClickCarriesReason
<1>5. QED
    BY <1>1, <1>2, <1>3, <1>4 DEF IInv

\* SubmitForm keeps the invariant.
LEMMA SubmitFormInv == ASSUME IInv, SubmitForm PROVE IInv'
<1> USE PunchPageAssumption DEF SubmitForm, vars, day, position, punching, outcome, server, history
<1>1. TypeOK'
    <2>1. ButtonTypeOK'
        BY DEF IInv, TypeOK, ButtonTypeOK
    <2>0. [day |-> result[1], stored |-> FALSE] \in [day : Nat, stored : BOOLEAN]
        <3>1. result \in Nat \X BOOLEAN
            BY DEF IInv, TypeOK, ResultTypeOK
        <3>2. QED
            BY <3>1
    <2>2. posts' \subseteq Post
        BY TodayNat DEF IInv, TypeOK, ButtonTypeOK, CountTypeOK, Post
    <2>3. ResultTypeOK'
        BY <2>0 DEF IInv, TypeOK, ResultTypeOK
    <2>4. CountTypeOK'
        BY <2>2 DEF IInv, TypeOK, CountTypeOK, ResultTypeOK, Post
    <2>5. QED
        BY <2>1, <2>2, <2>3, <2>4 DEF TypeOK
<1>2. LockInv' /\ OnePostAtATime'
    BY DEF IInv, TypeOK, ButtonTypeOK, CountTypeOK, Post, LockInv, OnePostAtATime
<1>3. PostsWereAsked' /\ ReasonInv'
    BY DEF IInv, TypeOK, ButtonTypeOK, CountTypeOK, Post, LockInv, PostsWereAsked, ReasonInv
<1>4. WaitingInv' /\ LateClickCarriesReason'
    BY DEF IInv, TypeOK, ButtonTypeOK, CountTypeOK, Post, LockInv, WaitingInv, LateClickCarriesReason
<1>5. QED
    BY <1>1, <1>2, <1>3, <1>4 DEF IInv

\* MountAnswered keeps the invariant.
LEMMA MountAnsweredInv == ASSUME IInv, MountAnswered PROVE IInv'
<1> USE PunchPageAssumption DEF MountAnswered, vars, day, position, punching, outcome, server, history
<1>1. TypeOK'
    <2>1. ButtonTypeOK'
        BY DEF IInv, TypeOK, ButtonTypeOK
    <2>2. posts' \subseteq Post
        BY TodayNat DEF IInv, TypeOK, ButtonTypeOK, CountTypeOK, Post
    <2>3. ResultTypeOK'
        BY TodayNat DEF IInv, TypeOK, ResultTypeOK, Post
    <2>4. CountTypeOK'
        BY <2>2 DEF IInv, TypeOK, CountTypeOK, ResultTypeOK, Post
    <2>5. QED
        BY <2>1, <2>2, <2>3, <2>4 DEF TypeOK
<1>2. LockInv' /\ OnePostAtATime'
    BY DEF IInv, TypeOK, ButtonTypeOK, CountTypeOK, Post, LockInv, OnePostAtATime
<1>3. PostsWereAsked' /\ ReasonInv'
    BY DEF IInv, TypeOK, ButtonTypeOK, CountTypeOK, Post, LockInv, PostsWereAsked, ReasonInv
<1>4. WaitingInv' /\ LateClickCarriesReason'
    BY DEF IInv, TypeOK, ButtonTypeOK, CountTypeOK, Post, LockInv, WaitingInv, LateClickCarriesReason
<1>5. QED
    BY <1>1, <1>2, <1>3, <1>4 DEF IInv

\* Located keeps the invariant.
LEMMA LocatedInv == ASSUME IInv, Located PROVE IInv'
<1> USE PunchPageAssumption DEF Located, vars, day, position, punching, outcome, server, history
<1>1. TypeOK'
    <2>1. ButtonTypeOK'
        BY DEF IInv, TypeOK, ButtonTypeOK
    <2>2. posts' \subseteq Post
        BY TodayNat DEF IInv, TypeOK, ButtonTypeOK, CountTypeOK, Post
    <2>3. ResultTypeOK'
        BY TodayNat DEF IInv, TypeOK, ResultTypeOK, Post
    <2>4. CountTypeOK'
        BY <2>2 DEF IInv, TypeOK, CountTypeOK, ResultTypeOK, Post
    <2>5. QED
        BY <2>1, <2>2, <2>3, <2>4 DEF TypeOK
<1>2. LockInv' /\ OnePostAtATime'
    BY DEF IInv, TypeOK, ButtonTypeOK, CountTypeOK, Post, LockInv, OnePostAtATime
<1>3. PostsWereAsked' /\ ReasonInv'
    BY DEF IInv, TypeOK, ButtonTypeOK, CountTypeOK, Post, LockInv, PostsWereAsked, ReasonInv
<1>4. WaitingInv' /\ LateClickCarriesReason'
    BY DEF IInv, TypeOK, ButtonTypeOK, CountTypeOK, Post, LockInv, WaitingInv, LateClickCarriesReason
<1>5. QED
    BY <1>1, <1>2, <1>3, <1>4 DEF IInv

\* LocatingFails keeps the invariant.
LEMMA LocatingFailsInv == ASSUME IInv, LocatingFails PROVE IInv'
<1> USE PunchPageAssumption DEF LocatingFails, vars, day, position, punching, outcome, server, history
<1>1. TypeOK'
    <2>1. ButtonTypeOK'
        BY DEF IInv, TypeOK, ButtonTypeOK
    <2>2. posts' \subseteq Post
        BY TodayNat DEF IInv, TypeOK, ButtonTypeOK, CountTypeOK, Post
    <2>3. ResultTypeOK'
        BY TodayNat DEF IInv, TypeOK, ResultTypeOK, Post
    <2>4. CountTypeOK'
        BY <2>2 DEF IInv, TypeOK, CountTypeOK, ResultTypeOK, Post
    <2>5. QED
        BY <2>1, <2>2, <2>3, <2>4 DEF TypeOK
<1>2. LockInv' /\ OnePostAtATime'
    BY DEF IInv, TypeOK, ButtonTypeOK, CountTypeOK, Post, LockInv, OnePostAtATime
<1>3. PostsWereAsked' /\ ReasonInv'
    BY DEF IInv, TypeOK, ButtonTypeOK, CountTypeOK, Post, LockInv, PostsWereAsked, ReasonInv
<1>4. WaitingInv' /\ LateClickCarriesReason'
    BY DEF IInv, TypeOK, ButtonTypeOK, CountTypeOK, Post, LockInv, WaitingInv, LateClickCarriesReason
<1>5. QED
    BY <1>1, <1>2, <1>3, <1>4 DEF IInv

\* Record keeps the invariant.
LEMMA RecordInv == ASSUME IInv, NEW p \in posts, Record(p) PROVE IInv'
<1> USE PunchPageAssumption DEF Record, vars, day, position, punching, outcome, server, history
<1>1. TypeOK'
    <2>1. ButtonTypeOK'
        BY DEF IInv, TypeOK, ButtonTypeOK
    <2>2. posts' \subseteq Post
        BY TodayNat DEF IInv, TypeOK, ButtonTypeOK, CountTypeOK, Post
    <2>3. ResultTypeOK'
        BY TodayNat DEF IInv, TypeOK, ResultTypeOK, Post
    <2>4. CountTypeOK'
        BY <2>2 DEF IInv, TypeOK, CountTypeOK, ResultTypeOK, Post
    <2>5. QED
        BY <2>1, <2>2, <2>3, <2>4 DEF TypeOK
<1>2. LockInv' /\ OnePostAtATime'
    BY DEF IInv, TypeOK, ButtonTypeOK, CountTypeOK, Post, LockInv, OnePostAtATime
<1>3. PostsWereAsked' /\ ReasonInv'
    BY DEF IInv, TypeOK, ButtonTypeOK, CountTypeOK, Post, LockInv, PostsWereAsked, ReasonInv
<1>4. WaitingInv' /\ LateClickCarriesReason'
    BY DEF IInv, TypeOK, ButtonTypeOK, CountTypeOK, Post, LockInv, WaitingInv, LateClickCarriesReason
<1>5. QED
    BY <1>1, <1>2, <1>3, <1>4 DEF IInv

\* Refuse keeps the invariant.
LEMMA RefuseInv == ASSUME IInv, NEW p \in posts, Refuse(p) PROVE IInv'
<1> USE PunchPageAssumption DEF Refuse, EndPost, vars, day, position, punching, outcome, server, history
<1>1. TypeOK'
    <2>1. ButtonTypeOK'
        BY DEF IInv, TypeOK, ButtonTypeOK
    <2>2. posts' \subseteq Post
        BY TodayNat DEF IInv, TypeOK, ButtonTypeOK, CountTypeOK, Post
    <2>3. ResultTypeOK'
        BY TodayNat DEF IInv, TypeOK, ResultTypeOK, Post
    <2>4. CountTypeOK'
        BY <2>2 DEF IInv, TypeOK, CountTypeOK, ResultTypeOK, Post
    <2>5. QED
        BY <2>1, <2>2, <2>3, <2>4 DEF TypeOK
<1>2. LockInv' /\ OnePostAtATime'
    BY DEF IInv, TypeOK, ButtonTypeOK, CountTypeOK, Post, LockInv, OnePostAtATime
<1>3. PostsWereAsked' /\ ReasonInv'
    BY DEF IInv, TypeOK, ButtonTypeOK, CountTypeOK, Post, LockInv, PostsWereAsked, ReasonInv
<1>4. WaitingInv' /\ LateClickCarriesReason'
    BY DEF IInv, TypeOK, ButtonTypeOK, CountTypeOK, Post, LockInv, WaitingInv, LateClickCarriesReason
<1>5. QED
    BY <1>1, <1>2, <1>3, <1>4 DEF IInv

\* Answered keeps the invariant.
LEMMA AnsweredInv == ASSUME IInv, NEW p \in posts, Answered(p) PROVE IInv'
<1> USE PunchPageAssumption DEF Answered, EndPost, vars, day, position, punching, outcome, server, history
<1>1. TypeOK'
    <2>1. ButtonTypeOK'
        BY DEF IInv, TypeOK, ButtonTypeOK
    <2>2. posts' \subseteq Post
        BY TodayNat DEF IInv, TypeOK, ButtonTypeOK, CountTypeOK, Post
    <2>3. ResultTypeOK'
        BY TodayNat DEF IInv, TypeOK, ResultTypeOK, Post
    <2>4. CountTypeOK'
        BY <2>2 DEF IInv, TypeOK, CountTypeOK, ResultTypeOK, Post
    <2>5. QED
        BY <2>1, <2>2, <2>3, <2>4 DEF TypeOK
<1>2. LockInv' /\ OnePostAtATime'
    BY DEF IInv, TypeOK, ButtonTypeOK, CountTypeOK, Post, LockInv, OnePostAtATime
<1>3. PostsWereAsked' /\ ReasonInv'
    BY DEF IInv, TypeOK, ButtonTypeOK, CountTypeOK, Post, LockInv, PostsWereAsked, ReasonInv
<1>4. WaitingInv' /\ LateClickCarriesReason'
    BY DEF IInv, TypeOK, ButtonTypeOK, CountTypeOK, Post, LockInv, WaitingInv, LateClickCarriesReason
<1>5. QED
    BY <1>1, <1>2, <1>3, <1>4 DEF IInv

\* ReasonsAnswered keeps the invariant.
LEMMA ReasonsAnsweredInv == ASSUME IInv, NEW p \in posts, ReasonsAnswered(p) PROVE IInv'
<1> USE PunchPageAssumption DEF ReasonsAnswered, EndPost, vars, day, position, punching, outcome, server, history
<1>1. TypeOK'
    <2>1. ButtonTypeOK'
        BY DEF IInv, TypeOK, ButtonTypeOK
    <2>2. posts' \subseteq Post
        BY TodayNat DEF IInv, TypeOK, ButtonTypeOK, CountTypeOK, Post
    <2>3. ResultTypeOK'
        BY TodayNat DEF IInv, TypeOK, ResultTypeOK, Post
    <2>4. CountTypeOK'
        BY <2>2 DEF IInv, TypeOK, CountTypeOK, ResultTypeOK, Post
    <2>5. QED
        BY <2>1, <2>2, <2>3, <2>4 DEF TypeOK
<1>2. LockInv' /\ OnePostAtATime'
    BY DEF IInv, TypeOK, ButtonTypeOK, CountTypeOK, Post, LockInv, OnePostAtATime
<1>3. PostsWereAsked' /\ ReasonInv'
    BY DEF IInv, TypeOK, ButtonTypeOK, CountTypeOK, Post, LockInv, PostsWereAsked, ReasonInv
<1>4. WaitingInv' /\ LateClickCarriesReason'
    BY DEF IInv, TypeOK, ButtonTypeOK, CountTypeOK, Post, LockInv, WaitingInv, LateClickCarriesReason
<1>5. QED
    BY <1>1, <1>2, <1>3, <1>4 DEF IInv

\* PostFails keeps the invariant.
LEMMA PostFailsInv == ASSUME IInv, NEW p \in posts, PostFails(p) PROVE IInv'
<1> USE PunchPageAssumption DEF PostFails, EndPost, Fault, vars, day, position, punching, outcome, server, history
<1>1. TypeOK'
    <2>1. ButtonTypeOK'
        BY DEF IInv, TypeOK, ButtonTypeOK
    <2>2. posts' \subseteq Post
        BY TodayNat DEF IInv, TypeOK, ButtonTypeOK, CountTypeOK, Post
    <2>3. ResultTypeOK'
        BY TodayNat DEF IInv, TypeOK, ResultTypeOK, Post
    <2>4. CountTypeOK'
        BY <2>2 DEF IInv, TypeOK, CountTypeOK, ResultTypeOK, Post
    <2>5. QED
        BY <2>1, <2>2, <2>3, <2>4 DEF TypeOK
<1>2. LockInv' /\ OnePostAtATime'
    BY DEF IInv, TypeOK, ButtonTypeOK, CountTypeOK, Post, LockInv, OnePostAtATime
<1>3. PostsWereAsked' /\ ReasonInv'
    BY DEF IInv, TypeOK, ButtonTypeOK, CountTypeOK, Post, LockInv, PostsWereAsked, ReasonInv
<1>4. WaitingInv' /\ LateClickCarriesReason'
    BY DEF IInv, TypeOK, ButtonTypeOK, CountTypeOK, Post, LockInv, WaitingInv, LateClickCarriesReason
<1>5. QED
    BY <1>1, <1>2, <1>3, <1>4 DEF IInv

\* StoreReason keeps the invariant.
LEMMA StoreReasonInv == ASSUME IInv, NEW f \in form, StoreReason(f) PROVE IInv'
<1> USE PunchPageAssumption DEF StoreReason, vars, day, position, punching, outcome, server, history
<1>1. TypeOK'
    <2>1. ButtonTypeOK'
        BY DEF IInv, TypeOK, ButtonTypeOK
    <2>2. posts' \subseteq Post
        BY TodayNat DEF IInv, TypeOK, ButtonTypeOK, CountTypeOK, Post
    <2>3. ResultTypeOK'
        BY TodayNat DEF IInv, TypeOK, ResultTypeOK, Post
    <2>4. CountTypeOK'
        BY <2>2 DEF IInv, TypeOK, CountTypeOK, ResultTypeOK, Post
    <2>5. QED
        BY <2>1, <2>2, <2>3, <2>4 DEF TypeOK
<1>2. LockInv' /\ OnePostAtATime'
    BY DEF IInv, TypeOK, ButtonTypeOK, CountTypeOK, Post, LockInv, OnePostAtATime
<1>3. PostsWereAsked' /\ ReasonInv'
    BY DEF IInv, TypeOK, ButtonTypeOK, CountTypeOK, Post, LockInv, PostsWereAsked, ReasonInv
<1>4. WaitingInv' /\ LateClickCarriesReason'
    BY DEF IInv, TypeOK, ButtonTypeOK, CountTypeOK, Post, LockInv, WaitingInv, LateClickCarriesReason
<1>5. QED
    BY <1>1, <1>2, <1>3, <1>4 DEF IInv

\* FormAnswered keeps the invariant.
LEMMA FormAnsweredInv == ASSUME IInv, NEW f \in form, FormAnswered(f) PROVE IInv'
<1> USE PunchPageAssumption DEF FormAnswered, vars, day, position, punching, outcome, server, history
<1>1. TypeOK'
    <2>1. ButtonTypeOK'
        BY DEF IInv, TypeOK, ButtonTypeOK
    <2>2. posts' \subseteq Post
        BY TodayNat DEF IInv, TypeOK, ButtonTypeOK, CountTypeOK, Post
    <2>3. ResultTypeOK'
        BY TodayNat DEF IInv, TypeOK, ResultTypeOK, Post
    <2>4. CountTypeOK'
        BY <2>2 DEF IInv, TypeOK, CountTypeOK, ResultTypeOK, Post
    <2>5. QED
        BY <2>1, <2>2, <2>3, <2>4 DEF TypeOK
<1>2. LockInv' /\ OnePostAtATime'
    BY DEF IInv, TypeOK, ButtonTypeOK, CountTypeOK, Post, LockInv, OnePostAtATime
<1>3. PostsWereAsked' /\ ReasonInv'
    BY DEF IInv, TypeOK, ButtonTypeOK, CountTypeOK, Post, LockInv, PostsWereAsked, ReasonInv
<1>4. WaitingInv' /\ LateClickCarriesReason'
    BY DEF IInv, TypeOK, ButtonTypeOK, CountTypeOK, Post, LockInv, WaitingInv, LateClickCarriesReason
<1>5. QED
    BY <1>1, <1>2, <1>3, <1>4 DEF IInv

\* FormRefused keeps the invariant.
LEMMA FormRefusedInv == ASSUME IInv, NEW f \in form, FormRefused(f) PROVE IInv'
<1> USE PunchPageAssumption DEF FormRefused, vars, day, position, punching, outcome, server, history
<1>1. TypeOK'
    <2>1. ButtonTypeOK'
        BY DEF IInv, TypeOK, ButtonTypeOK
    <2>2. posts' \subseteq Post
        BY TodayNat DEF IInv, TypeOK, ButtonTypeOK, CountTypeOK, Post
    <2>3. ResultTypeOK'
        BY TodayNat DEF IInv, TypeOK, ResultTypeOK, Post
    <2>4. CountTypeOK'
        BY <2>2 DEF IInv, TypeOK, CountTypeOK, ResultTypeOK, Post
    <2>5. QED
        BY <2>1, <2>2, <2>3, <2>4 DEF TypeOK
<1>2. LockInv' /\ OnePostAtATime'
    BY DEF IInv, TypeOK, ButtonTypeOK, CountTypeOK, Post, LockInv, OnePostAtATime
<1>3. PostsWereAsked' /\ ReasonInv'
    BY DEF IInv, TypeOK, ButtonTypeOK, CountTypeOK, Post, LockInv, PostsWereAsked, ReasonInv
<1>4. WaitingInv' /\ LateClickCarriesReason'
    BY DEF IInv, TypeOK, ButtonTypeOK, CountTypeOK, Post, LockInv, WaitingInv, LateClickCarriesReason
<1>5. QED
    BY <1>1, <1>2, <1>3, <1>4 DEF IInv

\* FormFails keeps the invariant.
LEMMA FormFailsInv == ASSUME IInv, NEW f \in form, FormFails(f) PROVE IInv'
<1> USE PunchPageAssumption DEF FormFails, Fault, vars, day, position, punching, outcome, server, history
<1>1. TypeOK'
    <2>1. ButtonTypeOK'
        BY DEF IInv, TypeOK, ButtonTypeOK
    <2>2. posts' \subseteq Post
        BY TodayNat DEF IInv, TypeOK, ButtonTypeOK, CountTypeOK, Post
    <2>3. ResultTypeOK'
        BY TodayNat DEF IInv, TypeOK, ResultTypeOK, Post
    <2>4. CountTypeOK'
        BY <2>2 DEF IInv, TypeOK, CountTypeOK, ResultTypeOK, Post
    <2>5. QED
        BY <2>1, <2>2, <2>3, <2>4 DEF TypeOK
<1>2. LockInv' /\ OnePostAtATime'
    BY DEF IInv, TypeOK, ButtonTypeOK, CountTypeOK, Post, LockInv, OnePostAtATime
<1>3. PostsWereAsked' /\ ReasonInv'
    BY DEF IInv, TypeOK, ButtonTypeOK, CountTypeOK, Post, LockInv, PostsWereAsked, ReasonInv
<1>4. WaitingInv' /\ LateClickCarriesReason'
    BY DEF IInv, TypeOK, ButtonTypeOK, CountTypeOK, Post, LockInv, WaitingInv, LateClickCarriesReason
<1>5. QED
    BY <1>1, <1>2, <1>3, <1>4 DEF IInv

\* Tick keeps the invariant.
LEMMA TickInv == ASSUME IInv, Tick PROVE IInv'
<1> USE PunchPageAssumption DEF Tick, vars, day, position, punching, outcome, server, history
<1>1. TypeOK'
    <2>1. ButtonTypeOK'
        BY DEF IInv, TypeOK, ButtonTypeOK
    <2>2. posts' \subseteq Post
        BY TodayNat DEF IInv, TypeOK, ButtonTypeOK, CountTypeOK, Post
    <2>3. ResultTypeOK'
        BY TodayNat DEF IInv, TypeOK, ResultTypeOK, Post
    <2>4. CountTypeOK'
        BY <2>2 DEF IInv, TypeOK, CountTypeOK, ResultTypeOK, Post
    <2>5. QED
        BY <2>1, <2>2, <2>3, <2>4 DEF TypeOK
<1>2. LockInv' /\ OnePostAtATime'
    BY DEF IInv, TypeOK, ButtonTypeOK, CountTypeOK, Post, LockInv, OnePostAtATime
<1>3. PostsWereAsked' /\ ReasonInv'
    BY DEF IInv, TypeOK, ButtonTypeOK, CountTypeOK, Post, LockInv, PostsWereAsked, ReasonInv
<1>4. WaitingInv' /\ LateClickCarriesReason'
    BY DEF IInv, TypeOK, ButtonTypeOK, CountTypeOK, Post, LockInv, WaitingInv, LateClickCarriesReason
<1>5. QED
    BY <1>1, <1>2, <1>3, <1>4 DEF IInv

\* Every step keeps the invariant.
LEMMA NextInv == IInv /\ [Next]_vars => IInv'
<1> SUFFICES ASSUME IInv, [Next]_vars PROVE IInv'
    OBVIOUS
<1>1. CASE UNCHANGED vars
    BY <1>1 DEF IInv, TypeOK, ButtonTypeOK, ResultTypeOK, CountTypeOK, LockInv, OnePostAtATime, PostsWereAsked, ReasonInv, WaitingInv,
               LateClickCarriesReason, vars, day, position, punching, outcome, server, history
<1>2. CASE Click \/ MarkOption \/ Confirm \/ PositionEffect \/ SwitchLanguage \/ SubmitForm
    BY <1>2, ClickInv, MarkOptionInv, ConfirmInv, PositionEffectInv, SwitchLanguageInv, SubmitFormInv
<1>3. CASE MountAnswered \/ Located \/ LocatingFails \/ Tick
    BY <1>3, MountAnsweredInv, LocatedInv, LocatingFailsInv, TickInv
<1>4. ASSUME NEW p \in posts, PostStep(p) \/ PostFails(p) PROVE IInv'
    BY <1>4, RecordInv, RefuseInv, AnsweredInv, ReasonsAnsweredInv, PostFailsInv DEF PostStep
<1>5. ASSUME NEW f \in form, FormStep(f) \/ FormFails(f) PROVE IInv'
    BY <1>5, StoreReasonInv, FormAnsweredInv, FormRefusedInv, FormFailsInv DEF FormStep
<1>6. QED
    BY <1>1, <1>2, <1>3, <1>4, <1>5 DEF Next

\* The invariant holds throughout.
THEOREM Invariance == Spec => []IInv
    BY InitInv, NextInv, PTL DEF Spec

\* The page's state, references and requests keep their types.
THEOREM TypeCorrect == Spec => []TypeOK
<1>1. IInv => TypeOK
    BY DEF IInv
<1>2. QED
    BY <1>1, Invariance, PTL

\* The button and the effect never have two punches under way: the check of
\* submitLockRef is enough, although the state that disables the button is
\* set only at the next paint.
THEOREM PostsOneByOne == Spec => []OnePostAtATime
<1>1. IInv => OnePostAtATime
    BY DEF IInv
<1>2. QED
    BY <1>1, Invariance, PTL

\* However late positions come and whenever the language is switched, every
\* punch sent has a call of handlePunch of its own.
THEOREM PostsAsked == Spec => []PostsWereAsked
<1>1. IInv => PostsWereAsked
    BY DEF IInv
<1>2. QED
    BY <1>1, Invariance, PTL

\* No more punches carry a reason than were confirmed in the dialog.
THEOREM ReasonsUsedOnce == Spec => []ReasonUsedOnce
<1>1. IInv => ReasonUsedOnce
    BY DEF IInv, TypeOK, ButtonTypeOK, CountTypeOK, ReasonInv, ReasonUsedOnce
<1>2. QED
    BY <1>1, Invariance, PTL

\* A punch asked for after the shift of a working day carries a reason, also
\* when the language is switched while it waits, unless the button has sent
\* another meanwhile.
THEOREM LatePunchesCarryReasons == Spec => []LateClickCarriesReason
<1>1. IInv => LateClickCarriesReason
    BY DEF IInv
<1>2. QED
    BY <1>1, Invariance, PTL

=============================================================================
