----------------------------- MODULE PunchPage -----------------------------
(***************************************************************************)
(* The punch page (frontend app/punch, hooks useGeolocation and            *)
(* useMyProfile, LateLeaveReasonModal): one button that asks for a         *)
(* position, perhaps for a late-leave reason, and sends POST               *)
(* /api/attendance/punch; then the reason form of a tardy day.             *)
(*                                                                         *)
(* The browser runs one handler at a time, and each is one action.  The    *)
(* effect that follows a new position runs after the paint, so that a      *)
(* click may come between the two, but no answer does.  Time counts two    *)
(* instants a day: before the end of the shift, and after it.  What the    *)
(* server makes of a punch is AttendanceDay's subject: here it is accepted *)
(* or refused, tardy or not.                                               *)
(***************************************************************************)
EXTENDS Integers

CONSTANTS
    None,
    Reasons,    \* the options of the late-leave dialog
    Default,    \* the one preselected: PERSONAL
    Mounts,     \* <<local guess, calendar's answer>> for the day of the mount
    EndOfTime,  \* bound: instants
    MaxClicks,  \* bound: clicks on the punch button and the language
    MaxFaults   \* bound: answers that fail or get lost

Workdays == {"WORKDAY", "MAKEUP_WORKDAY"}
Weekend == {"REST_DAY", "REGULAR_LEAVE"}
Kinds == Workdays \union Weekend \union {"NATIONAL_HOLIDAY"}

ASSUME PunchPageAssumption ==
    /\ None \notin Reasons /\ Default \in Reasons
    /\ Mounts \subseteq Kinds \X Kinds
    /\ EndOfTime \in Nat /\ MaxClicks \in Nat /\ MaxFaults \in Nat

VARIABLES
    now,        \* the clock
    calendar,   \* the calendar's kind of the day of the mount
    kind,       \* todayKind
    profile,    \* whether /api/auth/me has been answered
    fix,        \* whether coordinates are known
    locating,   \* position.loading
    painted,    \* a position was painted, or the language switched, and the
                \* effect has not run yet
    pending,    \* pendingPunch
    lock,       \* submitLockRef
    chosen,     \* lateReasonRef
    modal,      \* reasonModalOpen
    option,     \* lateReason, the option marked
    posts,      \* punch requests under way
    result,     \* punchResult: <<summary's day, tardy>>, or None
    form,       \* reason requests under way, as the day of their summary
    formBusy,   \* reasonSubmitting
    formDone,   \* reasonSubmitted
    punches,    \* the server: how many punches it recorded
    reasons,    \* the server: the days that have a tardiness reason
    clicks, faults,
    asked,      \* history: calls of handlePunch that got past its lock
    sent,       \* history: punch requests sent
    confirms,   \* history: reasons confirmed in the dialog
    carried,    \* history: punch requests sent with a reason
    due,        \* history: the punch waiting for a position needed a reason
    overtaken   \* history: while it waited, the button sent another at once

position == <<fix, locating, painted>>
punching == <<pending, lock, chosen, modal, option, posts>>
outcome == <<result, form, formBusy, formDone>>
day == <<calendar, kind, profile>>
server == <<punches, reasons>>
history == <<asked, sent, confirms, carried, due, overtaken>>
vars == <<now, day, position, punching, outcome, server, clicks, faults, history>>

Today == now \div 2
AfterShift == now % 2 = 1

Init ==
    /\ now = 0 /\ (\E m \in Mounts : kind = m[1] /\ calendar = m[2]) /\ profile = FALSE
    /\ fix = FALSE /\ locating = FALSE /\ painted = FALSE
    /\ pending = FALSE /\ lock = FALSE /\ chosen = None /\ modal = FALSE /\ option = Default
    /\ posts = {} /\ result = None /\ form = {} /\ formBusy = FALSE /\ formDone = FALSE
    /\ punches = 0 /\ reasons = {} /\ clicks = 0 /\ faults = 0
    /\ asked = 0 /\ sent = 0 /\ confirms = 0 /\ carried = 0 /\ due = FALSE /\ overtaken = FALSE

----------------------------------------------------------------------------
(* The page.                                                               *)

NeedsLateReason == kind \in Workdays /\ profile /\ AfterShift

\* submitPunch: the coordinates are known; the reason is what lateReasonRef
\* holds; late tells whether the click needed one, over whether the punch was
\* left waiting when another was sent.
Submit(reason, late, over) ==
    /\ lock' = TRUE
    /\ posts' = posts \union {[n |-> sent, reason |-> reason, late |-> late, over |-> over,
                                 step |-> "sent", day |-> Today, tardy |-> FALSE]}
    /\ sent' = sent + 1
    /\ carried' = IF reason = None THEN carried ELSE carried + 1

\* handlePunch, past its check of the lock.
HandlePunch(reason, late) ==
    /\ ~lock
    /\ asked' = asked + 1
    /\ result' = None /\ formDone' = FALSE
    /\ IF fix
       THEN Submit(reason, late, FALSE) /\ overtaken' = pending /\ UNCHANGED <<pending, locating, due>>
       ELSE /\ pending' = TRUE /\ locating' = TRUE /\ due' = late /\ overtaken' = FALSE
            /\ UNCHANGED <<lock, posts, sent, carried>>
    /\ UNCHANGED <<now, day, fix, painted, form, formBusy, server, faults>>

\* Mutant: the dialog opens only when the punch could be sent at once.
ClickAskingLate ==
    /\ clicks < MaxClicks /\ clicks' = clicks + 1
    /\ ~modal /\ ~locating /\ ~lock /\ kind \notin Weekend
    /\ IF NeedsLateReason /\ chosen = None /\ fix
       THEN /\ modal' = TRUE /\ option' = Default
            /\ UNCHANGED <<now, day, position, pending, lock, chosen, posts, outcome, server,
                           faults, history>>
       ELSE HandlePunch(chosen, NeedsLateReason) /\ UNCHANGED <<chosen, modal, option, confirms>>

\* handlePunchClick: the button is enabled unless a position or an answer is
\* awaited or it is a weekend; the dialog covers it.
Click ==
    /\ clicks < MaxClicks /\ clicks' = clicks + 1
    /\ ~modal /\ ~locating /\ ~lock /\ kind \notin Weekend
    /\ IF NeedsLateReason /\ chosen = None
       THEN /\ modal' = TRUE /\ option' = Default
            /\ UNCHANGED <<now, day, position, pending, lock, chosen, posts, outcome, server,
                           faults, history>>
       ELSE HandlePunch(chosen, NeedsLateReason) /\ UNCHANGED <<chosen, modal, option, confirms>>

MarkOption ==
    /\ modal /\ \E r \in Reasons \ {option} : option' = r
    /\ UNCHANGED <<now, day, position, pending, lock, chosen, modal, posts, outcome, server,
                   clicks, faults, history>>

\* handleReasonConfirm: the dialog has no other way out.  If an effect has
\* sent a punch behind it, the confirmed one is dropped.
Confirm ==
    /\ modal /\ modal' = FALSE
    /\ chosen' = option /\ confirms' = confirms + 1
    /\ IF lock
       THEN UNCHANGED <<now, day, position, pending, lock, posts, outcome, server, faults,
                        asked, sent, carried, due, overtaken>>
       ELSE HandlePunch(option, TRUE)
    /\ UNCHANGED <<option, clicks>>

\* Mutant: the effect does not look at the lock.
EffectWithoutLock ==
    /\ painted /\ painted' = FALSE
    /\ IF pending /\ fix
       THEN pending' = FALSE /\ Submit(chosen, due, overtaken)
       ELSE UNCHANGED <<pending, lock, posts, sent, carried>>
    /\ UNCHANGED <<now, day, fix, locating, chosen, modal, option, outcome, server,
                   clicks, faults, asked, confirms, due, overtaken>>

\* Mutant: the effect does not clear pendingPunch.
EffectStaysPending ==
    /\ painted /\ painted' = FALSE
    /\ IF pending /\ fix /\ ~lock
       THEN UNCHANGED pending /\ Submit(chosen, due, overtaken)
       ELSE UNCHANGED <<pending, lock, posts, sent, carried>>
    /\ UNCHANGED <<now, day, fix, locating, chosen, modal, option, outcome, server,
                   clicks, faults, asked, confirms, due, overtaken>>

\* The effect on the coordinates and the language.
PositionEffect ==
    /\ painted /\ painted' = FALSE
    /\ IF pending /\ fix /\ ~lock
       THEN pending' = FALSE /\ Submit(chosen, due, overtaken)
       ELSE UNCHANGED <<pending, lock, posts, sent, carried>>
    /\ UNCHANGED <<now, day, fix, locating, chosen, modal, option, outcome, server,
                   clicks, faults, asked, confirms, due, overtaken>>

SwitchLanguage ==
    /\ clicks < MaxClicks /\ clicks' = clicks + 1
    /\ ~modal /\ ~painted /\ painted' = TRUE
    /\ UNCHANGED <<now, day, fix, locating, punching, outcome, server, faults, history>>

\* handleReasonSubmit, from the form a tardy result shows.
SubmitForm ==
    /\ result # None /\ result[2] /\ ~formDone /\ ~formBusy
    /\ form' = form \union {[day |-> result[1], stored |-> FALSE]} /\ formBusy' = TRUE
    /\ UNCHANGED <<now, day, position, punching, result, formDone, server, clicks, faults, history>>

----------------------------------------------------------------------------
(* Answers: none is handled between a paint and its effect.                *)

Fault == faults < MaxFaults /\ faults' = faults + 1

MountAnswered ==
    /\ ~painted
    /\ \/ kind # calendar /\ Today = 0 /\ kind' = calendar /\ UNCHANGED profile
       \/ ~profile /\ profile' = TRUE /\ UNCHANGED kind
    /\ UNCHANGED <<now, calendar, position, punching, outcome, server, clicks, faults, history>>

Located ==
    /\ locating /\ ~painted
    /\ locating' = FALSE /\ fix' = TRUE /\ painted' = TRUE
    /\ UNCHANGED <<now, day, punching, outcome, server, clicks, faults, history>>

\* No permission, no position or a timeout: the request stays pending.
LocatingFails ==
    /\ locating /\ ~painted /\ locating' = FALSE
    /\ UNCHANGED <<now, day, fix, painted, punching, outcome, server, clicks, faults, history>>

\* Mutant: the reason stays for the next punch.
EndPostKeepingReason(p) ==
    /\ posts' = posts \ {p} /\ lock' = FALSE
    /\ UNCHANGED <<now, day, position, pending, chosen, modal, option, form, formBusy, clicks, history>>

\* Mutant: the lock is never given back.
EndPostLocked(p) ==
    /\ posts' = posts \ {p} /\ chosen' = None
    /\ UNCHANGED <<now, day, position, pending, lock, modal, option, form, formBusy, clicks, history>>

\* The punch ends: the button is enabled again and the reason forgotten.
EndPost(p) ==
    /\ posts' = posts \ {p} /\ lock' = FALSE /\ chosen' = None
    /\ UNCHANGED <<now, day, position, pending, modal, option, form, formBusy, clicks, history>>

\* The server takes the punch, or refuses it (too close, a rest day).
Record(p) ==
    /\ p.step = "sent"
    /\ \E tardy \in BOOLEAN :
          posts' = (posts \ {p}) \union {[p EXCEPT !.step = "recorded", !.day = Today, !.tardy = tardy]}
    /\ punches' = punches + 1
    /\ UNCHANGED <<now, day, position, pending, lock, chosen, modal, option, outcome, reasons,
                   clicks, faults, history>>

Refuse(p) ==
    /\ p.step = "sent" /\ ~painted
    /\ EndPost(p) /\ UNCHANGED <<result, formDone, server, faults>>

\* A tardy result is followed by a look whether it has its reason.
Answered(p) ==
    /\ p.step = "recorded" /\ ~painted
    /\ result' = <<p.day, p.tardy>>
    /\ IF p.tardy
       THEN /\ posts' = (posts \ {p}) \union {[p EXCEPT !.step = "asking"]}
            /\ UNCHANGED <<now, day, position, pending, lock, chosen, modal, option, form,
                           formBusy, formDone, server, clicks, faults, history>>
       ELSE EndPost(p) /\ UNCHANGED <<formDone, server, faults>>

ReasonsAnswered(p) ==
    /\ p.step = "asking" /\ ~painted
    /\ formDone' = (formDone \/ result[1] \in reasons)
    /\ EndPost(p) /\ UNCHANGED <<result, server, faults>>

\* The request or its answer is lost; the punch may have been recorded.
PostFails(p) ==
    /\ Fault /\ ~painted
    /\ EndPost(p) /\ UNCHANGED <<result, formDone, server>>

\* The server keeps one reason per summary.
StoreReason(f) ==
    /\ ~f.stored /\ f.day \notin reasons
    /\ reasons' = reasons \union {f.day}
    /\ form' = (form \ {f}) \union {[f EXCEPT !.stored = TRUE]}
    /\ UNCHANGED <<now, day, position, punching, result, formBusy, formDone, punches,
                   clicks, faults, history>>

FormAnswered(f) ==
    /\ f.stored /\ ~painted
    /\ form' = form \ {f} /\ formBusy' = FALSE /\ formDone' = TRUE
    /\ UNCHANGED <<now, day, position, punching, result, server, clicks, faults, history>>

FormRefused(f) ==
    /\ ~f.stored /\ f.day \in reasons /\ ~painted
    /\ form' = form \ {f} /\ formBusy' = FALSE
    /\ UNCHANGED <<now, day, position, punching, result, formDone, server, clicks, faults, history>>

FormFails(f) ==
    /\ Fault /\ ~painted
    /\ form' = form \ {f} /\ formBusy' = FALSE
    /\ UNCHANGED <<now, day, position, punching, result, formDone, server, clicks, history>>

Tick ==
    /\ now < EndOfTime /\ ~painted /\ now' = now + 1
    /\ UNCHANGED <<day, position, punching, outcome, server, clicks, faults, history>>

PostStep(p) == Record(p) \/ Refuse(p) \/ Answered(p) \/ ReasonsAnswered(p)
FormStep(f) == StoreReason(f) \/ FormAnswered(f) \/ FormRefused(f)

Next ==
    \/ Click \/ MarkOption \/ Confirm \/ PositionEffect \/ SwitchLanguage \/ SubmitForm
    \/ MountAnswered \/ Located \/ LocatingFails
    \/ \E p \in posts : PostStep(p) \/ PostFails(p)
    \/ \E f \in form : FormStep(f) \/ FormFails(f)
    \/ Tick

Spec == Init /\ [][Next]_vars

\* Effects run, the position request has a timeout, the server answers.
FairSpec ==
    /\ Spec
    /\ WF_vars(PositionEffect) /\ WF_vars(Located \/ LocatingFails)
    /\ WF_vars(\E p \in posts : PostStep(p)) /\ WF_vars(\E f \in form : FormStep(f))

----------------------------------------------------------------------------
(* Properties.                                                             *)

Post == [n : Nat, reason : Reasons \union {None}, late : BOOLEAN, over : BOOLEAN,
         step : {"sent", "recorded", "asking"}, day : Nat, tardy : BOOLEAN]

ButtonTypeOK ==
    /\ kind \in Kinds /\ calendar \in Kinds /\ profile \in BOOLEAN
    /\ fix \in BOOLEAN /\ locating \in BOOLEAN /\ painted \in BOOLEAN
    /\ pending \in BOOLEAN /\ lock \in BOOLEAN /\ chosen \in Reasons \union {None}
    /\ modal \in BOOLEAN /\ option \in Reasons /\ due \in BOOLEAN /\ overtaken \in BOOLEAN

ResultTypeOK ==
    /\ result \in (Nat \X BOOLEAN) \union {None}
    /\ form \subseteq [day : Nat, stored : BOOLEAN]
    /\ formBusy \in BOOLEAN /\ formDone \in BOOLEAN

CountTypeOK ==
    /\ now \in Nat /\ punches \in Nat /\ reasons \subseteq Nat /\ clicks \in Nat /\ faults \in Nat
    /\ asked \in Nat /\ sent \in Nat /\ confirms \in Nat /\ carried \in Nat

\* The page's state, references and requests have their types.
TypeOK == ButtonTypeOK /\ posts \subseteq Post /\ ResultTypeOK /\ CountTypeOK

\* The button's path and the effect's path never have two punches under way.
OnePostAtATime == \A p, q \in posts : p = q

\* However positions, languages and answers come, every punch sent, and one
\* still waiting for its position, has a call of handlePunch of its own.
PostsWereAsked == sent + (IF pending THEN 1 ELSE 0) <= asked

\* No more punches carry a reason than were confirmed in the dialog: one that
\* is forgotten with its punch is not sent with another.
ReasonUsedOnce == carried <= confirms

\* A punch asked for after the shift of a working day carries a reason, on
\* the way through the dialog, the position request and its effect too,
\* unless it was left waiting when the button sent another at once.
LateClickCarriesReason == \A p \in posts : p.late /\ ~p.over => p.reason # None

\* The dialog's comment and the design ask for a reason with every such
\* punch, on both paths that send one.
EveryLatePunchHasReason == \A p \in posts : p.late => p.reason # None

\* The button does not stay disabled: a position and a punch are answered.
ButtonComesBack == []<>(~locating /\ ~lock)

=============================================================================
