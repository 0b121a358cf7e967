----------------------------- MODULE Attendance -----------------------------
(***************************************************************************)
(* One person's clock: the sessions of each day, the day's own record,     *)
(* the beat that says they are still there, the sweep that closes what     *)
(* they forgot, a dispute of one day, HR's own correction of a row,        *)
(* the reader by the door and the mark-absent command (attendance/         *)
(* punches.py, regularisation.py, permissions.py; ClockWidget.tsx,         *)
(* PresenceBeat.tsx, RegularisationQueue.tsx).                             *)
(*                                                                         *)
(* A punch and a sweep read first and write later, the sweep even after    *)
(* the hour has gone: a check-in in one transaction, which sees what had   *)
(* been committed, the others outside any.  Nothing in the database keeps  *)
(* a day from having two open sessions; the unique day record only makes   *)
(* a second first punch wait.                                              *)
(* A payroll run may lock the first day's period, and does not ask whether *)
(* it is over.                                                             *)
(***************************************************************************)
EXTENDS Integers, FiniteSets

CONSTANTS
    Sessions,     \* 1..n: the sessions that can be opened, by id
    Tabs,         \* the browser tabs (or phones) of this person
    Disputes,     \* what can be asked for: a day, a clock-out, a status
    Dates,        \* the dates the mark-absent command is run for
    Trips,        \* the days of this month an approved field visit covers
    Amended,      \* what HR may put into a day's row: status, clock-out
    Swipes,       \* the reader's events, each with the time it was made
    HR, Worker,   \* HR's own request, and the nightly task
    Hours,        \* the hours told apart in a day
    OfficeEnd,    \* which of them the office closes at
    LastDay       \* days are 0..LastDay

ASSUME AttendanceAssumption ==
    /\ Sessions \subseteq Nat
    /\ Hours \in Nat \ {0}
    /\ OfficeEnd \in 0 .. Hours - 1
    /\ LastDay \in Nat
    /\ \A asked \in Disputes :
        /\ asked.day \in 0 .. LastDay
        /\ asked.out \in 0 .. Hours * (LastDay + 1)
        /\ asked.status \in {"present", "absent", "keep"}
    /\ Dates \subseteq 0 .. LastDay /\ Trips \subseteq 0 .. LastDay
    /\ Amended \subseteq [day : 0 .. LastDay, out : 0 .. Hours * (LastDay + 1),
                           status : {"present", "absent"}]
    /\ Swipes \subseteq [kind : {"in", "out"}, at : 0 .. Hours * (LastDay + 1) - 1]
    /\ HR \notin Tabs /\ Worker \notin Tabs /\ HR # Worker

Callers == Tabs \cup {HR, Worker}
Days == 0 .. LastDay
Never == Hours * (LastDay + 1)         \* an empty timestamp
Times == 0 .. Never - 1
Day(time) == time \div Hours
Closing(day) == day * Hours + OfficeEnd
Period == 0                            \* the day payroll locks

Marks == {"present", "absent"}         \* late and half days are present

VARIABLES
    now,
    row,       \* AttendanceLog by day: its status and last clock-out
    sess,      \* AttendanceSession by id
    shown,     \* what each tab's button was drawn from: is_clocked_in
    req,       \* the request of each caller, with what it has read
    claim,     \* the RegularisationRequest
    locked,    \* PayrollRun.locked_at
    crossed    \* ghost: a request wrote over what it had not read

vars == <<now, row, sess, shown, req, claim, locked, crossed>>

NoRow == [status |-> "none", out |-> Never]
NoSession == [day |-> LastDay + 1, in |-> Never, out |-> Never,
              seen |-> Never, auto |-> FALSE]
Idle == [step |-> "idle"]
NoClaim == [state |-> "none", day |-> 0, out |-> Never, status |-> "keep"]

Row == [status : Marks \cup {"none"}, out : Times \cup {Never}]
Session == [day : 0 .. LastDay + 1, in : Times \cup {Never},
            out : Times \cup {Never}, seen : Times \cup {Never},
            auto : BOOLEAN]

TypeOK ==
    /\ now \in Times
    /\ row \in [Days -> Row]
    /\ sess \in [Sessions -> Session]
    /\ shown \in [Tabs -> BOOLEAN]
    /\ DOMAIN req = Callers
    /\ \A c \in Callers :
        \/ req[c] \in {Idle, [step |-> "look"], [step |-> "approve"]}
        \/ req[c] \in [step : {"out"}, s : Sessions]
        \/ /\ req[c].step = "in"
           /\ req[c].s \in Sessions
        \/ /\ req[c].step = "sweep"
           /\ DOMAIN req[c].end \subseteq Sessions
           /\ \A s \in DOMAIN req[c].end : req[c].end[s] \in Times
    /\ claim \in [state : {"none", "pending", "approved", "cancelled"},
                  day : Days, out : Times \cup {Never},
                  status : Marks \cup {"keep"}]
    /\ locked \in BOOLEAN /\ crossed \in BOOLEAN

Init ==
    /\ now = 0
    /\ row = [d \in Days |-> NoRow]
    /\ sess = [s \in Sessions |-> NoSession]
    /\ shown = [t \in Tabs |-> FALSE]
    /\ req = [c \in Callers |-> Idle]
    /\ claim = NoClaim
    /\ locked = FALSE /\ crossed = FALSE

-----------------------------------------------------------------------------
(* The sessions of a day.                                                  *)

Today == Day(now)
Of(d) == {s \in Sessions : sess[s].day = d}
OpenOn(d) == {s \in Of(d) : sess[s].out = Never}
Punches(d) == [s \in Of(d) |-> sess[s].out]

\* mutant: only the sessions a beat was heard of
StaleHeard ==
    {s \in Sessions : sess[s].day < Today /\ sess[s].out = Never
                         /\ sess[s].seen # Never}

Stale == {s \in Sessions : sess[s].day < Today /\ sess[s].out = Never}

\* The session's id is taken when the request begins.
Unused == {s \in Sessions :
              /\ sess[s] = NoSession
              /\ \A c \in Callers : req[c].step = "in" => req[c].s # s}

Lowest(S) == CHOOSE s \in S : \A t \in S : s <= t

\* Today's record has been inserted and not committed: the next insert waits.
RowPending(d) ==
    \E c \in Callers : req[c].step = "in" /\ req[c].first /\ d = Today

\* The day's record is made or, if it said absent and this is its first
\* session, corrected.
Arrived(d) ==
    [row EXCEPT ![d].status =
        IF @ = "none" \/ (@ = "absent" /\ Of(d) = {}) THEN "present" ELSE @]

Begun(d, time) == [NoSession EXCEPT !.day = d, !.in = time]

Begin(c, r) == req[c] = Idle /\ req' = [req EXCEPT ![c] = r]

-----------------------------------------------------------------------------
(* The clock button.                                                       *)

\* mutant: a second session is opened beside the one that is running
MayOpenAlways(d) == TRUE

MayOpen(d) == OpenOn(d) = {}

\* Refused while a session is open: the tab says so and shows what it showed.
PunchIn(t) ==
    /\ ~shown[t]
    /\ ~RowPending(Today)
    /\ MayOpen(Today)
    /\ Unused # {}
    /\ Begin(t, [step |-> "in", s |-> Lowest(Unused),
                 first |-> row[Today] = NoRow, saw |-> Punches(Today)])
    /\ UNCHANGED <<now, row, sess, shown, claim, locked, crossed>>

\* The day's summary is read next, for the answer.
OpenSession(t) ==
    /\ req[t].step = "in"
    /\ row' = Arrived(Today)
    /\ sess' = [sess EXCEPT ![req[t].s] = Begun(Today, now)]
    /\ crossed' = (crossed \/ Punches(Today) # req[t].saw)
    /\ req' = [req EXCEPT ![t] = [step |-> "look"]]
    /\ UNCHANGED <<now, shown, claim, locked>>

\* The newest session open today; nothing open is refused.
PunchOut(t) ==
    /\ shown[t]
    /\ \E s \in OpenOn(Today) :
        /\ \A other \in OpenOn(Today) : sess[other].in <= sess[s].in
        /\ Begin(t, [step |-> "out", s |-> s])
    /\ UNCHANGED <<now, row, sess, shown, claim, locked, crossed>>

CloseSession(t) ==
    /\ req[t].step = "out"
    /\ sess' = [sess EXCEPT ![req[t].s].out = now]
    /\ row' = [row EXCEPT ![Today].out = now]
    /\ crossed' = (crossed \/ sess[req[t].s].out # Never)
    /\ req' = [req EXCEPT ![t] = [step |-> "look"]]
    /\ UNCHANGED <<now, shown, claim, locked>>

\* Every minute, for as long as the tab believes the clock is running: the one
\* column it writes on the session of today that it finds open is its own.
Beat(t) ==
    /\ shown[t]
    /\ OpenOn(Today) # {}
    /\ sess' = [sess EXCEPT ![Lowest(OpenOn(Today))].seen = now]
    /\ UNCHANGED <<now, row, shown, req, claim, locked, crossed>>

-----------------------------------------------------------------------------
(* Reading the day, which sweeps first, and the nightly sweep.             *)

\* Where a forgotten session ends: at the last beat, else at closing time, and
\* never before it began.
EndOf(x) ==
    LET heard == x.seen # Never /\ x.seen > x.in
        end == IF heard THEN x.seen ELSE Closing(x.day)
    IN  IF end <= x.in THEN x.in ELSE end

Ends == [s \in Stale |-> EndOf(sess[s])]

Swept(end) ==
    [s \in Sessions |->
        IF s \in DOMAIN end
        THEN [sess[s] EXCEPT !.out = end[s], !.auto = TRUE]
        ELSE sess[s]]

\* The widget mounts or looks again, or a punch is answered with the day: the
\* answer redraws the button of that tab alone.
Answered(t, after) ==
    shown' = [shown EXCEPT ![t] = \E s \in Of(Today) : after[s].out = Never]

Look(t) ==
    /\ req[t].step \in {"idle", "look"}
    /\ IF Stale = {}
       THEN /\ req' = [req EXCEPT ![t] = Idle]
            /\ Answered(t, sess)
       ELSE /\ req' = [req EXCEPT ![t] = [step |-> "sweep", end |-> Ends]]
            /\ UNCHANGED shown
    /\ UNCHANGED <<now, row, sess, claim, locked, crossed>>

SweepTask ==
    /\ Stale # {}
    /\ Begin(Worker, [step |-> "sweep", end |-> Ends])
    /\ UNCHANGED <<now, row, sess, shown, claim, locked, crossed>>

SweepSave(c) ==
    /\ req[c].step = "sweep"
    /\ sess' = Swept(req[c].end)
    /\ crossed' = (crossed \/ \E s \in DOMAIN req[c].end :
                                 sess[s].out \notin {Never, req[c].end[s]})
    /\ req' = [req EXCEPT ![c] = Idle]

TaskSaves ==
    /\ SweepSave(Worker)
    /\ UNCHANGED <<now, row, shown, claim, locked>>

LookSaves(t) ==
    /\ SweepSave(t)
    /\ Answered(t, sess')
    /\ UNCHANGED <<now, row, claim, locked>>

-----------------------------------------------------------------------------
(* The dispute of a day.                                                   *)

Raise(asked) ==
    /\ claim.state = "none"
    /\ asked.day <= Today
    /\ claim' = [state |-> "pending", day |-> asked.day, out |-> asked.out,
                 status |-> asked.status]
    /\ UNCHANGED <<now, row, sess, shown, req, locked, crossed>>

\* mutant: a closed month is corrected like any other
MayApproveAlways == claim.state = "pending"

\* Pending, and no locked payroll run covers the day.
MayApprove ==
    /\ claim.state = "pending"
    /\ ~(locked /\ claim.day = Period)

\* The queue's Approve, refused unless all that holds.  Reject is drawn too, but
\* sends its note under a name the server does not read, and is refused.
Decide ==
    /\ MayApprove
    /\ Begin(HR, [step |-> "approve"])
    /\ UNCHANGED <<now, row, sess, shown, claim, locked, crossed>>

\* The day's record takes what was asked for; its sessions stay as they are.
Corrected(x) ==
    [status |-> IF claim.status # "keep" THEN claim.status
                ELSE IF x = NoRow THEN "present" ELSE x.status,
     out |-> IF claim.out # Never THEN claim.out ELSE x.out]

Approve ==
    /\ req[HR].step = "approve"
    /\ ~RowPending(claim.day)
    /\ req' = [req EXCEPT ![HR] = Idle]
    /\ row' = [row EXCEPT ![claim.day] = Corrected(@)]
    /\ claim' = [claim EXCEPT !.state = "approved"]
    /\ crossed' = (crossed \/ ~MayApprove)
    /\ UNCHANGED <<now, sess, shown, locked>>

\* The person's own; what it races with is the decision.
Withdraw ==
    /\ claim.state = "pending"
    /\ claim' = [claim EXCEPT !.state = "cancelled"]
    /\ UNCHANGED <<now, row, sess, shown, req, locked, crossed>>

-----------------------------------------------------------------------------
(* Around it.                                                              *)

\* The command for those with a shift and no record, for the date it is given:
\* present for a day of approved leave or of a visit.
MarkAbsent(d, status) ==
    /\ row[d] = NoRow
    /\ ~RowPending(d)
    /\ row' = [row EXCEPT ![d].status = status]
    /\ UNCHANGED <<now, sess, shown, req, claim, locked, crossed>>

\* Today's row, or one of this month that an approved visit covers.
MayAmend(d) == d = Today \/ d \in Trips

\* HR's dialog sends the whole row.
Amend(x) ==
    /\ MayAmend(x.day)
    /\ row[x.day] # NoRow
    /\ row' = [row EXCEPT ![x.day] = [status |-> x.status, out |-> x.out]]
    /\ UNCHANGED <<now, sess, shown, req, claim, locked, crossed>>

\* An event of the reader is applied when the command runs, as of the time it
\* was made, and may be sent again.  A session it opens behind one that was
\* worked later is what `crossed` marks.
SwipeIn(at) ==
    /\ at <= now
    /\ ~RowPending(Day(at))
    /\ MayOpen(Day(at))
    /\ Unused # {}
    /\ row' = Arrived(Day(at))
    /\ sess' = [sess EXCEPT ![Lowest(Unused)] = Begun(Day(at), at)]
    /\ crossed' = (crossed \/ \E s \in Of(Day(at)) : sess[s].out > at)
    /\ UNCHANGED <<now, shown, req, claim, locked>>

SwipeOut(at) ==
    /\ at <= now
    /\ \E s \in OpenOn(Day(at)) :
        /\ \A other \in OpenOn(Day(at)) : sess[other].in <= sess[s].in
        /\ sess[s].in <= at
        /\ sess' = [sess EXCEPT ![s].out = at]
    /\ row' = [row EXCEPT ![Day(at)].out = at]
    /\ UNCHANGED <<now, shown, req, claim, locked, crossed>>

Swipe(e) == IF e.kind = "in" THEN SwipeIn(e.at) ELSE SwipeOut(e.at)

\* Payroll closes the period of the first day.
Lock ==
    /\ ~locked
    /\ locked' = TRUE
    /\ UNCHANGED <<now, row, sess, shown, req, claim, crossed>>

Tick ==
    /\ now + 1 < Never
    /\ \A t \in Tabs : req[t].step \notin {"in", "out"}
    /\ now' = now + 1
    /\ UNCHANGED <<row, sess, shown, req, claim, locked, crossed>>

Next ==
    \/ \E t \in Tabs :
        \/ PunchIn(t) \/ OpenSession(t)
        \/ PunchOut(t) \/ CloseSession(t)
        \/ Beat(t)
        \/ Look(t) \/ LookSaves(t)
    \/ SweepTask \/ TaskSaves
    \/ \E asked \in Disputes : Raise(asked)
    \/ Decide \/ Approve \/ Withdraw
    \/ \E d \in Dates, status \in Marks : MarkAbsent(d, status)
    \/ \E x \in Amended : Amend(x)
    \/ \E e \in Swipes : Swipe(e)
    \/ Lock
    \/ Tick

Spec == Init /\ [][Next]_vars

\* The nightly task is scheduled for every night and runs to its end.
FairSpec == Spec /\ WF_vars(SweepTask) /\ WF_vars(TaskSaves)

-----------------------------------------------------------------------------
(* Properties.                                                             *)

\* Every hour is counted once and on the day it was worked: the sessions of a
\* day begin and end on it and do not overlap, whoever closed them and in
\* whichever tab.  "Without that, a double-tap on the button produces two open
\* sessions and the day's total silently doubles."  Two check-ins, or two
\* answers to one reading, that overtake each other, and a swipe applied behind
\* later work, are what `crossed` marks.
HoursCountedOnce ==
    ~crossed =>
        \A s \in Sessions : sess[s] # NoSession =>
            /\ sess[s].out # Never =>
                   sess[s].in <= sess[s].out /\ Day(sess[s].out) = sess[s].day
            /\ \A t \in Of(sess[s].day) \ {s} :
                   sess[s].out <= sess[t].in \/ sess[t].out <= sess[s].in

\* Three writers of a past day never ask payroll.
NeverAsksPayroll(d) ==
    \/ \E status \in Marks : MarkAbsent(d, status)
    \/ \E x \in Amended : x.day = d /\ Amend(x)
    \/ \E e \in Swipes : Day(e.at) = d /\ Swipe(e)

\* Once its day is over, the record a locked payslip was computed from is not
\* rewritten by a correction HR agrees to, nor by a clock, a sweep or a beat that
\* comes late: what does change it is one of the three writers that never ask
\* payroll.  A correction overtaken by the lock is what `crossed` marks.
LockedDayStands ==
    [][locked /\ Period < Today /\ ~crossed' /\ row'[Period] # row[Period]
       => NeverAsksPayroll(Period)]_vars

\* "Not a silent rewrite of a closed month", whoever writes; the code does not keep it.
ClosedMonthStands ==
    [][locked /\ Period < Today /\ ~crossed' => row'[Period] = row[Period]]_vars

\* A clock left running on a day that has ended is stopped, though nobody
\* opens a screen: that day's hours are not lost.
NoClockLeftRunning ==
    \A s \in Sessions :
        sess[s].day < Today /\ sess[s].out = Never ~> sess[s].out # Never

\* A session the system closed is its guess, "and a correction can be raised
\* against it": when HR agrees to another clock-out for a day that is over and
\* closed, that is where the hours end that payroll counts.
CorrectionCounts ==
    [][claim.state = "pending" /\ claim'.state = "approved"
       /\ claim.out # Never /\ (\E s \in Of(claim.day) : sess[s].auto)
       => \E s \in Of(claim.day) : sess'[s].out = claim.out]_vars
=============================================================================
