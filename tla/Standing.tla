------------------------------ MODULE Standing ------------------------------
(***************************************************************************)
(* Whether one person is employed and whether they can sign in.           *)
(*                                                                         *)
(* Three records decide it and each is written by its own module: the      *)
(* suspensions and their flags (employees/suspensions.py), the approved    *)
(* resignations and terminations (employees/services.py) and the           *)
(* employment status itself, which HR also edits in a form that was filled *)
(* in when it was opened (EmployeeFormDialog.tsx).  Two nightly tasks      *)
(* start and end what has a date.  The sweep reads the employees before    *)
(* its loop and writes from what it read; every other request is one       *)
(* transaction of one HR user here.                                        *)
(*                                                                         *)
(* The last day stands for every later one: midnight on it comes again and *)
(* again, and what ends on it does not end here.                           *)
(***************************************************************************)
EXTENDS Integers, FiniteSets

CONSTANTS
    Suspensions,    \* the suspensions that can be recorded, 1..n, by id
    Events,         \* the resignations and terminations that can be asked for
    MaxDay          \* the last day

ASSUME StandingAssumption ==
    /\ Suspensions \subseteq Nat
    /\ IsFiniteSet(Suspensions)
    /\ MaxDay \in Nat \ {0}

Never == MaxDay + 1              \* an empty date: no end, not lifted
Days == 1 .. MaxDay

Statuses == {"active", "on_leave", "suspended", "resigned", "terminated"}
ByHand == {"active", "on_leave", "resigned", "terminated"}
Left == {"resigned", "terminated"}
Endings == {"reinstated", "terminated"}   \* withdrawn does as reinstated

VARIABLES
    today,
    status,      \* Employee.employment_status
    login,       \* User.is_active
    susp,        \* the Suspension rows
    event,       \* the LifecycleEvent rows: state and effective date
    form,        \* the status the open edit form was filled in with
    sweeping,    \* what the sweep read before its loop
    night,       \* which of the two nightly tasks has run today
    out,         \* ghost: a departure closed the login, nobody undid it
    amiss        \* ghost: one of four known gaps was taken, see below

vars == <<today, status, login, susp, event, form, sweeping, night,
          out, amiss>>

\* Suspension and LifecycleEvent, as far as they matter here.
Rows == [start : Days \cup {Never}, end : Days \cup {Never},
         lifted : Days \cup {Never}, flag : BOOLEAN]
EventRows == [state : {"none", "pending", "approved", "rejected",
                       "cancelled", "applied"},
              effective : Days \cup {Never}]

Unfiled == [start |-> Never, end |-> Never, lifted |-> Never, flag |-> FALSE]
NoEvent == [state |-> "none", effective |-> Never]
Shut == "shut"
Idle == [status |-> "none", login |-> FALSE]

TypeOK ==
    /\ today \in Days
    /\ status \in Statuses
    /\ login \in BOOLEAN
    /\ susp \in [Suspensions -> Rows]
    /\ event \in [Events -> EventRows]
    /\ form \in Statuses \cup {Shut}
    /\ sweeping \in [status : Statuses, login : BOOLEAN] \cup {Idle}
    /\ night \in {"ahead", "swept", "over"}
    /\ out \in BOOLEAN /\ amiss \in BOOLEAN

Init ==
    /\ today = 1
    /\ status = "active"
    /\ login = TRUE
    /\ susp = [s \in Suspensions |-> Unfiled]
    /\ event = [e \in Events |-> NoEvent]
    /\ form = Shut
    /\ sweeping = Idle
    /\ night = "ahead"
    /\ out = FALSE /\ amiss = FALSE

-----------------------------------------------------------------------------
(* The suspension records.                                                 *)

\* Lifted first: a suspension lifted today still ends today in its dates.
Covers(row, day) ==
    /\ day < row.lifted
    /\ row.start <= day
    /\ day <= row.end

InForce(rows, day) == {s \in Suspensions : Covers(rows[s], day)}

\* The rows are read latest start first, so that is the one flagged.
Current(rows, day) ==
    {s \in InForce(rows, day) :
        \A t \in InForce(rows, day) : rows[t].start <= rows[s].start}

\* The status follows the suspension only between active and suspended.
StatusFor(covered, st) ==
    CASE covered /\ st = "active" -> "suspended"
      [] ~covered /\ st = "suspended" -> "active"
      [] OTHER -> st

\* mutant: the account comes back whoever closed it
LoginHandedBack(covered, st, open) == ~covered

\* The account comes back only to somebody who is active.
LoginFor(covered, st, open) ==
    IF covered THEN FALSE ELSE open \/ st = "active"

Flagged(rows) ==
    [s \in Suspensions |->
        [rows[s] EXCEPT !.flag = s \in Current(rows, today)]]

\* Flag, status and login made to agree with the rows.
Sync(rows, st, open) ==
    LET covered == InForce(rows, today) # {}
    IN  /\ susp' = Flagged(rows)
        /\ status' = StatusFor(covered, st)
        /\ login' = LoginFor(covered, StatusFor(covered, st), open)

Filed == {s \in Suspensions : susp[s] # Unfiled}

-----------------------------------------------------------------------------
(* The Conduct tab: suspending and lifting.                                *)

\* A new row, refused on a day another one covers and for somebody who left.
Suspend(s, starts, ends) ==
    /\ s \notin Filed
    /\ \A t \in Suspensions : t < s => t \in Filed
    /\ starts <= ends
    /\ InForce(susp, starts) = {}
    /\ status \notin Left
    /\ Sync([susp EXCEPT ![s] = [Unfiled EXCEPT !.start = starts,
                                                !.end = ends]],
            status, login)
    /\ UNCHANGED <<today, event, form, sweeping, night, out, amiss>>

\* Its outcome and who lifted it are filled in with the day it was lifted on.
Close(row) ==
    [row EXCEPT !.lifted = today, !.flag = FALSE,
                !.end = IF @ > today THEN today ELSE @]

\* mutant: the record is closed and the person is left as they were
LiftRecordOnly(s, outcome) ==
    /\ s \in Filed
    /\ susp[s].flag \/ susp[s].lifted = Never
    /\ susp' = [susp EXCEPT ![s] = Close(@)]
    /\ UNCHANGED <<today, status, login, event, form, sweeping, night, out,
                   amiss>>

\* Ends one and says how: refused once it has been closed.  The tab offers it
\* for a flagged suspension, so a request for any other comes from a page that
\* was out of date.
Lift(s, outcome) ==
    /\ s \in Filed
    /\ susp[s].flag \/ susp[s].lifted = Never
    /\ LET st == IF outcome = "terminated" THEN "terminated" ELSE status
       IN  Sync([susp EXCEPT ![s] = Close(@)], st, login)
    /\ out' = (out \/ outcome = "terminated")
    /\ amiss' = (amiss \/ ~susp[s].flag)
    /\ UNCHANGED <<today, event, form, sweeping, night>>

-----------------------------------------------------------------------------
(* Resignations and terminations.                                          *)

Submit(e, effective) ==
    /\ event[e].state = "none"
    /\ \A f \in Events : f < e => event[f].state # "none"
    /\ event' = [event EXCEPT ![e] = [state |-> "pending",
                                      effective |-> effective]]
    /\ UNCHANGED <<today, status, login, susp, form, sweeping, night,
                   out, amiss>>

\* The event takes effect: the status, the login and the event together.
Depart(departing) ==
    /\ event' = [e \in Events |-> IF e \in departing
                                  THEN [event[e] EXCEPT !.state = "applied"]
                                  ELSE event[e]]
    /\ IF departing = {}
       THEN UNCHANGED <<status, login, out>>
       ELSE status' = "resigned" /\ login' = FALSE /\ out' = TRUE

\* mutant: the day itself is left to the night that has already passed
ApproveLater(e) ==
    /\ event[e].state = "pending"
    /\ IF event[e].effective < today
       THEN Depart({e})
       ELSE /\ event' = [event EXCEPT ![e].state = "approved"]
            /\ UNCHANGED <<status, login, out>>
    /\ UNCHANGED <<today, susp, form, sweeping, night, amiss>>

\* Approved for a day that has come is applied at once.
Approve(e) ==
    /\ event[e].state = "pending"
    /\ IF event[e].effective <= today
       THEN Depart({e})
       ELSE /\ event' = [event EXCEPT ![e].state = "approved"]
            /\ UNCHANGED <<status, login, out>>
    /\ UNCHANGED <<today, susp, form, sweeping, night, amiss>>

Decline(e, how) ==
    /\ event[e].state = "pending"
    /\ event' = [event EXCEPT ![e].state = how]
    /\ UNCHANGED <<today, status, login, susp, form, sweeping, night,
                   out, amiss>>

\* The same record comes back to work: not for somebody active or suspended.
Rehire ==
    /\ status \notin {"active", "suspended"}
    /\ status' = "active"
    /\ login' = TRUE
    /\ out' = FALSE
    /\ amiss' = (amiss \/ \E s \in Suspensions : susp[s].flag)
    /\ UNCHANGED <<today, susp, event, form, sweeping, night>>

-----------------------------------------------------------------------------
(* The edit form.                                                          *)

OpenForm ==
    /\ form = Shut
    /\ form' = status
    /\ UNCHANGED <<today, status, login, susp, event, sweeping, night,
                   out, amiss>>

\* The whole form is sent, the status it was filled in with too unless another
\* was chosen; a suspended person's status cannot be chosen.
SaveForm(chosen) ==
    /\ form # Shut
    /\ chosen = form \/ (form # "suspended" /\ chosen \in ByHand)
    /\ status' = chosen
    /\ form' = Shut
    /\ out' = (out /\ chosen \in Left)
    /\ amiss' = (amiss \/ status # form)
    /\ UNCHANGED <<today, login, susp, event, sweeping, night>>

-----------------------------------------------------------------------------
(* The night.                                                              *)

\* mutant: only the people with a suspension that has not run out are read
SweepReadOngoing ==
    /\ night = "ahead"
    /\ night' = "swept"
    /\ sweeping' = IF \A s \in Filed : susp[s].end < today THEN Idle
                   ELSE [status |-> status, login |-> login]
    /\ UNCHANGED <<today, status, login, susp, event, form, out, amiss>>

\* The employees who were ever suspended are read, with their users.
SweepRead ==
    /\ night = "ahead"
    /\ night' = "swept"
    /\ sweeping' = IF Filed = {} THEN Idle
                   ELSE [status |-> status, login |-> login]
    /\ UNCHANGED <<today, status, login, susp, event, form, out, amiss>>

\* One employee of the loop: the rows are read now, the person was read
\* before, and what already agrees with that reading is not written.
SweepSync ==
    /\ sweeping # Idle
    /\ LET covered == InForce(susp, today) # {}
           next == StatusFor(covered, sweeping.status)
           access == LoginFor(covered, next, sweeping.login)
       IN  /\ susp' = Flagged(susp)
           /\ status' = IF next = sweeping.status THEN status ELSE next
           /\ login' = IF access = sweeping.login THEN login ELSE access
    /\ sweeping' = Idle
    /\ amiss' = (amiss \/ sweeping # [status |-> status, login |-> login])
    /\ UNCHANGED <<today, event, form, night, out>>

Due(e) == event[e].state = "approved" /\ event[e].effective <= today

ApplyDue ==
    /\ night = "swept" /\ sweeping = Idle
    /\ night' = "over"
    /\ Depart({e \in Events : Due(e)})
    /\ UNCHANGED <<today, susp, form, sweeping, amiss>>

\* A night on which beat or the worker is down is left as it is.
Midnight ==
    /\ sweeping = Idle
    /\ today' = IF today < MaxDay THEN today + 1 ELSE today
    /\ night' = "ahead"
    /\ UNCHANGED <<status, login, susp, event, form, sweeping, out, amiss>>

Next ==
    \/ \E s \in Suspensions :
        \/ \E starts \in Days, ends \in Days \cup {Never} :
               Suspend(s, starts, ends)
        \/ \E outcome \in Endings : Lift(s, outcome)
    \/ \E e \in Events :
        \/ \E effective \in Days : Submit(e, effective)
        \/ Approve(e)
        \/ \E how \in {"rejected", "cancelled"} : Decline(e, how)
    \/ Rehire
    \/ OpenForm
    \/ \E chosen \in Statuses : SaveForm(chosen)
    \/ SweepRead
    \/ SweepSync
    \/ ApplyDue
    \/ Midnight

Spec == Init /\ [][Next]_vars

\* Days go by and the nightly sweep is not missed for ever.
FairSpec ==
    /\ Spec
    /\ WF_vars(Midnight)
    /\ SF_vars(SweepRead)
    /\ WF_vars(SweepSync)

-----------------------------------------------------------------------------
(* Properties.                                                             *)

\* Whoever left, by a resignation or termination that took effect or by a
\* suspension that ended in dismissal, has no login until they are brought
\* back: not when a suspension is lifted or runs out afterwards.  `_sync`
\* hands an account back only to somebody whose status is active.  Claimed
\* until one of the four gaps is taken that `amiss` marks: a form saved over a
\* change it had not seen, a sweep whose reading another request overtook, a
\* suspension closed from a page on which it was still in force, and somebody
\* rehired with a suspension in force (InForceStaysOut).
LeaverStaysOut == out /\ ~amiss => ~login

\* Whoever is suspended and cannot sign in has a suspension that says so:
\* the screen shows the flagged one, and it is the one to be lifted.
VisibleCause ==
    status = "suspended" /\ ~login /\ ~amiss =>
        \E s \in Suspensions : susp[s].flag

\* Once the night's task has run, and until the next night, nothing approved
\* for a day that has come is still waiting: `decide` takes the days up to
\* today and the task every earlier one it missed.
DueIsApplied ==
    night = "over" => \A e \in Events : ~Due(e)

\* Nobody stays suspended and locked out when no suspension covers the day:
\* the nightly sweep finds them whichever night it runs again.
LockedOut == status = "suspended" /\ ~login /\ InForce(susp, today) = {}
NobodyLeftLocked ==
    LockedOut ~> (login \/ status \notin {"active", "suspended"}
                        \/ InForce(susp, today) # {})

\* A suspension recorded as in force and an account that is open: "the one
\* state employees/suspensions.py exists to make impossible".
InForceStaysOut == (\E s \in Suspensions : susp[s].flag) => ~login
=============================================================================
