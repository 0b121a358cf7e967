----------------------------- MODULE PayrollRun -----------------------------
(***************************************************************************)
(* One payroll run of one period, from the draft to the locked period:     *)
(* backend/payroll/viewsets.py (PayrollRunViewSet, PayslipViewSet), the    *)
(* Celery tasks of backend/payroll/tasks.py and the service functions they *)
(* call.  Two kinds of thread work on it at the same time: HTTP request    *)
(* threads (Sessions) and Celery workers (Workers).  The project does not  *)
(* set ATOMIC_REQUESTS, so a view is split where it reads a row and later  *)
(* acts on what it read; a function under transaction.atomic is split at   *)
(* its reads only (READ COMMITTED lets other transactions commit there).   *)
(***************************************************************************)
EXTENDS Naturals

CONSTANTS
    Employees,      \* everybody who may be payable in the period
    Sessions,       \* HTTP request threads of HR users
    Workers,        \* Celery worker threads
    Figures,        \* what the salary and attendance data can price to
    Broken,         \* the data cannot be priced: PayrollConfigurationError
    Malformed,      \* formulas that raise something else when evaluated
    Edited,         \* figures typed in by HR
    Nobody,         \* "no employee", in the record of an idle thread
    NoRollup,       \* totals never derived
    MaxDispatch,    \* bound: run_payroll messages ever sent
    MaxRedeliver,   \* bound: messages the broker delivers a second time
    Mortal,         \* the threads that may die in the middle of a handler
    MaxCrashes,     \* bound: how many of them do
    Instalments     \* instalments left on each employee's one active loan

Threads == Sessions \cup Workers
Chords  == 1 .. MaxDispatch
Sources == Figures \cup {Broken} \cup Malformed
Slots   == Chords \X Employees

ASSUME BoundsAssumption ==
    /\ MaxDispatch \in Nat /\ MaxRedeliver \in Nat
    /\ MaxCrashes \in Nat /\ Instalments \in Nat
ASSUME DistinctAssumption ==
    /\ Sessions \cap Workers = {} /\ Mortal \subseteq Sessions \cup Workers
    /\ Broken \notin Figures /\ Edited \notin Figures /\ Broken # Edited
    /\ Malformed \cap (Figures \cup {Broken}) = {}
    /\ Nobody \notin Employees
    /\ NoRollup \notin [Employees -> Figures \cup {Broken, Edited}]

VARIABLES
    status,      \* PayrollRun.status ("deleted" once the row is gone)
    locked,      \* PayrollRun.locked_at is set
    rollup,      \* what recalculate_totals last added up, per employee
    slip,        \* per employee: Payslip.status, "none" when there is no row
    figures,     \* per employee: what the payslip's line items say
    errors,      \* employees with an unresolved PayrollError
    repaid,      \* per employee: instalments taken for this one payslip
    source,      \* per employee: what compute_payslip would price today
    runQ,        \* run_payroll messages in the broker
    sent,        \* run_payroll messages ever sent
    chords,      \* chords created so far
    header,      \* per chord: the employees it has a task for
    queued,      \* process_payslip messages in the broker
    returned,    \* header tasks that have returned to the chord
    called,      \* chords whose callback has run
    redelivered, \* redeliveries so far
    crashes,     \* crashes so far
    th           \* per thread: where its handler is and what it has read

rowVars  == <<status, locked, rollup, slip, figures, errors, repaid>>
msgVars  == <<runQ, sent, chords, header, queued, returned, called>>
envVars  == <<source, redelivered, crashes>>
vars     == <<rowVars, msgVars, envVars, th>>

-----------------------------------------------------------------------------
(* Types *)

RunStatus  == {"draft", "processing", "completed", "deleted"}
SlipStatus == {"none", "draft", "finalized"}

\* `saw` is the is_locked of the PayrollRun instance the thread fetched.
Idle == [pc |-> "idle", emp |-> Nobody, chord |-> 0, saw |-> FALSE]

PCs == {"idle", "destroy", "run_checked", "run_sent", "fin_slips", "fin_lock",
        "slip_fin", "slip_edit",
        "run_task", "compute", "write", "error", "clear", "loans"}

ThreadRecord == [pc : PCs, emp : Employees \cup {Nobody},
                 chord : 0 .. MaxDispatch, saw : BOOLEAN]

TypeOK ==
    /\ status \in RunStatus
    /\ locked \in BOOLEAN
    /\ rollup \in [Employees -> Figures \cup {Broken, Edited}] \cup {NoRollup}
    /\ slip \in [Employees -> SlipStatus]
    /\ figures \in [Employees -> Figures \cup {Broken, Edited}]
    /\ errors \subseteq Employees
    /\ repaid \in [Employees -> Nat]
    /\ source \in [Employees -> Sources]
    /\ runQ \in Nat /\ sent \in Nat /\ chords \in Nat
    /\ header \in [Chords -> SUBSET Employees]
    /\ queued \subseteq Slots
    /\ returned \subseteq Slots
    /\ called \subseteq Chords
    /\ redelivered \in Nat /\ crashes \in Nat
    /\ th \in [Threads -> ThreadRecord]

-----------------------------------------------------------------------------
(* The thread of control of a handler *)

At(t, pc)        == th[t].pc = pc
Goto(t, pc)      == th' = [th EXCEPT ![t].pc = pc]
Begin(t, pc, e)  == th' = [th EXCEPT ![t] = [Idle EXCEPT !.pc = pc, !.emp = e]]
Done(t)          == th' = [th EXCEPT ![t] = Idle]

\* A chord's task has returned, whatever it returned.
Return(t) ==
    returned' = IF t \in Workers THEN returned \cup {<<th[t].chord, th[t].emp>>}
                                 ELSE returned

-----------------------------------------------------------------------------
Destroyable == status = "draft"

(* PayrollRunViewSet.destroy: only a draft can be removed.  The status is  *)
(* read first; the DELETE takes the run's payslips and errors with it.     *)
DestroyCheck(s) ==
    /\ At(s, "idle") /\ Destroyable
    /\ Begin(s, "destroy", Nobody)
    /\ UNCHANGED <<rowVars, msgVars, envVars>>

DestroyDelete(s) ==
    /\ At(s, "destroy")
    /\ status' = "deleted"
    /\ slip' = [e \in Employees |-> "none"]
    /\ errors' = {}
    /\ Done(s)
    /\ UNCHANGED <<locked, rollup, figures, repaid, msgVars, envVars>>

(* PayrollRunViewSet.run: read the row, send run_payroll, save PROCESSING. *)
RunCheck(s) ==
    /\ At(s, "idle") /\ status = "draft"
    /\ Begin(s, "run_checked", Nobody)
    /\ UNCHANGED <<rowVars, msgVars, envVars>>

RunDispatch(s) ==
    /\ At(s, "run_checked") /\ sent < MaxDispatch
    /\ sent' = sent + 1
    /\ runQ' = runQ + 1
    /\ Goto(s, "run_sent")
    /\ UNCHANGED <<rowVars, envVars, chords, header, queued, returned, called>>

RunSave(s) ==
    /\ At(s, "run_sent")
    /\ status' = IF status = "deleted" THEN "deleted" ELSE "processing"
    /\ Done(s)
    /\ UNCHANGED <<locked, rollup, slip, figures, errors, repaid, msgVars, envVars>>

FinalizableWithErrors == status = "completed"    \* mutant
FinalizableEarly == status # "draft" /\ errors = {}    \* mutant
Finalizable == status = "completed" /\ errors = {}

(* PayrollRunViewSet.finalize: three statements with gaps between them.    *)
FinalizeCheck(s) ==
    /\ At(s, "idle") /\ Finalizable
    /\ Begin(s, "fin_slips", Nobody)
    /\ UNCHANGED <<rowVars, msgVars, envVars>>

FinalizeSlips(s) ==
    /\ At(s, "fin_slips")
    /\ slip' = [e \in Employees |-> IF slip[e] = "draft" THEN "finalized" ELSE slip[e]]
    /\ Goto(s, "fin_lock")
    /\ UNCHANGED <<status, locked, rollup, figures, errors, repaid, msgVars, envVars>>

FinalizeLock(s) ==
    /\ At(s, "fin_lock")
    /\ locked' = (locked \/ status # "deleted")
    /\ Done(s)
    /\ UNCHANGED <<status, rollup, slip, figures, errors, repaid, msgVars, envVars>>

-----------------------------------------------------------------------------
(* PayslipViewSet, one payslip at a time *)

\* finalize: the once-only lock of one payslip.
SlipFinalizeCheck(s, e) ==
    /\ At(s, "idle") /\ slip[e] = "draft"
    /\ Begin(s, "slip_fin", e)
    /\ UNCHANGED <<rowVars, msgVars, envVars>>

SlipFinalizeSave(s) ==
    /\ At(s, "slip_fin")
    /\ slip' = IF slip[th[s].emp] = "none" THEN slip
               ELSE [slip EXCEPT ![th[s].emp] = "finalized"]
    /\ Done(s)
    /\ UNCHANGED <<status, locked, rollup, figures, errors, repaid, msgVars, envVars>>

Editable(e) == slip[e] = "draft"

\* edit_line_items: replaces the lines and the payslip's own totals.
EditCheck(s, e) ==
    /\ At(s, "idle") /\ Editable(e)
    /\ Begin(s, "slip_edit", e)
    /\ UNCHANGED <<rowVars, msgVars, envVars>>

EditSave(s) ==
    /\ At(s, "slip_edit")
    /\ figures' = IF slip[th[s].emp] = "none" THEN figures
                  ELSE [figures EXCEPT ![th[s].emp] = Edited]
    /\ Done(s)
    /\ UNCHANGED <<status, locked, rollup, slip, errors, repaid, msgVars, envVars>>

\* recompute: the same compute_payslip a worker runs, in the request thread.
RecomputeCheck(s, e) ==
    /\ At(s, "idle") /\ slip[e] = "draft"
    /\ th' = [th EXCEPT ![s] = [Idle EXCEPT !.pc = "compute", !.emp = e, !.saw = locked]]
    /\ UNCHANGED <<rowVars, msgVars, envVars>>

-----------------------------------------------------------------------------
(* Celery: run_payroll *)

\* PROCESSING first, then one task per payable employee and the chord's
\* callback.  PayrollRun.objects.get raises once the row is gone.
RunTask(w) ==
    /\ At(w, "idle") /\ runQ > 0
    /\ runQ' = runQ - 1
    /\ IF status = "deleted" THEN UNCHANGED <<status, th>>
       ELSE status' = "processing" /\ Begin(w, "run_task", Nobody)
    /\ UNCHANGED <<locked, rollup, slip, figures, errors, repaid, envVars,
                   sent, chords, header, queued, returned, called>>

RunNobody(w) ==
    /\ At(w, "run_task")
    /\ status' = IF status = "deleted" THEN "deleted" ELSE "completed"
    /\ Done(w)
    /\ UNCHANGED <<locked, rollup, slip, figures, errors, repaid, msgVars, envVars>>

RunChord(w, payable) ==
    /\ At(w, "run_task") /\ payable # {} /\ chords < MaxDispatch
    /\ chords' = chords + 1
    /\ header' = [header EXCEPT ![chords + 1] = payable]
    /\ queued' = queued \cup ({chords + 1} \X payable)
    /\ Done(w)
    /\ UNCHANGED <<rowVars, envVars, runQ, sent, returned, called>>

\* process_payslip starts: PayrollRun.objects.get, so `saw` is of this moment.
TaskFetch(w, c, e) ==
    /\ At(w, "idle") /\ <<c, e>> \in queued
    /\ queued' = queued \ {<<c, e>>}
    /\ IF status = "deleted" THEN UNCHANGED th
       ELSE th' = [th EXCEPT ![w] = [pc |-> "compute", emp |-> e, chord |-> c,
                                     saw |-> locked]]
    /\ UNCHANGED <<rowVars, envVars, runQ, sent, chords, header, returned, called>>

RefusesFinalizedOnly(t) == slip[th[t].emp] = "finalized"    \* mutant
Refuses(t) == th[t].saw \/ slip[th[t].emp] = "finalized"

\* compute_payslip, "two locks, checked before anything is destroyed".
ComputeRefused(t) ==
    /\ At(t, "compute")
    /\ Refuses(t)
    /\ Return(t)
    /\ Done(t)
    /\ UNCHANGED <<rowVars, envVars, runQ, sent, chords, header, queued, called>>

ComputeCheck(t) ==
    /\ At(t, "compute")
    /\ ~Refuses(t)
    /\ Goto(t, "write")
    /\ UNCHANGED <<rowVars, msgVars, envVars>>

\* compute_payslip, the rest of the transaction: update_or_create with DRAFT,
\* the old lines out, the new ones in.
ComputeWrite(t) ==
    LET e == th[t].emp IN
    /\ At(t, "write") /\ source[e] \in Figures /\ status # "deleted"
    /\ slip' = [slip EXCEPT ![e] = "draft"]
    /\ figures' = [figures EXCEPT ![e] = source[e]]
    /\ Goto(t, IF t \in Workers THEN "clear" ELSE "loans")
    /\ UNCHANGED <<status, locked, rollup, errors, repaid, msgVars, envVars>>

\* Every error rolls the transaction back.  PayrollConfigurationError is recorded
\* by the task (the view answers 500); anything else that _eval_formula raises (a
\* division by zero, a syntax error, what the sandbox refuses) and the foreign key
\* of a run that is gone are not caught: the task never returns to its chord.
Recorded(t) == t \in Workers /\ source[th[t].emp] = Broken /\ status # "deleted"

ComputeFails(t) ==
    /\ At(t, "write") /\ (source[th[t].emp] \notin Figures \/ status = "deleted")
    /\ IF Recorded(t) THEN Goto(t, "error") ELSE Done(t)
    /\ UNCHANGED <<rowVars, msgVars, envVars>>

\* The mutant raises instead of recording, as the task once did.
RecordErrorRaises(w) ==
    /\ At(w, "error") /\ Done(w)
    /\ UNCHANGED <<rowVars, msgVars, envVars>>

RecordError(w) ==
    /\ At(w, "error")
    /\ IF status = "deleted" THEN UNCHANGED <<errors, returned>>
       ELSE errors' = errors \cup {th[w].emp} /\ Return(w)
    /\ Done(w)
    /\ UNCHANGED <<status, locked, rollup, slip, figures, repaid, envVars,
                   runQ, sent, chords, header, queued, called>>

ClearError(w) ==
    /\ At(w, "clear")
    /\ errors' = errors \ {th[w].emp}
    /\ Goto(w, "loans")
    /\ UNCHANGED <<status, locked, rollup, slip, figures, repaid, msgVars, envVars>>

\* apply_loan_repayments: takes an instalment off the ACTIVE loan if the
\* payslip still has the loan's line (an edited payslip has lost it).
ApplyLoans(t) ==
    LET e == th[t].emp IN
    /\ At(t, "loans")
    /\ repaid' = IF slip[e] # "none" /\ figures[e] \in Figures /\ repaid[e] < Instalments
                 THEN [repaid EXCEPT ![e] = @ + 1] ELSE repaid
    /\ Return(t)
    /\ Done(t)
    /\ UNCHANGED <<status, locked, rollup, slip, figures, errors, envVars,
                   runQ, sent, chords, header, queued, called>>

\* recalculate_totals: over the payslips that exist.
Totals == [e \in Employees |-> IF slip[e] = "none" THEN Broken ELSE figures[e]]

AllReturned(c) == {c} \X header[c] \subseteq returned

\* finalize_payroll_run: the chord callback, once every header task returned.
FinalizeTask(w, c) ==
    /\ At(w, "idle")
    /\ header[c] # {} /\ AllReturned(c) /\ c \notin called
    /\ called' = called \cup {c}
    /\ IF status = "deleted" THEN UNCHANGED <<status, rollup>>
       ELSE status' = "completed" /\ rollup' = Totals
    /\ UNCHANGED <<locked, slip, figures, errors, repaid, envVars, th,
                   runQ, sent, chords, header, queued, returned>>

-----------------------------------------------------------------------------
(* The environment *)

\* Attendance is regularised, a salary structure or a tax slab is edited.
ChangeSource(e) ==
    /\ \E v \in Sources \ {source[e]} : source' = [source EXCEPT ![e] = v]
    /\ UNCHANGED <<rowVars, msgVars, redelivered, crashes, th>>

\* The broker delivers a message it had already delivered.
Redeliver(c, e) ==
    /\ redelivered < MaxRedeliver
    /\ e \in header[c] /\ <<c, e>> \notin queued
    /\ redelivered' = redelivered + 1
    /\ queued' = queued \cup {<<c, e>>}
    /\ UNCHANGED <<rowVars, source, crashes, th, runQ, sent, chords, header, returned, called>>

\* A process dies in a handler, or an exception nobody catches ends it.  A
\* task's message was acknowledged when it started (CELERY_TASK_ACKS_LATE is
\* not set), so it is gone.
Crash(t) ==
    /\ crashes < MaxCrashes /\ ~At(t, "idle")
    /\ crashes' = crashes + 1
    /\ Done(t)
    /\ UNCHANGED <<rowVars, msgVars, source, redelivered>>

-----------------------------------------------------------------------------

Init ==
    /\ status = "draft" /\ locked = FALSE /\ rollup = NoRollup
    /\ slip = [e \in Employees |-> "none"]
    /\ source \in [Employees -> Sources]
    /\ figures = [e \in Employees |-> Broken]
    /\ errors = {}
    /\ repaid = [e \in Employees |-> 0]
    /\ runQ = 0 /\ sent = 0 /\ chords = 0
    /\ header = [c \in Chords |-> {}]
    /\ queued = {} /\ returned = {} /\ called = {}
    /\ redelivered = 0 /\ crashes = 0
    /\ th = [t \in Threads |-> Idle]

Request(s) ==
    \/ DestroyCheck(s) \/ RunCheck(s) \/ FinalizeCheck(s)
    \/ \E e \in Employees : SlipFinalizeCheck(s, e) \/ EditCheck(s, e) \/ RecomputeCheck(s, e)

Respond(s) ==
    \/ DestroyDelete(s) \/ RunDispatch(s) \/ RunSave(s) \/ FinalizeSlips(s) \/ FinalizeLock(s)
    \/ SlipFinalizeSave(s) \/ EditSave(s)

Compute(t) ==
    \/ ComputeRefused(t) \/ ComputeCheck(t) \/ ComputeWrite(t) \/ ComputeFails(t)
    \/ ApplyLoans(t)

Work(w) ==
    \/ RunTask(w) \/ RunNobody(w)
    \/ \E payable \in SUBSET Employees : RunChord(w, payable)
    \/ \E c \in Chords : FinalizeTask(w, c) \/ \E e \in Employees : TaskFetch(w, c, e)
    \/ RecordError(w) \/ ClearError(w)

Next ==
    \/ \E s \in Sessions : Request(s) \/ Respond(s)
    \/ \E t \in Threads : Compute(t)
    \/ \E t \in Mortal : Crash(t)
    \/ \E w \in Workers : Work(w)
    \/ \E e \in Employees : ChangeSource(e)
    \/ \E c \in Chords, e \in Employees : Redeliver(c, e)

Spec == Init /\ [][Next]_vars

\* A started handler runs on, and a live worker takes what is queued.
Fairness ==
    /\ \A s \in Sessions : WF_vars(Respond(s))
    /\ \A t \in Threads : WF_vars(Compute(t))
    /\ \A w \in Workers : WF_vars(Work(w))

FairSpec == Spec /\ Fairness

-----------------------------------------------------------------------------
(* What one HR user at a time may rely on *)

\* A locked period is complete and settled: no error is open on it, no payslip
\* is still a draft, everybody the run covered has a finalized payslip and the
\* totals count exactly those who have one.
\* (finalize: "it would freeze a payroll that is missing somebody's payslip".)
LockedIsFinal ==
    locked => /\ status = "completed" /\ errors = {}
              /\ \A e \in Employees : slip[e] # "draft"
              /\ \A c \in Chords : \A e \in header[c] : slip[e] = "finalized"
              /\ called # {} => \A e \in Employees : rollup[e] = Broken <=> slip[e] = "none"

\* When the chord's callback has run, everybody in its header has either a
\* payslip or a recorded error (finalize_payroll_run: nobody is dropped).
Accounted ==
    \A c \in called : \A e \in header[c] : slip[e] # "none" \/ e \in errors

\* While its run exists, a finalized payslip keeps its status and its figures
\* (PayslipViewSet.finalize: "the once-only lock: the figures become immutable").
FinalFigures ==
    [][\A e \in Employees : slip[e] = "finalized" /\ status' # "deleted" =>
          slip'[e] = "finalized" /\ figures'[e] = figures[e]]_vars

\* A run that has been started is never removed (PayrollRunViewSet: only a
\* draft can be destroyed, its payslips are what people were paid).
ProcessedKept ==
    [][(status \in {"processing", "completed"}) => status' # "deleted"]_vars

\* What the rows of the run mean to the people it pays.
Phase ==
    IF locked THEN "closed" ELSE IF status = "deleted" THEN "discarded"
    ELSE IF sent = 0 THEN "draft" ELSE "running"

Covered == UNION {header[c] : c \in Chords}
Counted == called # {}
Final   == {e \in Employees : slip[e] = "finalized"}

Promised == INSTANCE Period WITH
    Amounts <- Figures \cup {Edited}, Unpaid <- Broken,
    phase <- Phase, covered <- Covered, counted <- Counted,
    pay <- Totals, final <- Final, wrong <- errors

\* The run keeps the promise of Period: every write of a request thread or of a
\* worker is one of its steps or changes nothing of it, so that nobody is paid or
\* reported outside the run, nothing final moves, and the period closes whole and
\* stays as it was closed (models.py, PayrollRun.locked_at: a late task "would
\* silently restate a payslip somebody has already been paid against").
ImplementsPeriod == Promised!Spec

\* With workers that live, a dispatched chord reaches its callback although salary
\* data cannot be priced (process_payslip records PayrollConfigurationError), as
\* long as no formula of the people it covers raises anything else.
CallbackRuns ==
    \A c \in Chords :
        [](\A e \in header[c] : source[e] \notin Malformed)
            => (header[c] # {} ~> c \in called)

-----------------------------------------------------------------------------
(* What the documents say of the run, and the code does not do *)

\* A run that is being processed completes, whatever its employees' data (models.py,
\* PayrollError, on the run that was "stuck at PROCESSING forever": "the run completes").
RunCompletes == status = "processing" ~> status # "processing"

\* A dispatched chord reaches its callback whatever the formulas (tasks.py,
\* process_payslip: "a single employee's failure (bad formula, missing structure)
\* doesn't roll back or block the rest of the run"; payroll/README.md knows better).
NobodyBlocks == \A c \in Chords : header[c] # {} ~> c \in called

\* HR presses again whatever the run and its payslips offer for a new attempt.
Retry(s) == RunCheck(s) \/ \E e \in Employees : RecomputeCheck(s, e)
RetrySpec == FairSpec /\ \A s \in Sessions : SF_vars(Retry(s))

\* Once every employee can be priced, a run that HR tries again loses its errors
\* (docs/make_manual.py, "Why Finalize refuses": "Fix the underlying record, resolve
\* the error, run again.").
ErrorsClear == <>[](\A e \in Employees : source[e] \in Figures) => []<>(errors = {})

-----------------------------------------------------------------------------
(* What holds for any number of users, workers and redeliveries *)

\* Every handler at work read the run after it was locked.
Drained == locked /\ \A t \in Threads : At(t, "idle") \/ th[t].saw

\* A task or a request that starts after the lock, a duplicate delivery
\* included, changes no final figure, records no error and takes no instalment
\* (PayrollRun.locked_at; process_payslip's PayrollPeriodLockedError branch).
LockHolds ==
    [][Drained =>
          /\ locked'
          /\ \A e \in Employees : slip[e] = "finalized" =>
                slip'[e] = "finalized" /\ figures'[e] = figures[e]
          /\ errors' \subseteq errors /\ repaid' = repaid]_vars
=============================================================================
