-------------------------- MODULE PayrollRunProofs --------------------------
(***************************************************************************)
(* Theorems about PayrollRun, for every number of employees, users,        *)
(* workers, redeliveries and crashes; and about Loans, for every number of *)
(* days and periods and every principal and instalment.                    *)
(***************************************************************************)
EXTENDS PayrollRun, Loans, TLAPS

\* Starting a handler, moving it on and ending it keep the thread records typed.
LEMMA ThreadTypes ==
    ASSUME th \in [Threads -> ThreadRecord], NEW t \in Threads
    PROVE  /\ \A p \in PCs : Goto(t, p) => th' \in [Threads -> ThreadRecord]
           /\ \A p \in PCs, e \in Employees \cup {Nobody} :
                 Begin(t, p, e) => th' \in [Threads -> ThreadRecord]
           /\ Done(t) => th' \in [Threads -> ThreadRecord]
<1>1. Idle \in ThreadRecord
  BY BoundsAssumption DEF Idle, ThreadRecord, PCs
<1>2. ASSUME NEW p \in PCs, Goto(t, p) PROVE th' \in [Threads -> ThreadRecord]
  <2>1. [th[t] EXCEPT !.pc = p] \in ThreadRecord
    BY DEF ThreadRecord
  <2> QED
    BY <1>2, <2>1 DEF Goto
<1>3. ASSUME NEW p \in PCs, NEW e \in Employees \cup {Nobody}, Begin(t, p, e)
      PROVE  th' \in [Threads -> ThreadRecord]
  <2>1. [Idle EXCEPT !.pc = p, !.emp = e] \in ThreadRecord
    BY <1>1 DEF ThreadRecord
  <2> QED
    BY <1>3, <2>1 DEF Begin
<1>4. Done(t) => th' \in [Threads -> ThreadRecord]
  BY <1>1 DEF Done
<1> QED
  BY <1>2, <1>3, <1>4

\* A worker in process_payslip works on a task of some chord.
TaskPCs == {"compute", "write", "error", "clear", "loans"}
Assigned == \A w \in Workers : th[w].pc \in TaskPCs => <<th[w].chord, th[w].emp>> \in Slots
IndType == TypeOK /\ Assigned

\* Moving a worker on inside process_payslip keeps its task; starting another
\* handler or ending one leaves the workers with a task as they were.
LEMMA AssignedKept ==
    ASSUME IndType, NEW t \in Threads
    PROVE  /\ \A p \in PCs : (p \in TaskPCs /\ t \in Workers => th[t].pc \in TaskPCs)
                              /\ Goto(t, p) => Assigned'
           /\ \A p \in PCs, e \in Employees \cup {Nobody} :
                 (t \in Workers => p \notin TaskPCs) /\ Begin(t, p, e) => Assigned'
           /\ Done(t) => Assigned'
           /\ th' = th => Assigned'
<1> th \in [Threads -> ThreadRecord] /\ Workers \subseteq Threads /\ Assigned
  BY DEF IndType, TypeOK, Threads
<1>1. ASSUME NEW p \in PCs, p \in TaskPCs /\ t \in Workers => th[t].pc \in TaskPCs, Goto(t, p)
      PROVE  Assigned'
  <2>1. th' \in [Threads -> ThreadRecord]
    BY <1>1, ThreadTypes
  <2>2. \A w \in Threads : th'[w].chord = th[w].chord /\ th'[w].emp = th[w].emp
    BY <1>1 DEF Goto, ThreadRecord
  <2>3. \A w \in Threads : th'[w].pc = IF w = t THEN p ELSE th[w].pc
    BY <1>1 DEF Goto, ThreadRecord
  <2> QED
    BY <1>1, <2>2, <2>3 DEF Assigned, Slots
<1>2. ASSUME NEW p \in PCs, NEW e \in Employees \cup {Nobody},
             t \in Workers => p \notin TaskPCs, Begin(t, p, e)
      PROVE  Assigned'
  <2>1. \A w \in Threads : w # t => th'[w] = th[w]
    BY <1>2 DEF Begin
  <2>2. th'[t].pc = p
    BY <1>2 DEF Begin, Idle
  <2> QED
    BY <1>2, <2>1, <2>2 DEF Assigned, Slots
<1>3. ASSUME Done(t) PROVE Assigned'
  BY <1>3 DEF Done, Idle, Assigned, Slots, TaskPCs
<1>4. ASSUME th' = th PROVE Assigned'
  BY <1>4 DEF Assigned, Slots
<1> QED
  BY <1>1, <1>2, <1>3, <1>4

\* Every action keeps every variable of its type and every worker its task.
LEMMA IndTypeCorrect == Spec => []IndType
<1>1. Init => IndType
  <2> HAVE Init
  <2>1. th \in [Threads -> ThreadRecord]
    BY BoundsAssumption DEF Init, Idle, ThreadRecord, PCs
  <2>2. TypeOK
    BY <2>1, BoundsAssumption DEF Init, TypeOK, RunStatus, SlipStatus, Sources
  <2>3. Assigned
    BY DEF Init, Assigned, Idle, TaskPCs, Threads
  <2> QED
    BY <2>2, <2>3 DEF IndType
<1>2. IndType /\ [Next]_vars => IndType'
  <2> SUFFICES ASSUME IndType, [Next]_vars PROVE IndType'
    OBVIOUS
  <2> TypeOK /\ Assigned
    BY DEF IndType
  <2> USE BoundsAssumption, ThreadTypes, AssignedKept DEF TypeOK, IndType
  <2>1. ASSUME NEW s \in Sessions, Request(s) \/ Respond(s) PROVE IndType'
    <3> s \in Threads /\ s \notin Workers
      BY DistinctAssumption DEF Threads
    <3>1. CASE DestroyCheck(s) \/ RunCheck(s) \/ FinalizeCheck(s)
      BY <3>1 DEF DestroyCheck, RunCheck, FinalizeCheck, rowVars, msgVars, envVars, PCs
    <3>2. CASE \E e \in Employees : SlipFinalizeCheck(s, e) \/ EditCheck(s, e)
      BY <3>2 DEF SlipFinalizeCheck, EditCheck, rowVars, msgVars, envVars, PCs
    <3>3. ASSUME NEW e \in Employees, RecomputeCheck(s, e) PROVE IndType'
      <4>1. [Idle EXCEPT !.pc = "compute", !.emp = e, !.saw = locked] \in ThreadRecord
        <5>1. Idle \in ThreadRecord
          BY DEF Idle, ThreadRecord, PCs
        <5> QED
          BY <5>1 DEF ThreadRecord, PCs
      <4>2. Assigned'
        BY <3>3 DEF RecomputeCheck, Assigned, Threads
      <4> QED
        BY <3>3, <4>1, <4>2 DEF RecomputeCheck, rowVars, msgVars, envVars
    <3>4. CASE DestroyDelete(s)
      BY <3>4 DEF DestroyDelete, msgVars, envVars, RunStatus, SlipStatus
    <3>5. CASE RunDispatch(s)
      BY <3>5 DEF RunDispatch, rowVars, envVars, PCs
    <3>6. CASE RunSave(s)
      BY <3>6 DEF RunSave, msgVars, envVars, RunStatus
    <3>7. CASE FinalizeSlips(s)
      BY <3>7 DEF FinalizeSlips, msgVars, envVars, SlipStatus, PCs
    <3>8. CASE FinalizeLock(s)
      BY <3>8 DEF FinalizeLock, msgVars, envVars
    <3>9. CASE SlipFinalizeSave(s)
      BY <3>9 DEF SlipFinalizeSave, msgVars, envVars, SlipStatus
    <3>10. CASE EditSave(s)
      BY <3>10 DEF EditSave, msgVars, envVars
    <3> QED
      BY <2>1, <3>1, <3>2, <3>3, <3>4, <3>5, <3>6, <3>7, <3>8, <3>9, <3>10
         DEF Request, Respond
  <2>2. ASSUME NEW t \in Threads, Compute(t) PROVE IndType'
    <3>1. CASE ComputeRefused(t)
      <4>1. returned' \subseteq Slots
        BY <3>1 DEF ComputeRefused, Return, At, Assigned, TaskPCs
      <4> QED
        BY <3>1, <4>1 DEF ComputeRefused, rowVars, envVars
    <3>2. CASE ComputeCheck(t)
      BY <3>2 DEF ComputeCheck, At, rowVars, msgVars, envVars, PCs, TaskPCs
    <3>3. CASE ComputeWrite(t)
      BY <3>3 DEF ComputeWrite, At, msgVars, envVars, PCs, TaskPCs, SlipStatus, Sources
    <3>4. CASE ComputeFails(t)
      BY <3>4 DEF ComputeFails, Recorded, At, rowVars, msgVars, envVars, PCs, TaskPCs
    <3>5. CASE ApplyLoans(t)
      <4>1. returned' \subseteq Slots
        BY <3>5 DEF ApplyLoans, Return, At, Assigned, TaskPCs
      <4>2. repaid' = repaid \/ repaid' = [repaid EXCEPT ![th[t].emp] = @ + 1]
        BY <3>5 DEF ApplyLoans
      <4>3. repaid' \in [Employees -> Nat]
        BY <4>2
      <4> QED
        BY <3>5, <4>1, <4>3 DEF ApplyLoans, envVars
    <3> QED
      BY <2>2, <3>1, <3>2, <3>3, <3>4, <3>5 DEF Compute
  <2>3. ASSUME NEW w \in Workers, Work(w) PROVE IndType'
    <3> w \in Threads
      BY DEF Threads
    <3>1. CASE RunTask(w)
      BY <3>1 DEF RunTask, envVars, RunStatus, PCs, TaskPCs
    <3>2. CASE RunNobody(w)
      BY <3>2 DEF RunNobody, msgVars, envVars, RunStatus
    <3>3. CASE \E payable \in SUBSET Employees : RunChord(w, payable)
      BY <3>3 DEF RunChord, rowVars, envVars, Chords, Slots
    <3>4. ASSUME NEW c \in Chords, NEW e \in Employees, TaskFetch(w, c, e) PROVE IndType'
      <4>1. [pc |-> "compute", emp |-> e, chord |-> c, saw |-> locked] \in ThreadRecord
        BY DEF ThreadRecord, PCs, Chords
      <4>2. <<c, e>> \in Slots
        BY DEF Slots
      <4>3. Assigned'
        BY <3>4, <4>1, <4>2 DEF TaskFetch, Assigned, Threads
      <4> QED
        BY <3>4, <4>1, <4>3 DEF TaskFetch, rowVars, envVars
    <3>5. CASE RecordError(w)
      <4>1. returned' \subseteq Slots /\ errors' \subseteq Employees
        BY <3>5 DEF RecordError, Return, At, Assigned, TaskPCs, Slots
      <4> QED
        BY <3>5, <4>1 DEF RecordError, envVars
    <3>6. CASE ClearError(w)
      BY <3>6 DEF ClearError, At, msgVars, envVars, PCs, TaskPCs
    <3>7. CASE \E c \in Chords : FinalizeTask(w, c)
      BY <3>7 DEF FinalizeTask, Totals, envVars, RunStatus
    <3> QED
      BY <2>3, <3>1, <3>2, <3>3, <3>4, <3>5, <3>6, <3>7 DEF Work
  <2>4. ASSUME NEW t \in Mortal, Crash(t) PROVE IndType'
    BY <2>4, DistinctAssumption DEF Crash, Threads, rowVars, msgVars
  <2>5. ASSUME NEW e \in Employees, ChangeSource(e) PROVE IndType'
    <3>1. source' \in [Employees -> Sources]
      BY <2>5 DEF ChangeSource
    <3> QED
      BY <2>5, <3>1 DEF ChangeSource, rowVars, msgVars, Assigned
  <2>6. ASSUME NEW c \in Chords, NEW e \in Employees, Redeliver(c, e) PROVE IndType'
    <3>1. queued' \subseteq Slots /\ redelivered' \in Nat
      BY <2>6 DEF Redeliver, Slots
    <3> QED
      BY <2>6, <3>1 DEF Redeliver, rowVars, Assigned
  <2>7. CASE UNCHANGED vars
    BY <2>7 DEF vars, rowVars, msgVars, envVars, Assigned
  <2> QED
    BY <2>1, <2>2, <2>3, <2>4, <2>5, <2>6, <2>7 DEF Next
<1> QED
  BY <1>1, <1>2, PTL DEF Spec

\* Every variable keeps its type.
THEOREM TypeCorrect == Spec => []TypeOK
<1>1. IndType => TypeOK
  BY DEF IndType
<1> QED
  BY <1>1, IndTypeCorrect, PTL

\* A handler that read the run as locked goes no further than compute_payslip's
\* two checks.
SawStops == \A t \in Threads : th[t].saw => th[t].pc \in {"idle", "compute"}

LEMMA SawStopsCorrect == Spec => []SawStops
<1>1. Init => SawStops
  BY DEF Init, SawStops, Idle
<1>2. IndType /\ SawStops /\ [Next]_vars => SawStops'
  <2> SUFFICES ASSUME IndType, SawStops, [Next]_vars PROVE SawStops'
    OBVIOUS
  <2> th \in [Threads -> ThreadRecord]
    BY DEF IndType, TypeOK
  <2>1. ASSUME NEW t \in Threads, Done(t) PROVE SawStops'
    BY <2>1 DEF Done, Idle, SawStops
  <2>2. ASSUME NEW t \in Threads, NEW p, NEW e, Begin(t, p, e) PROVE SawStops'
    BY <2>2 DEF Begin, Idle, SawStops
  <2>3. ASSUME NEW t \in Threads, NEW p, ~th[t].saw, Goto(t, p) PROVE SawStops'
    <3>1. \A u \in Threads : th'[u].saw = th[u].saw
      BY <2>3 DEF Goto, ThreadRecord
    <3>2. \A u \in Threads : u # t => th'[u] = th[u]
      BY <2>3 DEF Goto
    <3> QED
      BY <2>3, <3>1, <3>2 DEF SawStops
  <2>4. ASSUME NEW t \in Threads, Compute(t) PROVE SawStops'
    BY <2>1, <2>3, <2>4 DEF Compute, ComputeRefused, ComputeCheck, ComputeWrite, ComputeFails, Recorded,
       ApplyLoans, Refuses, At, SawStops
  <2>5. ASSUME NEW s \in Sessions, Request(s) PROVE SawStops'
    <3> s \in Threads
      BY DEF Threads
    <3>1. ASSUME NEW e \in Employees, RecomputeCheck(s, e) PROVE SawStops'
      BY <3>1 DEF RecomputeCheck, Idle, SawStops
    <3> QED
      BY <2>2, <2>5, <3>1 DEF Request, DestroyCheck, RunCheck, FinalizeCheck, SlipFinalizeCheck,
         EditCheck
  <2>6. ASSUME NEW s \in Sessions, Respond(s) PROVE SawStops'
    BY <2>1, <2>3, <2>6 DEF Respond, DestroyDelete, RunDispatch, RunSave, FinalizeSlips,
       FinalizeLock, SlipFinalizeSave, EditSave, At, SawStops, Threads
  <2>7. ASSUME NEW w \in Workers, Work(w) PROVE SawStops'
    <3> w \in Threads
      BY DEF Threads
    <3>1. ASSUME NEW c \in Chords, NEW e \in Employees, TaskFetch(w, c, e) PROVE SawStops'
      BY <3>1 DEF TaskFetch, SawStops
    <3>2. ASSUME th' = th PROVE SawStops'
      BY <3>2 DEF SawStops
    <3>3. CASE RunTask(w)
      BY <2>2, <3>2, <3>3 DEF RunTask
    <3>4. CASE RunNobody(w) \/ \E payable \in SUBSET Employees : RunChord(w, payable)
      BY <2>1, <3>4 DEF RunNobody, RunChord
    <3>5. CASE RecordError(w)
      BY <2>1, <3>5 DEF RecordError
    <3>6. CASE ClearError(w)
      BY <2>3, <3>6 DEF ClearError, At, SawStops
    <3>7. CASE \E c \in Chords : FinalizeTask(w, c)
      BY <3>2, <3>7 DEF FinalizeTask
    <3> QED
      BY <2>7, <3>1, <3>3, <3>4, <3>5, <3>6, <3>7 DEF Work
  <2>8. ASSUME NEW t \in Mortal, Crash(t) PROVE SawStops'
    BY <2>1, <2>8, DistinctAssumption DEF Crash, Threads
  <2>9. CASE \/ UNCHANGED vars
             \/ \E e \in Employees : ChangeSource(e)
             \/ \E c \in Chords, e \in Employees : Redeliver(c, e)
    BY <2>9 DEF vars, ChangeSource, Redeliver, SawStops
  <2> QED
    BY <2>4, <2>5, <2>6, <2>7, <2>8, <2>9 DEF Next
<1> QED
  BY <1>1, <1>2, IndTypeCorrect, PTL DEF Spec

\* Once the period is locked and every handler at work knows it, nothing that
\* was final changes any more, however often a task is delivered.
THEOREM LockHoldsCorrect == Spec => LockHolds
<1> DEFINE Kept == /\ locked'
                   /\ \A e \in Employees : slip[e] = "finalized" =>
                         slip'[e] = "finalized" /\ figures'[e] = figures[e]
                   /\ errors' \subseteq errors /\ repaid' = repaid
<1>1. SawStops /\ [Next]_vars /\ Drained => Kept
  <2> SUFFICES ASSUME SawStops, [Next]_vars, Drained PROVE Kept
    OBVIOUS
  <2>1. \A t \in Threads : At(t, "idle") \/ (At(t, "compute") /\ Refuses(t))
    BY DEF Drained, SawStops, At, Refuses
  <2>2. ASSUME UNCHANGED <<locked, slip, figures, errors, repaid>> PROVE Kept
    BY <2>2 DEF Drained
  <2>3. ASSUME NEW s \in Sessions, Request(s) \/ Respond(s) PROVE Kept
    <3> s \in Threads
      BY DEF Threads
    <3>1. CASE Request(s)
      BY <2>2, <3>1 DEF Request, DestroyCheck, RunCheck, FinalizeCheck, SlipFinalizeCheck,
         EditCheck, RecomputeCheck, rowVars
    <3>2. ~Respond(s)
      BY <2>1 DEF At, Respond, DestroyDelete, RunDispatch, RunSave, FinalizeSlips,
         FinalizeLock, SlipFinalizeSave, EditSave
    <3> QED
      BY <2>3, <3>1, <3>2
  <2>4. ASSUME NEW t \in Threads, Compute(t) PROVE Kept
    <3>1. ComputeRefused(t)
      BY <2>1, <2>4 DEF At, Compute, ComputeCheck, ComputeWrite, ComputeFails, Recorded, ApplyLoans
    <3> QED
      BY <2>2, <3>1 DEF ComputeRefused, rowVars
  <2>5. ASSUME NEW w \in Workers, Work(w) PROVE Kept
    <3> w \in Threads
      BY DEF Threads
    <3>1. RunTask(w) \/ \E c \in Chords : FinalizeTask(w, c) \/ \E e \in Employees : TaskFetch(w, c, e)
      BY <2>1, <2>5 DEF At, Work, RunNobody, RunChord, RecordError, ClearError
    <3> QED
      BY <2>2, <3>1 DEF RunTask, FinalizeTask, TaskFetch, rowVars
  <2>6. CASE \/ UNCHANGED vars
             \/ \E t \in Mortal : Crash(t)
             \/ \E e \in Employees : ChangeSource(e)
             \/ \E c \in Chords, e \in Employees : Redeliver(c, e)
    BY <2>2, <2>6 DEF vars, Crash, ChangeSource, Redeliver, rowVars
  <2> QED
    BY <2>3, <2>4, <2>5, <2>6 DEF Next
<1> QED
  BY <1>1, SawStopsCorrect, PTL DEF Spec, LockHolds

-----------------------------------------------------------------------------
(* What one HR user may rely on, for every number of employees and workers: *)
(* the period that is locked is settled, nobody is dropped, final figures  *)
(* stay and a started run is kept.  Workers may die; the user's own        *)
(* requests do not, and the broker delivers once.                          *)

Alone == /\ \A s, t \in Sessions : s = t
         /\ MaxRedeliver = 0 /\ Mortal \cap Sessions = {}

Works(w) == th[w].pc \in TaskPCs

\* Nothing has been dispatched yet.
Fresh ==
    /\ status \in {"draft", "deleted"} /\ ~locked
    /\ runQ = 0 /\ chords = 0
    /\ \A w \in Workers : At(w, "idle")

\* Everything dispatched has come back, and nothing will start again.
Finished ==
    /\ sent > 0 /\ runQ = 0 /\ queued = {}
    /\ \A w \in Workers : At(w, "idle")
    /\ \A c \in Chords : {c} \X header[c] \subseteq returned

\* What finalize freezes.
Frozen ==
    /\ status = "completed" /\ errors = {}
    /\ \A e \in Employees : slip[e] # "draft"
    /\ \A c \in Chords : \A e \in header[c] : slip[e] = "finalized"

\* The run is dispatched at most once: PROCESSING is saved before the one user
\* can press another button.
OneDispatch ==
    /\ sent = 0 => Fresh
    /\ sent > 0 => status # "deleted"
    /\ sent > 0 /\ status = "draft" => \E s \in Sessions : At(s, "run_sent")
    /\ \A s \in Sessions : At(s, "run_sent") => sent > 0
    /\ \A s \in Sessions : At(s, "destroy") \/ At(s, "run_checked") =>
          sent = 0 /\ status = "draft"

\* The dispatch is in one place: the broker, one worker, or the one chord.
OneMessage ==
    /\ runQ \in {0, 1} /\ chords \in {0, 1}
    /\ runQ = 1 => chords = 0 /\ \A w \in Workers : ~At(w, "run_task")
    /\ \A w \in Workers : At(w, "run_task") =>
          runQ = 0 /\ chords = 0 /\ \A v \in Workers : At(v, "run_task") => v = w
    /\ \A c \in Chords : header[c] # {} => c = 1 /\ chords = 1

\* So is each task of the chord: the broker, one worker, or back.
OneTask ==
    /\ \A c \in Chords, e \in Employees :
          <<c, e>> \in queued \/ <<c, e>> \in returned => e \in header[c]
    /\ \A c \in Chords, e \in Employees : ~(<<c, e>> \in queued /\ <<c, e>> \in returned)
    /\ \A w \in Workers : At(w, "idle") \/ At(w, "run_task") \/ Works(w)
    /\ \A w \in Workers : Works(w) =>
          /\ th[w].chord = 1 /\ th[w].emp \in header[1]
          /\ <<1, th[w].emp>> \notin queued /\ <<1, th[w].emp>> \notin returned
          /\ \A v \in Workers : Works(v) /\ th[v].emp = th[w].emp => v = w

\* A task finds no payslip, writes one or records an error, and then returns; a
\* request of the user works on a draft.
Results ==
    /\ chords = 0 => \A e \in Employees : slip[e] = "none"
    /\ \A e \in Employees : <<1, e>> \in queued => slip[e] = "none"
    /\ \A e \in Employees : <<1, e>> \in returned => slip[e] # "none" \/ e \in errors
    /\ \A w \in Workers : th[w].pc \in {"compute", "write", "error"} => slip[th[w].emp] = "none"
    /\ \A w \in Workers : th[w].pc \in {"clear", "loans"} => slip[th[w].emp] # "none"
    /\ \A s \in Sessions : th[s].pc \in {"compute", "write", "slip_fin", "slip_edit"} =>
          slip[th[s].emp] = "draft"
    /\ \A e \in Employees : slip[e] # "none" => figures[e] # Broken

\* What finalize has checked stays true until it has locked, and after.
Settled ==
    /\ status = "completed" \/ called # {} => Finished
    /\ \A t \in Threads : th[t].saw => locked
    /\ \A s \in Sessions : At(s, "fin_slips") => status = "completed" /\ errors = {}
    /\ \A s \in Sessions : At(s, "fin_lock") => Frozen
    /\ locked => Frozen /\ \A s \in Sessions : th[s].pc \in {"idle", "fin_slips", "fin_lock"}
    /\ called # {} => \A e \in Employees : rollup[e] = Broken <=> slip[e] = "none"

Core == OneDispatch /\ OneMessage /\ OneTask /\ Results /\ Settled
Inv  == IndType /\ Core

-----------------------------------------------------------------------------
(* A thread that moves *)

\* What a step of thread t does to the records of the threads.
LEMMA Moves ==
    ASSUME th \in [Threads -> ThreadRecord], NEW t \in Threads
    PROVE  /\ \A p \in PCs : Goto(t, p) =>
                 /\ th'[t].pc = p /\ th'[t].emp = th[t].emp
                 /\ th'[t].chord = th[t].chord /\ th'[t].saw = th[t].saw
                 /\ \A u \in Threads : u # t => th'[u] = th[u]
           /\ \A p \in PCs, e \in Employees \cup {Nobody} : Begin(t, p, e) =>
                 /\ th'[t].pc = p /\ th'[t].emp = e /\ ~th'[t].saw
                 /\ \A u \in Threads : u # t => th'[u] = th[u]
           /\ Done(t) =>
                 /\ th'[t].pc = "idle" /\ ~th'[t].saw
                 /\ \A u \in Threads : u # t => th'[u] = th[u]
<1>1. ASSUME NEW p \in PCs, Goto(t, p)
      PROVE  /\ th'[t].pc = p /\ th'[t].emp = th[t].emp
             /\ th'[t].chord = th[t].chord /\ th'[t].saw = th[t].saw
             /\ \A u \in Threads : u # t => th'[u] = th[u]
  BY <1>1 DEF Goto, ThreadRecord
<1>2. ASSUME NEW p \in PCs, NEW e \in Employees \cup {Nobody}, Begin(t, p, e)
      PROVE  /\ th'[t].pc = p /\ th'[t].emp = e /\ ~th'[t].saw
             /\ \A u \in Threads : u # t => th'[u] = th[u]
  BY <1>2 DEF Begin, Idle
<1>3. ASSUME Done(t)
      PROVE  /\ th'[t].pc = "idle" /\ ~th'[t].saw
             /\ \A u \in Threads : u # t => th'[u] = th[u]
  BY <1>3 DEF Done, Idle
<1> QED
  BY <1>1, <1>2, <1>3

\* A step of the one user's request that leaves the broker alone keeps whatever
\* is about workers and messages.
LEMMA MessagesKept ==
    ASSUME Inv, NEW s \in Sessions, UNCHANGED msgVars,
           \A u \in Threads : u # s => th'[u] = th[u]
    PROVE  OneMessage' /\ OneTask'
<1> \A w \in Workers : th'[w] = th[w]
  BY DistinctAssumption DEF Threads
<1>1. OneMessage'
  BY DEF Inv, Core, OneMessage, At, msgVars
<1>2. OneTask'
  BY DEF Inv, Core, OneTask, At, Works, msgVars
<1> QED
  BY <1>1, <1>2

\* The user presses a button: a handler starts.
LEMMA RequestStep ==
    ASSUME Inv, Alone, NEW s \in Sessions, Request(s)
    PROVE  Core'
<1> TypeOK /\ th \in [Threads -> ThreadRecord] /\ s \in Threads
  BY DEF Inv, Core, IndType, TypeOK, Threads
<1>1. PICK p \in {"destroy", "run_checked", "fin_slips", "slip_fin", "slip_edit", "compute"} :
         /\ th[s].pc = "idle" /\ th'[s].pc = p
         /\ p \in {"destroy", "run_checked"} => status = "draft"
         /\ p = "fin_slips" => status = "completed" /\ errors = {}
         /\ p \in {"slip_fin", "slip_edit", "compute"} =>
               th'[s].emp \in Employees /\ slip[th'[s].emp] = "draft"
         /\ th'[s].saw => locked
         /\ \A u \in Threads : u # s => th'[u] = th[u]
  <2>1. ASSUME NEW e \in Employees, RecomputeCheck(s, e)
        PROVE  /\ th[s].pc = "idle" /\ th'[s].pc = "compute" /\ th'[s].emp = e
               /\ slip[e] = "draft" /\ (th'[s].saw => locked)
               /\ \A u \in Threads : u # s => th'[u] = th[u]
    BY <2>1 DEF RecomputeCheck, At, Idle
  <2>2. ASSUME NEW e \in Employees, SlipFinalizeCheck(s, e) \/ EditCheck(s, e)
        PROVE  /\ th[s].pc = "idle" /\ th'[s].pc \in {"slip_fin", "slip_edit"} /\ th'[s].emp = e
               /\ slip[e] = "draft" /\ ~th'[s].saw
               /\ \A u \in Threads : u # s => th'[u] = th[u]
    BY <2>2, Moves DEF SlipFinalizeCheck, EditCheck, Editable, At, PCs
  <2>3. CASE DestroyCheck(s) \/ RunCheck(s)
    BY <2>3, Moves DEF DestroyCheck, Destroyable, RunCheck, At, PCs
  <2>4. CASE FinalizeCheck(s)
    BY <2>4, Moves DEF FinalizeCheck, Finalizable, At, PCs
  <2> QED
    BY <2>1, <2>2, <2>3, <2>4 DEF Request
<1>2. UNCHANGED <<rowVars, msgVars>>
  BY DEF Request, DestroyCheck, RunCheck, FinalizeCheck, SlipFinalizeCheck, EditCheck,
     RecomputeCheck
<1> \A t \in Sessions : t = s
  BY DEF Alone
<1> \A w \in Workers : th'[w] = th[w]
  BY <1>1, DistinctAssumption DEF Threads
<1>3. OneDispatch'
  BY <1>1, <1>2 DEF Inv, Core, OneDispatch, Fresh, At, TypeOK, rowVars, msgVars
<1>4. OneMessage' /\ OneTask'
  BY <1>1, <1>2, MessagesKept
<1>5. Results'
  BY <1>1, <1>2 DEF Inv, Core, Results, rowVars, msgVars
<1>6. Settled'
  BY <1>1, <1>2 DEF Inv, Core, Settled, Finished, Frozen, At, Threads, rowVars, msgVars
<1> QED
  BY <1>3, <1>4, <1>5, <1>6 DEF Core

\* The handler goes on: run, finalize, destroy and the payslip actions.
LEMMA RespondStep ==
    ASSUME Inv, Alone, NEW s \in Sessions, Respond(s)
    PROVE  Core'
<1> TypeOK /\ th \in [Threads -> ThreadRecord] /\ s \in Threads
  BY DEF Inv, Core, IndType, TypeOK, Threads
<1> \A t \in Sessions : t = s
  BY DEF Alone
<1> DEFINE Others == \A u \in Threads : u # s => th'[u] = th[u]
<1>0. Others => (\A w \in Workers : th'[w] = th[w])
  BY DistinctAssumption DEF Threads
<1>1. CASE DestroyDelete(s)
  <2>1. /\ th[s].pc = "destroy" /\ th'[s].pc = "idle" /\ ~th'[s].saw /\ Others
        /\ status' = "deleted" /\ errors' = {} /\ UNCHANGED <<locked, rollup, figures, msgVars>>
        /\ \A e \in Employees : slip'[e] = "none"
    BY <1>1, Moves DEF DestroyDelete, At
  <2>2. Fresh /\ sent = 0
    BY <2>1 DEF Inv, Core, OneDispatch, At
  <2>3. OneDispatch'
    BY <1>0, <2>1, <2>2 DEF Inv, Core, OneDispatch, Fresh, At, TypeOK, msgVars
  <2>4. OneMessage' /\ OneTask'
    BY <2>1, MessagesKept
  <2>5. \A e \in Employees : <<1, e>> \notin returned
    <3>1. ASSUME NEW e \in Employees, <<1, e>> \in returned PROVE FALSE
      <4>1. 1 \in Chords
        BY <3>1 DEF TypeOK, Slots
      <4> QED
        BY <2>2, <3>1, <4>1 DEF Inv, Core, Fresh, OneMessage, OneTask
    <3> QED
      BY <3>1
  <2>6. Results'
    BY <1>0, <2>1, <2>2, <2>5 DEF Inv, Core, Results, Fresh, At, msgVars
  <2>7. Settled'
    BY <1>0, <2>1, <2>2 DEF Inv, Core, Settled, Fresh, Finished, At, Threads, msgVars
  <2> QED
    BY <2>3, <2>4, <2>6, <2>7 DEF Core
<1>2. CASE RunDispatch(s)
  <2>1. /\ th[s].pc = "run_checked" /\ th'[s].pc = "run_sent" /\ th'[s].saw = th[s].saw /\ Others
        /\ sent' = sent + 1 /\ runQ' = runQ + 1
        /\ UNCHANGED <<rowVars, chords, header, queued, returned, called>>
    BY <1>2, Moves DEF RunDispatch, At, PCs
  <2>2. Fresh /\ sent = 0 /\ status = "draft"
    BY <2>1 DEF Inv, Core, OneDispatch, At
  <2>3. OneDispatch'
    BY <1>0, <2>1, <2>2 DEF OneDispatch, At, rowVars
  <2>4. OneMessage'
    BY <1>0, <2>1, <2>2 DEF Inv, Core, OneMessage, Fresh, At
  <2>5. OneTask'
    BY <1>0, <2>1 DEF Inv, Core, OneTask, Works, At
  <2>6. Results'
    BY <1>0, <2>1 DEF Inv, Core, Results, rowVars
  <2>7. Settled'
    BY <1>0, <2>1, <2>2 DEF Inv, Core, Settled, Fresh, Finished, At, Threads, rowVars
  <2> QED
    BY <2>3, <2>4, <2>5, <2>6, <2>7 DEF Core
<1>3. CASE RunSave(s)
  <2>1. /\ th[s].pc = "run_sent" /\ th'[s].pc = "idle" /\ ~th'[s].saw /\ Others
        /\ sent > 0 /\ status' = "processing"
        /\ UNCHANGED <<locked, rollup, slip, figures, errors, msgVars>>
    BY <1>3, Moves DEF RunSave, At, Inv, Core, OneDispatch
  <2>2. OneDispatch'
    BY <1>0, <2>1 DEF OneDispatch, At, TypeOK, msgVars
  <2>3. OneMessage' /\ OneTask'
    BY <2>1, MessagesKept
  <2>4. Results'
    BY <1>0, <2>1 DEF Inv, Core, Results, msgVars
  <2>5. Settled'
    BY <1>0, <2>1 DEF Inv, Core, Settled, Finished, At, Threads, msgVars
  <2> QED
    BY <2>2, <2>3, <2>4, <2>5 DEF Core
<1>4. CASE FinalizeSlips(s)
  <2>1. /\ th[s].pc = "fin_slips" /\ th'[s].pc = "fin_lock" /\ th'[s].saw = th[s].saw /\ Others
        /\ UNCHANGED <<status, locked, rollup, figures, errors, msgVars>>
        /\ \A e \in Employees : slip'[e] = IF slip[e] = "draft" THEN "finalized" ELSE slip[e]
    BY <1>4, Moves DEF FinalizeSlips, At, PCs
  <2>2. status = "completed" /\ errors = {} /\ Finished
    BY <2>1 DEF Inv, Core, Settled, At
  <2>3. OneDispatch'
    BY <1>0, <2>1, <2>2 DEF Inv, Core, OneDispatch, Fresh, At, msgVars
  <2>4. OneMessage' /\ OneTask'
    BY <2>1, MessagesKept
  <2>5. Results'
    BY <1>0, <2>1, <2>2 DEF Inv, Core, Results, Finished, At, TypeOK, SlipStatus, msgVars
  <2>6. Frozen'
    <3>1. \A c \in Chords : \A e \in header[c] : e \in Employees /\ slip[e] # "none"
      <4> SUFFICES ASSUME NEW c \in Chords, NEW e \in header[c]
                   PROVE  e \in Employees /\ slip[e] # "none"
        OBVIOUS
      <4>1. e \in Employees /\ c = 1
        BY DEF TypeOK, Inv, Core, OneMessage
      <4>2. <<1, e>> \in returned
        BY <2>2, <4>1 DEF Finished
      <4> QED
        BY <2>2, <4>1, <4>2 DEF Inv, Core, Results
    <3>2. header' = header
      BY <2>1 DEF msgVars
    <3> QED
      BY <2>1, <2>2, <3>1, <3>2 DEF Frozen, TypeOK, SlipStatus
  <2>7. Settled'
    BY <1>0, <2>1, <2>2, <2>6 DEF Inv, Core, Settled, Finished, At, Threads, msgVars
  <2> QED
    BY <2>3, <2>4, <2>5, <2>7 DEF Core
<1>5. CASE FinalizeLock(s)
  <2>1. /\ th[s].pc = "fin_lock" /\ th'[s].pc = "idle" /\ ~th'[s].saw /\ Others
        /\ UNCHANGED <<status, rollup, slip, figures, errors, msgVars>>
        /\ locked' \in BOOLEAN /\ (locked => locked')
    BY <1>5, Moves DEF FinalizeLock, At, TypeOK
  <2>2. Frozen /\ Finished
    BY <2>1 DEF Inv, Core, Settled, Frozen, At
  <2>3. OneDispatch'
    BY <1>0, <2>1, <2>2 DEF Inv, Core, OneDispatch, Finished, Frozen, At, msgVars
  <2>4. OneMessage' /\ OneTask'
    BY <2>1, MessagesKept
  <2>5. Results'
    BY <1>0, <2>1, <2>2 DEF Inv, Core, Results, msgVars
  <2>6. Settled'
    BY <1>0, <2>1, <2>2 DEF Inv, Core, Settled, Finished, Frozen, At, Threads, msgVars
  <2> QED
    BY <2>3, <2>4, <2>5, <2>6 DEF Core
<1>6. CASE SlipFinalizeSave(s) \/ EditSave(s)
  <2>1. /\ th[s].pc \in {"slip_fin", "slip_edit"} /\ th'[s].pc = "idle" /\ ~th'[s].saw /\ Others
        /\ UNCHANGED <<status, locked, rollup, errors, msgVars>>
    BY <1>6, Moves DEF SlipFinalizeSave, EditSave, At
  <2>2. slip[th[s].emp] = "draft" /\ ~locked
    BY <2>1 DEF Inv, Core, Results, Settled
  <2>3. /\ slip' = slip \/ slip' = [slip EXCEPT ![th[s].emp] = "finalized"]
        /\ figures' = figures \/ figures' = [figures EXCEPT ![th[s].emp] = Edited]
    BY <1>6 DEF SlipFinalizeSave, EditSave
  <2>4. \A e \in Employees : (slip'[e] = "none" <=> slip[e] = "none")
                          /\ (figures[e] # Broken => figures'[e] # Broken)
    BY <2>2, <2>3, DistinctAssumption DEF TypeOK
  <2>5. \A w \in Workers : Works(w) => th[w].emp \in Employees
    BY DEF Inv, Core, IndType, Assigned, Works, Slots
  <2>6. OneDispatch'
    BY <1>0, <2>1 DEF Inv, Core, OneDispatch, Fresh, At, msgVars
  <2>7. OneMessage' /\ OneTask'
    BY <2>1, MessagesKept
  <2>8. Results'
    BY <1>0, <2>1, <2>4, <2>5 DEF Inv, Core, Results, Works, TaskPCs, msgVars
  <2>9. Settled'
    BY <1>0, <2>1, <2>2, <2>4 DEF Inv, Core, Settled, Finished, At, Threads, msgVars
  <2> QED
    BY <2>6, <2>7, <2>8, <2>9 DEF Core
<1> QED
  BY <1>1, <1>2, <1>3, <1>4, <1>5, <1>6 DEF Respond

-----------------------------------------------------------------------------
(* compute_payslip, in a worker or in the user's recompute *)

\* What a worker in process_payslip knows: its task is in no other place, the
\* run is there and nothing has finished.
LEMMA AtWork ==
    ASSUME Inv, NEW w \in Workers, Works(w)
    PROVE  /\ th[w].emp \in Employees /\ th[w].chord = 1 /\ 1 \in Chords
           /\ th[w].emp \in header[1] /\ chords = 1
           /\ sent > 0 /\ status \notin {"deleted", "completed"} /\ ~Finished
           /\ ~locked /\ called = {} /\ ~th[w].saw
<1>1. th[w].emp \in Employees /\ th[w].chord = 1 /\ 1 \in Chords
  BY DEF Inv, Core, IndType, Assigned, Works, OneTask, Slots
<1>2. th[w].emp \in header[1] /\ chords = 1
  BY <1>1 DEF Inv, Core, OneTask, OneMessage
<1>3. sent > 0
  BY DEF Inv, Core, IndType, TypeOK, OneDispatch, Fresh, Works, TaskPCs, At
<1>4. ~Finished
  BY DEF Finished, Works, TaskPCs, At
<1>5. status \notin {"deleted", "completed"} /\ ~locked /\ called = {}
  BY <1>3, <1>4 DEF Inv, Core, OneDispatch, Settled, Frozen
<1>6. ~th[w].saw
  BY <1>5 DEF Inv, Core, Settled, Threads
<1> QED
  BY <1>1, <1>2, <1>3, <1>4, <1>5, <1>6

\* A worker goes on inside process_payslip, or ends and may return its task:
\* whatever it does to payslips and errors, nothing is finished yet.
LEMMA WorkerStep ==
    ASSUME Inv, NEW w \in Workers, Works(w),
           \A u \in Threads : u # w => th'[u] = th[u],
           th'[w].pc \in TaskPCs \/ th'[w].pc = "idle", ~th'[w].saw,
           th'[w].pc \in TaskPCs => th'[w].emp = th[w].emp /\ th'[w].chord = th[w].chord
                                    /\ returned' = returned,
           \A c \in Chords, e \in Employees : <<c, e>> \in returned' =>
               <<c, e>> \in returned \/ (c = 1 /\ e = th[w].emp),
           UNCHANGED <<status, locked, runQ, sent, chords, header, queued, called>>
    PROVE  OneDispatch' /\ OneMessage' /\ OneTask' /\ Settled'
<1> th[w].emp \in Employees /\ th[w].emp \in header[1] /\ chords = 1 /\ sent > 0
  BY AtWork
<1> /\ \A s \in Sessions : th'[s] = th[s]
    /\ \A v \in Workers : v # w => th'[v] = th[v]
  BY DistinctAssumption DEF Threads
<1>1. OneDispatch'
  BY DEF Inv, Core, OneDispatch, At
<1>2. OneMessage'
  BY DEF Inv, Core, OneMessage, At, TaskPCs
<1>3. OneTask'
  <2>1. ~(<<1, th[w].emp>> \in queued)
    BY DEF Inv, Core, OneTask
  <2>2. (\A c \in Chords, e \in Employees :
          <<c, e>> \in queued \/ <<c, e>> \in returned => e \in header[c])'
    BY DEF Inv, Core, OneTask
  <2>3. (\A c \in Chords, e \in Employees : ~(<<c, e>> \in queued /\ <<c, e>> \in returned))'
    BY <2>1 DEF Inv, Core, OneTask
  <2>4. (\A v \in Workers : At(v, "idle") \/ At(v, "run_task") \/ Works(v))'
    BY DEF Inv, Core, OneTask, At, Works
  <2>5. ASSUME NEW v \in Workers, Works(v)'
        PROVE  (/\ th[v].chord = 1 /\ th[v].emp \in header[1]
                /\ <<1, th[v].emp>> \notin queued /\ <<1, th[v].emp>> \notin returned
                /\ \A u \in Workers : Works(u) /\ th[u].emp = th[v].emp => u = v)'
    <3>1. /\ Works(v) /\ th'[v].chord = th[v].chord /\ th'[v].emp = th[v].emp
          /\ \A u \in Workers : Works(u)' => Works(u) /\ th'[u].emp = th[u].emp
      BY <2>5 DEF Works, TaskPCs
    <3>2. /\ th[v].chord = 1 /\ th[v].emp \in header[1] /\ th[v].emp \in Employees /\ 1 \in Chords
          /\ <<1, th[v].emp>> \notin queued /\ <<1, th[v].emp>> \notin returned
          /\ \A u \in Workers : Works(u) /\ th[u].emp = th[v].emp => u = v
      BY <3>1, AtWork DEF Inv, Core, OneTask
    <3>3. <<1, th[v].emp>> \notin returned'
      <4>1. CASE v = w
        BY <2>5, <3>2, <4>1 DEF Works, TaskPCs
      <4>2. CASE v # w
        BY <3>2, <4>2
      <4> QED
        BY <4>1, <4>2
    <3> QED
      BY <3>1, <3>2, <3>3
  <2> QED
    BY <2>2, <2>3, <2>4, <2>5 DEF OneTask
<1>4. Settled'
  BY AtWork DEF Inv, Core, Settled, Frozen, At, Threads
<1> QED
  BY <1>1, <1>2, <1>3, <1>4

\* compute_payslip in a worker.
LEMMA WorkerComputes ==
    ASSUME Inv, NEW w \in Workers, Works(w), Compute(w)
    PROVE  Core'
<1> TypeOK /\ th \in [Threads -> ThreadRecord] /\ w \in Threads
  BY DEF Inv, Core, IndType, TypeOK, Threads
<1> DEFINE e == th[w].emp
           Others == \A u \in Threads : u # w => th'[u] = th[u]
           Rest == OneDispatch' /\ OneMessage' /\ OneTask' /\ Settled'
<1>0. Others => /\ \A s \in Sessions : th'[s] = th[s]
                /\ \A v \in Workers : v # w => th'[v] = th[v]
  BY DistinctAssumption DEF Threads
<1>1. /\ e \in Employees /\ chords = 1 /\ status # "deleted" /\ ~th[w].saw
      /\ <<1, e>> \notin queued /\ <<1, e>> \notin returned
      /\ \A v \in Workers : Works(v) => th[v].emp \in Employees
      /\ \A v \in Workers : Works(v) /\ v # w => th[v].emp # e
  BY AtWork DEF Inv, Core, OneTask
<1>2. ~ComputeRefused(w)
  BY <1>1 DEF ComputeRefused, Refuses, At, Inv, Core, Results
<1>3. CASE ComputeCheck(w)
  <2>1. /\ th[w].pc = "compute" /\ th'[w].pc = "write" /\ Others
        /\ th'[w].emp = e /\ th'[w].chord = th[w].chord /\ ~th'[w].saw
        /\ UNCHANGED <<rowVars, msgVars>>
    BY <1>1, <1>3, Moves DEF ComputeCheck, At, PCs
  <2>2. Rest
    BY <2>1, WorkerStep DEF TaskPCs, rowVars, msgVars
  <2>3. Results'
    BY <1>0, <2>1 DEF Inv, Core, Results, rowVars, msgVars
  <2> QED
    BY <2>2, <2>3 DEF Core
<1>4. CASE ComputeWrite(w)
  <2>1. /\ th[w].pc = "write" /\ th'[w].pc = "clear" /\ Others
        /\ th'[w].emp = e /\ th'[w].chord = th[w].chord /\ ~th'[w].saw
        /\ UNCHANGED <<status, locked, rollup, errors, msgVars>>
        /\ slip' = [slip EXCEPT ![e] = "draft"]
        /\ figures' = [figures EXCEPT ![e] = source[e]] /\ source[e] \in Figures
    BY <1>1, <1>4, Moves DEF ComputeWrite, At, PCs
  <2>2. Rest
    BY <2>1, WorkerStep DEF TaskPCs, msgVars
  <2>3. slip[e] = "none"
    BY <2>1 DEF Inv, Core, Results
  <2>4. \A s \in Sessions : th[s].pc \in {"compute", "write", "slip_fin", "slip_edit"} =>
            th[s].emp # e
    BY <2>3 DEF Inv, Core, Results
  <2>5. \A f \in Employees : /\ slip'[f] = IF f = e THEN "draft" ELSE slip[f]
                             /\ figures'[f] = IF f = e THEN source[e] ELSE figures[f]
    BY <2>1 DEF TypeOK
  <2>6. \A s \in Sessions : th[s].pc \in {"compute", "write", "slip_fin", "slip_edit"} =>
            slip'[th[s].emp] = "draft"
    BY <2>1, <2>4 DEF Inv, Core, Results, TypeOK
  <2>7. Results'
    BY <1>0, <1>1, <2>1, <2>5, <2>6, DistinctAssumption DEF Inv, Core, Results, Works, TaskPCs, msgVars
  <2> QED
    BY <2>2, <2>7 DEF Core
<1>5. CASE ComputeFails(w)
  <2>1. /\ th[w].pc = "write" /\ Others /\ ~th'[w].saw
        /\ \/ /\ th'[w].pc = "error"
              /\ th'[w].emp = e /\ th'[w].chord = th[w].chord
           \/ th'[w].pc = "idle"
        /\ UNCHANGED <<rowVars, msgVars>>
    BY <1>1, <1>5, Moves DEF ComputeFails, Recorded, At, PCs
  <2>2. Rest
    BY <2>1, WorkerStep DEF TaskPCs, rowVars, msgVars
  <2>3. Results'
    BY <1>0, <2>1 DEF Inv, Core, Results, rowVars, msgVars
  <2> QED
    BY <2>2, <2>3 DEF Core
<1>6. CASE ApplyLoans(w)
  <2>1. /\ th[w].pc = "loans" /\ th'[w].pc = "idle" /\ Others /\ ~th'[w].saw
        /\ returned' = returned \cup {<<th[w].chord, e>>}
        /\ UNCHANGED <<status, locked, rollup, slip, figures, errors,
                       runQ, sent, chords, header, queued, called>>
    BY <1>6, Moves DEF ApplyLoans, Return, At
  <2>2. th[w].chord = 1
    BY AtWork
  <2>3. \A c \in Chords, f \in Employees : <<c, f>> \in returned' =>
            <<c, f>> \in returned \/ (c = 1 /\ f = e)
    BY <2>1, <2>2
  <2>4. Rest
    BY <2>1, <2>3, WorkerStep DEF TaskPCs
  <2>5. \A f \in Employees : <<1, f>> \in returned' => <<1, f>> \in returned \/ f = e
    BY <2>1
  <2>6. Results'
    BY <1>0, <2>1, <2>5 DEF Inv, Core, Results
  <2> QED
    BY <2>4, <2>6 DEF Core
<1> QED
  BY <1>2, <1>3, <1>4, <1>5, <1>6 DEF Compute

\* compute_payslip in the user's recompute.
LEMMA UserComputes ==
    ASSUME Inv, Alone, NEW s \in Sessions, Compute(s)
    PROVE  Core'
<1> TypeOK /\ th \in [Threads -> ThreadRecord] /\ s \in Threads /\ s \notin Workers
  BY DistinctAssumption DEF Inv, Core, IndType, TypeOK, Threads
<1> \A t \in Sessions : t = s
  BY DEF Alone
<1> DEFINE e == th[s].emp
           Others == \A u \in Threads : u # s => th'[u] = th[u]
<1>0. Others => (\A w \in Workers : th'[w] = th[w])
  BY DistinctAssumption DEF Threads
<1>1. /\ th[s].pc \in {"compute", "write", "loans"} /\ Others
      /\ \/ th'[s].pc = "idle"
         \/ th'[s].pc = "loans"
         \/ th[s].pc = "compute" /\ th'[s].pc = "write" /\ th'[s].emp = e
      /\ th'[s].saw => th[s].saw
      /\ UNCHANGED <<status, locked, rollup, errors, msgVars>>
  BY Moves DEF Compute, ComputeRefused, ComputeCheck, ComputeWrite, ComputeFails, Recorded, ApplyLoans,
     Return, At, PCs, rowVars, msgVars
<1>2. \/ UNCHANGED <<slip, figures>>
      \/ /\ th[s].pc = "write" /\ source[e] \in Figures
         /\ slip' = [slip EXCEPT ![e] = "draft"] /\ figures' = [figures EXCEPT ![e] = source[e]]
  BY DEF Compute, ComputeRefused, ComputeCheck, ComputeWrite, ComputeFails, Recorded, ApplyLoans, At, rowVars
<1>3. th[s].pc = "write" => slip[e] = "draft"
  BY DEF Inv, Core, Results
<1>4. slip' = slip /\ \A f \in Employees : figures[f] # Broken => figures'[f] # Broken
  BY <1>2, <1>3, DistinctAssumption DEF TypeOK
<1>5. ~locked
  BY <1>1 DEF Inv, Core, Settled
<1>6. OneDispatch'
  BY <1>0, <1>1 DEF Inv, Core, OneDispatch, Fresh, At, msgVars
<1>7. OneMessage' /\ OneTask'
  BY <1>1, MessagesKept
<1>8. Results'
  BY <1>0, <1>1, <1>4 DEF Inv, Core, Results, msgVars
<1>9. Settled'
  BY <1>0, <1>1, <1>4, <1>5 DEF Inv, Core, Settled, Finished, At, Threads, msgVars
<1> QED
  BY <1>6, <1>7, <1>8, <1>9 DEF Core

-----------------------------------------------------------------------------
(* The rest of the Celery tasks *)

\* While the dispatch is on its way nothing has finished, and no slip exists.
LEMMA OnTheWay ==
    ASSUME Inv, runQ > 0 \/ \E w \in Workers : At(w, "run_task")
    PROVE  /\ sent > 0 /\ chords = 0 /\ status \notin {"deleted", "completed"}
           /\ ~locked /\ called = {} /\ \A e \in Employees : slip[e] = "none"
           /\ \A c \in Chords : header[c] = {}
           /\ \A w \in Workers : ~Works(w)
           /\ queued = {} /\ returned = {}
<1>1. sent > 0 /\ chords = 0 /\ ~Finished
  BY DEF Inv, Core, IndType, TypeOK, OneDispatch, OneMessage, Fresh, Finished, At
<1>2. status \notin {"deleted", "completed"} /\ ~locked /\ called = {}
  BY <1>1 DEF Inv, Core, OneDispatch, Settled, Frozen
<1>3. (\A e \in Employees : slip[e] = "none") /\ \A c \in Chords : header[c] = {}
  BY <1>1 DEF Inv, Core, Results, OneMessage
<1>4. \A w \in Workers : ~Works(w)
  BY <1>1, AtWork
<1>5. queued = {} /\ returned = {}
  BY <1>3 DEF Inv, Core, IndType, TypeOK, Slots, OneTask
<1> QED
  BY <1>1, <1>2, <1>3, <1>4, <1>5

LEMMA RunStep ==
    ASSUME Inv, NEW w \in Workers,
           RunTask(w) \/ RunNobody(w) \/ \E payable \in SUBSET Employees : RunChord(w, payable)
    PROVE  Core'
<1> TypeOK /\ th \in [Threads -> ThreadRecord] /\ w \in Threads
  BY DEF Inv, Core, IndType, TypeOK, Threads
<1> DEFINE Others == \A u \in Threads : u # w => th'[u] = th[u]
<1>0. Others => /\ \A s \in Sessions : th'[s] = th[s]
                /\ \A v \in Workers : v # w => th'[v] = th[v]
  BY DistinctAssumption DEF Threads
<1>1. CASE RunTask(w)
  <2>0. runQ = 1
    BY <1>1 DEF RunTask, Inv, Core, OneMessage
  <2>1. /\ th[w].pc = "idle" /\ th'[w].pc = "run_task" /\ ~th'[w].saw /\ Others
        /\ runQ' = 0 /\ status' = "processing"
        /\ UNCHANGED <<locked, rollup, slip, figures, errors,
                       sent, chords, header, queued, returned, called>>
    BY <1>1, <2>0, OnTheWay, Moves DEF RunTask, At, PCs
  <2>2. OneDispatch'
    BY <1>0, <2>0, <2>1, OnTheWay DEF Inv, Core, OneDispatch, At
  <2>3. OneMessage'
    BY <1>0, <2>0, <2>1, OnTheWay DEF Inv, Core, OneMessage, At
  <2>4. OneTask'
    <3>1. \A v \in Workers : ~Works(v)'
      BY <1>0, <2>0, <2>1, OnTheWay DEF Works, TaskPCs
    <3> QED
      BY <1>0, <2>1, <3>1 DEF Inv, Core, OneTask, At, Works
  <2>5. Results'
    BY <1>0, <2>1 DEF Inv, Core, Results
  <2>6. Settled'
    BY <1>0, <2>0, <2>1, OnTheWay DEF Inv, Core, Settled, Frozen, At, Threads
  <2> QED
    BY <2>2, <2>3, <2>4, <2>5, <2>6 DEF Core
<1>2. CASE RunNobody(w)
  <2>0. At(w, "run_task")
    BY <1>2 DEF RunNobody
  <2>1. /\ th'[w].pc = "idle" /\ ~th'[w].saw /\ Others /\ status' = "completed"
        /\ UNCHANGED <<locked, rollup, slip, figures, errors, msgVars>>
    BY <1>2, <2>0, OnTheWay, Moves DEF RunNobody
  <2>2. OneDispatch'
    BY <1>0, <2>0, <2>1, OnTheWay DEF Inv, Core, OneDispatch, At, msgVars
  <2>3. OneMessage'
    BY <1>0, <2>0, <2>1 DEF Inv, Core, OneMessage, At, msgVars
  <2>4. OneTask'
    BY <1>0, <2>1 DEF Inv, Core, OneTask, At, Works, TaskPCs, msgVars
  <2>5. Results'
    BY <1>0, <2>1 DEF Inv, Core, Results, msgVars
  <2>6. \A v \in Workers : At(v, "idle")'
    BY <1>0, <2>0, <2>1, OnTheWay DEF Inv, Core, OneMessage, OneTask, At
  <2>7. Finished'
    BY <2>0, <2>1, <2>6, OnTheWay DEF Inv, Core, OneMessage, Finished, msgVars
  <2>8. Settled'
    BY <1>0, <2>0, <2>1, <2>7, OnTheWay DEF Inv, Core, Settled, Frozen, At, Threads, msgVars
  <2> QED
    BY <2>2, <2>3, <2>4, <2>5, <2>8 DEF Core
<1>3. ASSUME NEW payable \in SUBSET Employees, RunChord(w, payable)
      PROVE  Core'
  <2>0. At(w, "run_task")
    BY <1>3 DEF RunChord
  <2>1. /\ th'[w].pc = "idle" /\ ~th'[w].saw /\ Others
        /\ chords' = 1 /\ 1 \in Chords
        /\ \A c \in Chords : header'[c] = IF c = 1 THEN payable ELSE {}
        /\ queued' = {1} \X payable
        /\ UNCHANGED <<rowVars, runQ, sent, returned, called>>
    <3>1. chords = 0 /\ queued = {} /\ \A c \in Chords : header[c] = {}
      BY <2>0, OnTheWay
    <3>2. 1 \in Chords
      BY <1>3, <3>1, BoundsAssumption DEF RunChord, Chords
    <3>3. header' = [header EXCEPT ![1] = payable] /\ queued' = {1} \X payable
      BY <1>3, <3>1 DEF RunChord
    <3>4. \A c \in Chords : header'[c] = IF c = 1 THEN payable ELSE {}
      BY <3>1, <3>3 DEF TypeOK
    <3> QED
      BY <1>3, <3>1, <3>2, <3>3, <3>4, Moves DEF RunChord
  <2>2. OneDispatch'
    BY <1>0, <2>0, <2>1, OnTheWay DEF Inv, Core, OneDispatch, At, rowVars
  <2>3. \A v \in Workers : ~Works(v)' /\ ~At(v, "run_task")'
    BY <1>0, <2>0, <2>1, OnTheWay DEF Inv, Core, OneMessage, At, Works, TaskPCs
  <2>4. OneMessage'
    BY <2>0, <2>1, <2>3 DEF Inv, Core, OneMessage
  <2>5. OneTask'
    BY <1>0, <2>0, <2>1, <2>3, OnTheWay DEF Inv, Core, OneTask, At, Works
  <2>6. Results'
    BY <1>0, <2>0, <2>1, <2>3, OnTheWay DEF Inv, Core, Results, Works, TaskPCs, rowVars
  <2>7. Settled'
    BY <1>0, <2>0, <2>1, OnTheWay DEF Inv, Core, Settled, Frozen, At, Threads, rowVars
  <2> QED
    BY <2>2, <2>4, <2>5, <2>6, <2>7 DEF Core
<1> QED
  BY <1>1, <1>2, <1>3

LEMMA TaskStep ==
    ASSUME Inv, NEW w \in Workers,
           \/ RecordError(w) \/ ClearError(w)
           \/ \E c \in Chords : FinalizeTask(w, c) \/ \E e \in Employees : TaskFetch(w, c, e)
    PROVE  Core'
<1> TypeOK /\ th \in [Threads -> ThreadRecord] /\ w \in Threads
  BY DEF Inv, Core, IndType, TypeOK, Threads
<1> DEFINE Others == \A u \in Threads : u # w => th'[u] = th[u]
<1>0. Others => /\ \A s \in Sessions : th'[s] = th[s]
                /\ \A v \in Workers : v # w => th'[v] = th[v]
  BY DistinctAssumption DEF Threads
<1>1. CASE RecordError(w)
  <2> DEFINE e == th[w].emp
  <2>0. Works(w)
    BY <1>1 DEF RecordError, At, Works, TaskPCs
  <2>1. /\ th[w].pc = "error" /\ th'[w].pc = "idle" /\ ~th'[w].saw /\ Others
        /\ th[w].chord = 1 /\ e \in Employees
        /\ errors' = errors \cup {e} /\ returned' = returned \cup {<<th[w].chord, e>>}
        /\ UNCHANGED <<status, locked, rollup, slip, figures,
                       runQ, sent, chords, header, queued, called>>
    BY <1>1, <2>0, AtWork, Moves DEF RecordError, Return, At
  <2>2. \A c \in Chords, f \in Employees : <<c, f>> \in returned' =>
            <<c, f>> \in returned \/ (c = 1 /\ f = e)
    BY <2>1
  <2>3. OneDispatch' /\ OneMessage' /\ OneTask' /\ Settled'
    BY <2>0, <2>1, <2>2, WorkerStep DEF TaskPCs
  <2>4. \A f \in Employees : <<1, f>> \in returned' => <<1, f>> \in returned \/ f = e
    BY <2>1
  <2>5. Results'
    BY <1>0, <2>1, <2>4 DEF Inv, Core, Results
  <2> QED
    BY <2>3, <2>5 DEF Core
<1>2. CASE ClearError(w)
  <2>0. Works(w)
    BY <1>2 DEF ClearError, At, Works, TaskPCs
  <2>1. /\ th[w].pc = "clear" /\ th'[w].pc = "loans" /\ ~th'[w].saw /\ Others
        /\ th'[w].emp = th[w].emp /\ th'[w].chord = th[w].chord
        /\ errors' = errors \ {th[w].emp}
        /\ UNCHANGED <<status, locked, rollup, slip, figures, msgVars>>
    BY <1>2, <2>0, AtWork, Moves DEF ClearError, At, PCs
  <2>2. OneDispatch' /\ OneMessage' /\ OneTask' /\ Settled'
    BY <2>0, <2>1, WorkerStep DEF TaskPCs, msgVars
  <2>3. Results'
    BY <1>0, <2>1 DEF Inv, Core, Results, msgVars
  <2> QED
    BY <2>2, <2>3 DEF Core
<1>3. ASSUME NEW c \in Chords, FinalizeTask(w, c)
      PROVE  Core'
  <2>1. th' = th /\ UNCHANGED <<locked, slip, figures, errors,
                                runQ, sent, chords, header, queued, returned>>
    BY <1>3 DEF FinalizeTask
  <2>2. c = 1 /\ chords = 1 /\ {1} \X header[1] \subseteq returned
    BY <1>3 DEF FinalizeTask, AllReturned, Inv, Core, OneMessage
  <2>3. \A v \in Workers : At(v, "idle")
    <3>1. ASSUME NEW v \in Workers PROVE ~Works(v)
      BY <2>2, <3>1, AtWork DEF Inv, Core, OneTask
    <3> QED
      BY <2>2, <3>1 DEF Inv, Core, OneTask, OneMessage
  <2>4. Finished
    <3>1. queued = {}
      <4>1. \A d \in Chords, e \in Employees : <<d, e>> \notin queued
        BY <2>2 DEF Inv, Core, OneTask, OneMessage
      <4> QED
        BY <4>1 DEF TypeOK, Slots
    <3>2. sent > 0 /\ runQ = 0
      BY <2>2 DEF Inv, Core, OneMessage, OneDispatch, Fresh, TypeOK
    <3>3. \A d \in Chords : {d} \X header[d] \subseteq returned
      BY <2>2 DEF Inv, Core, OneMessage
    <3> QED
      BY <2>3, <3>1, <3>2, <3>3 DEF Finished
  <2>5. status' = "completed" /\ rollup' = Totals
    BY <1>3, <2>4 DEF FinalizeTask, Finished, Inv, Core, OneDispatch
  <2>6. OneDispatch'
    BY <2>1, <2>4, <2>5 DEF Inv, Core, OneDispatch, Finished, At
  <2>7. OneMessage' /\ OneTask'
    BY <2>1 DEF Inv, Core, OneMessage, OneTask, At, Works
  <2>8. Results'
    BY <2>1 DEF Inv, Core, Results
  <2>9. \A e \in Employees : rollup'[e] = Broken <=> slip'[e] = "none"
    BY <2>1, <2>5 DEF Totals, Inv, Core, Results
  <2>10. Finished'
    BY <2>1, <2>4 DEF Finished, At
  <2>11. Settled'
    BY <2>1, <2>5, <2>9, <2>10 DEF Inv, Core, Settled, Frozen, At
  <2> QED
    BY <2>6, <2>7, <2>8, <2>11 DEF Core
<1>4. ASSUME NEW c \in Chords, NEW e \in Employees, TaskFetch(w, c, e)
      PROVE  Core'
  <2>0. <<c, e>> \in queued /\ th[w].pc = "idle"
    BY <1>4 DEF TaskFetch, At
  <2>1. c = 1 /\ 1 \in Chords /\ chords = 1 /\ e \in header[1] /\ slip[e] = "none"
    BY <2>0 DEF Inv, Core, OneTask, OneMessage, Results
  <2>2. sent > 0 /\ ~Finished
    BY <2>0, <2>1 DEF Inv, Core, IndType, TypeOK, OneDispatch, Fresh, Finished
  <2>3. status \notin {"deleted", "completed"} /\ ~locked /\ called = {}
    BY <2>2 DEF Inv, Core, OneDispatch, Settled, Frozen
  <2>4. /\ th'[w].pc = "compute" /\ th'[w].emp = e /\ th'[w].chord = 1 /\ ~th'[w].saw /\ Others
        /\ queued' = queued \ {<<c, e>>}
        /\ UNCHANGED <<rowVars, runQ, sent, chords, header, returned, called>>
    BY <1>4, <2>1, <2>3 DEF TaskFetch
  <2>5. OneDispatch'
    BY <1>0, <2>2, <2>4 DEF Inv, Core, OneDispatch, At, rowVars
  <2>6. OneMessage'
    BY <1>0, <2>4 DEF Inv, Core, OneMessage, At
  <2>7. OneTask'
    <3>1. /\ \A d \in Chords, f \in Employees :
                <<d, f>> \in queued' <=> <<d, f>> \in queued /\ ~(d = 1 /\ f = e)
          /\ <<1, e>> \notin returned
      BY <2>0, <2>1, <2>4 DEF Inv, Core, OneTask
    <3>2. ASSUME NEW v \in Workers, Works(v) PROVE th[v].emp \in Employees /\ th[v].emp # e
      BY <2>0, <2>1, <3>2, AtWork DEF Inv, Core, OneTask
    <3>3. \A v \in Workers : Works(v)' <=> v = w \/ Works(v)
      BY <1>0, <2>4 DEF Works, TaskPCs
    <3>4. \A v \in Workers : At(v, "idle")' \/ At(v, "run_task")' \/ Works(v)'
      BY <1>0, <2>4, <3>3 DEF Inv, Core, OneTask, At
    <3>5. ASSUME NEW v \in Workers, Works(v)'
          PROVE  (/\ th[v].chord = 1 /\ th[v].emp \in header[1]
                  /\ <<1, th[v].emp>> \notin queued /\ <<1, th[v].emp>> \notin returned
                  /\ \A u \in Workers : Works(u) /\ th[u].emp = th[v].emp => u = v)'
      <4>1. CASE v = w
        BY <1>0, <2>1, <2>4, <3>1, <3>2, <3>3, <4>1
      <4>2. CASE v # w
        BY <1>0, <2>1, <2>4, <3>1, <3>2, <3>3, <3>5, <4>2 DEF Inv, Core, OneTask
      <4> QED
        BY <4>1, <4>2
    <3> QED
      BY <2>4, <3>1, <3>4, <3>5 DEF Inv, Core, OneTask
  <2>8. Results'
    BY <1>0, <2>1, <2>4 DEF Inv, Core, Results, rowVars
  <2>9. Settled'
    BY <1>0, <2>3, <2>4 DEF Inv, Core, Settled, Frozen, At, Threads, rowVars
  <2> QED
    BY <2>5, <2>6, <2>7, <2>8, <2>9 DEF Core
<1> QED
  BY <1>1, <1>2, <1>3, <1>4

-----------------------------------------------------------------------------
(* The invariant and what follows from it *)

\* A worker dies.  The user's requests do not (Alone).
LEMMA CrashStep ==
    ASSUME Inv, Alone, NEW w \in Mortal, Crash(w)
    PROVE  Core'
<1> TypeOK /\ th \in [Threads -> ThreadRecord] /\ w \in Threads /\ w \in Workers
  BY DistinctAssumption DEF Inv, IndType, TypeOK, Threads, Alone
<1>1. /\ ~At(w, "idle") /\ th'[w].pc = "idle" /\ ~th'[w].saw
      /\ \A u \in Threads : u # w => th'[u] = th[u]
      /\ UNCHANGED <<rowVars, msgVars>>
  BY Moves DEF Crash
<1>0. /\ \A s \in Sessions : th'[s] = th[s]
      /\ \A v \in Workers : v # w => th'[v] = th[v]
  BY <1>1, DistinctAssumption DEF Threads
<1>2. Results'
  BY <1>0, <1>1 DEF Inv, Core, Results, rowVars, msgVars
<1>3. CASE Works(w)
  <2>1. OneDispatch' /\ OneMessage' /\ OneTask' /\ Settled'
    BY <1>1, <1>3, WorkerStep DEF TaskPCs, rowVars, msgVars
  <2> QED
    BY <1>2, <2>1 DEF Core
<1>4. CASE At(w, "run_task")
  <2>1. OneDispatch'
    BY <1>0, <1>1, <1>4, OnTheWay DEF Inv, Core, OneDispatch, At, rowVars, msgVars
  <2>2. OneMessage'
    BY <1>0, <1>1 DEF Inv, Core, OneMessage, At, msgVars
  <2>3. OneTask'
    BY <1>0, <1>1 DEF Inv, Core, OneTask, At, Works, TaskPCs, msgVars
  <2>4. Settled'
    BY <1>0, <1>1, <1>4, OnTheWay
       DEF Inv, Core, Settled, Frozen, At, Threads, rowVars, msgVars
  <2> QED
    BY <1>2, <2>1, <2>2, <2>3, <2>4 DEF Core
<1> QED
  BY <1>1, <1>3, <1>4 DEF Inv, Core, OneTask

LEMMA InvStep == ASSUME Inv, Alone, [Next]_vars PROVE Core'
<1>1. ASSUME NEW s \in Sessions, Request(s) \/ Respond(s) PROVE Core'
  BY <1>1, RequestStep, RespondStep
<1>2. ASSUME NEW t \in Threads, Compute(t) PROVE Core'
  <2>1. CASE t \in Workers
    <3>1. Works(t)
      BY <1>2 DEF Compute, ComputeRefused, ComputeCheck, ComputeWrite, ComputeFails, Recorded, ApplyLoans,
         At, Works, TaskPCs
    <3> QED
      BY <1>2, <2>1, <3>1, WorkerComputes
  <2>2. CASE t \in Sessions
    BY <1>2, <2>2, UserComputes
  <2> QED
    BY <2>1, <2>2 DEF Threads
<1>3. ASSUME NEW w \in Workers, Work(w) PROVE Core'
  BY <1>3, RunStep, TaskStep DEF Work
<1>4. ASSUME NEW t \in Mortal, Crash(t) PROVE Core'
  BY <1>4, CrashStep
<1>5. ASSUME NEW c \in Chords, NEW e \in Employees, Redeliver(c, e) PROVE Core'
  BY <1>5 DEF Redeliver, Alone, Inv, IndType, TypeOK
<1>6. CASE UNCHANGED vars \/ \E e \in Employees : ChangeSource(e)
  <2>1. UNCHANGED <<rowVars, msgVars, th>>
    BY <1>6 DEF vars, ChangeSource
  <2>2. (OneDispatch /\ OneMessage /\ OneTask)'
    BY <2>1 DEF Inv, Core, OneDispatch, OneMessage, OneTask, Fresh, At, Works, rowVars, msgVars
  <2>3. (Results /\ Settled)'
    BY <2>1 DEF Inv, Core, Results, Settled, Finished, Frozen, At, rowVars, msgVars
  <2> QED
    BY <2>2, <2>3 DEF Core
<1> QED
  BY <1>1, <1>2, <1>3, <1>4, <1>5, <1>6 DEF Next

LEMMA InvAlways == Alone /\ Spec => []Inv
<1>1. Init => Core
  <2> SUFFICES ASSUME Init PROVE Core
    OBVIOUS
  <2>1. \A t \in Threads : th[t].pc = "idle" /\ ~th[t].saw
    BY DEF Init, Idle
  <2>2. OneDispatch /\ OneMessage /\ OneTask
    BY <2>1 DEF Init, OneDispatch, OneMessage, OneTask, Fresh, At, Works, TaskPCs, Threads
  <2>3. Results /\ Settled
    BY <2>1 DEF Init, Results, Settled, At, Threads
  <2> QED
    BY <2>2, <2>3 DEF Core
<1>2. IndType /\ Core /\ Alone /\ [Next]_vars => Core'
  BY InvStep DEF Inv
<1>3. IndType /\ Core <=> Inv
  BY DEF Inv
<1>4. Alone' <=> Alone
  BY DEF Alone
<1>5. CASE Alone
  BY <1>1, <1>2, <1>3, <1>5, IndTypeCorrect, PTL DEF Spec
<1> QED
  BY <1>5

\* A locked period is complete and settled: finalize's checks still hold when its
\* last statement has run, and the totals count exactly those with a payslip.
THEOREM LockedIsFinalCorrect == Alone /\ Spec => []LockedIsFinal
<1>1. Inv => LockedIsFinal
  BY DEF Inv, Core, Settled, Frozen, LockedIsFinal
<1> QED
  BY <1>1, InvAlways, PTL

\* When the callback has run everybody in the chord has a payslip or an error.
THEOREM AccountedCorrect == Alone /\ Spec => []Accounted
<1>1. Inv => Accounted
  <2> SUFFICES ASSUME Inv, NEW c \in called, NEW e \in header[c]
               PROVE  slip[e] # "none" \/ e \in errors
    BY DEF Accounted
  <2>1. c \in Chords /\ c = 1 /\ e \in Employees
    BY DEF Inv, Core, IndType, TypeOK, OneMessage
  <2>2. <<1, e>> \in returned
    BY <2>1 DEF Inv, Core, Settled, Finished
  <2> QED
    BY <2>1, <2>2 DEF Inv, Core, Results
<1> QED
  BY <1>1, InvAlways, PTL

\* A run that was started is never removed.
THEOREM ProcessedKeptCorrect == Alone /\ Spec => ProcessedKept
<1>1. ASSUME Inv, [Next]_vars, status \in {"processing", "completed"} PROVE status' # "deleted"
  <2>1. \A s \in Sessions : ~At(s, "destroy")
    BY <1>1 DEF Inv, Core, OneDispatch
  <2>2. \A s \in Sessions : ~DestroyDelete(s)
    BY <2>1 DEF DestroyDelete
  <2>3. ASSUME NEW s \in Sessions, Request(s) \/ Respond(s) PROVE status' # "deleted"
    BY <1>1, <2>2, <2>3 DEF Request, Respond, DestroyCheck, RunCheck, FinalizeCheck,
       SlipFinalizeCheck, EditCheck, RecomputeCheck, RunDispatch, RunSave, FinalizeSlips,
       FinalizeLock, SlipFinalizeSave, EditSave, rowVars
  <2>4. ASSUME NEW t \in Threads, Compute(t) PROVE status' # "deleted"
    BY <1>1, <2>4 DEF Compute, ComputeRefused, ComputeCheck, ComputeWrite, ComputeFails, Recorded,
       ApplyLoans, rowVars
  <2>5. ASSUME NEW w \in Workers, Work(w) PROVE status' # "deleted"
    BY <1>1, <2>5 DEF Work, RunTask, RunNobody, RunChord, FinalizeTask, TaskFetch, RecordError,
       ClearError, rowVars
  <2>6. CASE \/ UNCHANGED vars
             \/ \E t \in Mortal : Crash(t)
             \/ \E e \in Employees : ChangeSource(e)
             \/ \E c \in Chords, e \in Employees : Redeliver(c, e)
    BY <1>1, <2>6 DEF vars, Crash, ChangeSource, Redeliver, rowVars
  <2> QED
    BY <1>1, <2>3, <2>4, <2>5, <2>6 DEF Next
<1> QED
  BY <1>1, InvAlways, PTL DEF Spec, ProcessedKept

\* While its run exists a final payslip keeps its status and its figures.
THEOREM FinalFiguresCorrect == Alone /\ Spec => FinalFigures
<1> DEFINE Kept == \A e \in Employees : slip[e] = "finalized" /\ status' # "deleted" =>
                      slip'[e] = "finalized" /\ figures'[e] = figures[e]
<1>1. ASSUME Inv, [Next]_vars PROVE Kept
  <2> TypeOK
    BY <1>1 DEF Inv, IndType
  <2>0. ASSUME UNCHANGED <<slip, figures>> PROVE Kept
    BY <2>0
  <2>1. ASSUME NEW s \in Sessions, Request(s) \/ Respond(s) PROVE Kept
    <3>1. CASE DestroyDelete(s)
      BY <3>1 DEF DestroyDelete
    <3>2. CASE FinalizeSlips(s)
      BY <3>2 DEF FinalizeSlips
    <3>3. CASE SlipFinalizeSave(s)
      BY <3>3 DEF SlipFinalizeSave, TypeOK
    <3>4. CASE EditSave(s)
      <4>1. slip[th[s].emp] = "draft"
        BY <1>1, <3>4 DEF EditSave, At, Inv, Core, Results
      <4> QED
        BY <3>4, <4>1 DEF EditSave, TypeOK
    <3> QED
      BY <2>0, <2>1, <3>1, <3>2, <3>3, <3>4 DEF Request, Respond, DestroyCheck, RunCheck,
         FinalizeCheck, SlipFinalizeCheck, EditCheck, RecomputeCheck, RunDispatch, RunSave,
         FinalizeLock, rowVars
  <2>2. ASSUME NEW t \in Threads, Compute(t) PROVE Kept
    <3>1. CASE ComputeWrite(t)
      <4>1. slip[th[t].emp] # "finalized"
        BY <1>1, <3>1 DEF ComputeWrite, At, Inv, Core, Results, Threads
      <4> QED
        BY <3>1, <4>1 DEF ComputeWrite, TypeOK
    <3> QED
      BY <2>0, <2>2, <3>1 DEF Compute, ComputeRefused, ComputeCheck, ComputeFails, Recorded, ApplyLoans,
         rowVars
  <2>3. ASSUME NEW w \in Workers, Work(w) PROVE Kept
    BY <2>0, <2>3 DEF Work, RunTask, RunNobody, RunChord, FinalizeTask, TaskFetch, RecordError,
       ClearError, rowVars
  <2>4. CASE \/ UNCHANGED vars
             \/ \E t \in Mortal : Crash(t)
             \/ \E e \in Employees : ChangeSource(e)
             \/ \E c \in Chords, e \in Employees : Redeliver(c, e)
    BY <2>0, <2>4 DEF vars, Crash, ChangeSource, Redeliver, rowVars
  <2> QED
    BY <1>1, <2>1, <2>2, <2>3, <2>4 DEF Next
<1> QED
  BY <1>1, InvAlways, PTL DEF Spec, FinalFigures

-----------------------------------------------------------------------------
(* The run implements Period, for one user.                                *)

\* An error belongs to a task that has returned, there is one chord to call
\* back, and a run that is completed has called it back.
Answers ==
    /\ \A e \in errors : <<1, e>> \in returned
    /\ called \subseteq {1}
    /\ status = "completed" => chords = 0 \/ called # {}

LEMMA AnswersStep == ASSUME Inv, Answers, [Next]_vars PROVE Answers'
<1>1. ASSUME errors' \subseteq errors, returned \subseteq returned', called' = called,
             chords' = chords, status' = status \/ status' # "completed"
      PROVE  Answers'
  BY <1>1 DEF Answers
<1>2. ASSUME NEW s \in Sessions, Request(s) \/ Respond(s) PROVE Answers'
  BY <1>1, <1>2 DEF Request, Respond, DestroyCheck, RunCheck, FinalizeCheck, SlipFinalizeCheck,
     EditCheck, RecomputeCheck, DestroyDelete, RunDispatch, RunSave, FinalizeSlips, FinalizeLock,
     SlipFinalizeSave, EditSave, rowVars, msgVars
<1>3. ASSUME NEW t \in Threads, Compute(t) PROVE Answers'
  <2>1. /\ UNCHANGED <<errors, called, chords, status>>
        /\ returned \subseteq returned'
    BY <1>3 DEF Compute, ComputeRefused, ComputeCheck, ComputeWrite, ComputeFails, Recorded, ApplyLoans,
       Return, rowVars, msgVars
  <2> QED
    BY <1>1, <2>1
<1>4. ASSUME NEW w \in Workers, Work(w) PROVE Answers'
  <2>1. CASE RunTask(w) \/ ClearError(w) \/ \E c \in Chords, e \in Employees : TaskFetch(w, c, e)
    BY <1>1, <2>1 DEF RunTask, ClearError, TaskFetch, rowVars, msgVars
  <2>2. CASE RunNobody(w)
    <3>1. chords = 0
      BY <2>2, OnTheWay DEF RunNobody
    <3> QED
      BY <2>2, <3>1 DEF RunNobody, Answers, msgVars
  <2>3. ASSUME NEW payable \in SUBSET Employees, RunChord(w, payable) PROVE Answers'
    <3>1. status # "completed"
      BY <2>3, OnTheWay DEF RunChord
    <3> QED
      BY <2>3, <3>1 DEF RunChord, Answers, rowVars
  <2>4. CASE RecordError(w)
    <3>1. Works(w)
      BY <2>4 DEF RecordError, At, Works, TaskPCs
    <3>2. th[w].chord = 1 /\ status # "completed"
      BY <3>1, AtWork
    <3> QED
      BY <2>4, <3>2 DEF RecordError, Return, Answers
  <2>5. ASSUME NEW c \in Chords, FinalizeTask(w, c) PROVE Answers'
    <3>1. c = 1
      BY <2>5 DEF FinalizeTask, Inv, Core, OneMessage
    <3> QED
      BY <2>5, <3>1 DEF FinalizeTask, Answers
  <2> QED
    BY <1>4, <2>1, <2>2, <2>3, <2>4, <2>5 DEF Work
<1>5. CASE \/ UNCHANGED vars
           \/ \E t \in Mortal : Crash(t)
           \/ \E e \in Employees : ChangeSource(e)
           \/ \E c \in Chords, e \in Employees : Redeliver(c, e)
  BY <1>1, <1>5 DEF vars, Crash, ChangeSource, Redeliver, rowVars, msgVars
<1> QED
  BY <1>2, <1>3, <1>4, <1>5 DEF Next

\* A step that moves nothing Period speaks of.
LEMMA SamePeriod ==
    ASSUME UNCHANGED <<Phase, Covered, Counted, Totals, Final, errors>>
    PROVE  [Promised!Next]_(Promised!vars)
BY DEF Promised!vars

\* A handler that has slips to work on finds the run started and not closed.
LEMMA Running ==
    ASSUME Inv, sent > 0, ~locked
    PROVE  Phase = "running"
BY DEF Phase, Inv, Core, IndType, TypeOK, OneDispatch

\* Who has a payslip is paid, and nobody else.
LEMMA PaidHaveSlips ==
    ASSUME Inv
    PROVE  Promised!Paid = {e \in Employees : slip[e] # "none"}
BY DEF Promised!Paid, Totals, Inv, Core, Results

\* What the one user's handlers write.
LEMMA PeriodRespond ==
    ASSUME Inv, Answers, Alone, NEW s \in Sessions, Respond(s)
    PROVE  [Promised!Next]_(Promised!vars)
<1> TypeOK
  BY DEF Inv, IndType
<1>1. CASE DestroyDelete(s)
  <2>1. Fresh /\ sent = 0 /\ status = "draft"
    BY <1>1 DEF DestroyDelete, At, Inv, Core, OneDispatch
  <2>2. \A e \in Employees : slip[e] = "none"
    BY <2>1 DEF Fresh, Inv, Core, Results
  <2>3. errors = {}
    <3>1. ASSUME NEW e \in errors PROVE FALSE
      <4>1. <<1, e>> \in returned /\ 1 \in Chords /\ e \in Employees
        BY DEF Answers, TypeOK, Slots
      <4> QED
        BY <2>1, <4>1 DEF Fresh, Inv, Core, OneTask, OneMessage
    <3> QED
      BY <3>1
  <2>4. slip' = slip
    BY <1>1, <2>2 DEF DestroyDelete, TypeOK
  <2>5. UNCHANGED <<Covered, Counted, Totals, Final, errors>>
    BY <1>1, <2>3, <2>4 DEF DestroyDelete, msgVars, Covered, Counted, Totals, Final
  <2>6. Phase = "draft" /\ Phase' = "discarded"
    BY <1>1, <2>1 DEF DestroyDelete, Fresh, Phase
  <2> QED
    BY <2>5, <2>6 DEF Promised!Next, Promised!Discard
<1>2. CASE RunDispatch(s)
  <2>1. Fresh /\ sent = 0 /\ status = "draft"
    BY <1>2 DEF RunDispatch, At, Inv, Core, OneDispatch
  <2>2. UNCHANGED <<Covered, Counted, Totals, Final, errors>>
    BY <1>2 DEF RunDispatch, rowVars, Covered, Counted, Totals, Final
  <2>3. Phase = "draft" /\ Phase' = "running"
    BY <1>2, <2>1 DEF RunDispatch, Fresh, Phase, rowVars
  <2> QED
    BY <2>2, <2>3 DEF Promised!Next, Promised!Start
<1>3. CASE RunSave(s)
  <2>1. sent > 0 /\ status # "deleted"
    BY <1>3 DEF RunSave, At, Inv, Core, OneDispatch
  <2>2. Phase' = Phase
    BY <1>3, <2>1 DEF RunSave, Phase, msgVars
  <2>3. UNCHANGED <<Covered, Counted, Totals, Final, errors>>
    BY <1>3 DEF RunSave, msgVars, Covered, Counted, Totals, Final
  <2> QED
    BY <2>2, <2>3, SamePeriod
<1>4. CASE FinalizeSlips(s)
  <2> DEFINE people == {e \in Employees : slip[e] = "draft"}
  <2>1. status = "completed" /\ Finished
    BY <1>4 DEF FinalizeSlips, At, Inv, Core, Settled
  <2>2. UNCHANGED <<Phase, Covered, Counted, errors>>
    BY <1>4 DEF FinalizeSlips, msgVars, Phase, Covered, Counted
  <2>3. Totals' = Totals
    BY <1>4 DEF FinalizeSlips, Totals
  <2>4. Final' = Final \cup people
    BY <1>4 DEF FinalizeSlips, Final
  <2>5. CASE locked
    <3>1. people = {}
      BY <2>5 DEF Inv, Core, Settled, Frozen
    <3> QED
      BY <2>2, <2>3, <2>4, <3>1, SamePeriod
  <2>6. CASE ~locked
    <3>1. Phase = "running"
      BY <2>1, <2>6, Running DEF Finished
    <3>2. people \subseteq Promised!Paid /\ people \in SUBSET Employees
      BY PaidHaveSlips
    <3> HIDE DEF people
    <3>3. Promised!Settle(people)
      BY <2>2, <2>3, <2>4, <3>1, <3>2 DEF Promised!Settle
    <3> QED
      BY <3>2, <3>3 DEF Promised!Next
  <2> QED
    BY <2>5, <2>6
<1>5. CASE FinalizeLock(s)
  <2>1. Frozen /\ Finished
    BY <1>5 DEF FinalizeLock, At, Inv, Core, Settled, Frozen
  <2>2. UNCHANGED <<Covered, Counted, Totals, Final, errors>>
    BY <1>5 DEF FinalizeLock, msgVars, Covered, Counted, Totals, Final
  <2>3. locked'
    BY <1>5, <2>1 DEF FinalizeLock, Frozen
  <2>4. CASE locked
    <3>1. Phase' = Phase
      BY <2>3, <2>4 DEF Phase
    <3> QED
      BY <2>2, <3>1, SamePeriod
  <2>5. CASE ~locked
    <3>1. Phase = "running" /\ Phase' = "closed"
      BY <2>1, <2>3, <2>5, Running DEF Finished, Phase
    <3>2. Counted \/ Covered = {}
      BY <2>1 DEF Frozen, Answers, Counted, Covered, Inv, Core, OneMessage
    <3>3. errors = {} /\ Covered \subseteq Final
      BY <2>1 DEF Frozen, Covered, Final, TypeOK
    <3>4. Promised!Paid \subseteq Final
      BY <2>1, PaidHaveSlips DEF Frozen, Final, TypeOK, SlipStatus
    <3> QED
      BY <2>2, <3>1, <3>2, <3>3, <3>4 DEF Promised!Next, Promised!Close
  <2> QED
    BY <2>4, <2>5
<1>6. CASE SlipFinalizeSave(s) \/ EditSave(s)
  <2> DEFINE e == th[s].emp
  <2>1. slip[e] = "draft" /\ ~locked
    BY <1>6 DEF SlipFinalizeSave, EditSave, At, Inv, Core, Results, Settled
  <2>2. UNCHANGED <<Phase, Covered, Counted, errors>>
    BY <1>6 DEF SlipFinalizeSave, EditSave, msgVars, Phase, Covered, Counted
  <2>3. \/ slip' = [slip EXCEPT ![e] = "finalized"] /\ figures' = figures
        \/ figures' = [figures EXCEPT ![e] = Edited] /\ slip' = slip
    BY <1>6, <2>1 DEF SlipFinalizeSave, EditSave
  <2>4. CASE e \notin Employees
    <3>1. slip' = slip /\ figures' = figures
      BY <2>3, <2>4 DEF TypeOK
    <3> QED
      BY <2>2, <3>1, SamePeriod DEF Totals, Final
  <2>5. CASE e \in Employees
    <3>1. chords # 0 /\ e \in Promised!Paid /\ e \notin Final
      BY <2>1, <2>5, PaidHaveSlips DEF Inv, Core, Results, Final
    <3>2. sent > 0
      BY <3>1 DEF Inv, Core, OneDispatch, Fresh, TypeOK
    <3>3. Phase = "running"
      BY <2>1, <3>2, Running
    <3>4. CASE slip' = [slip EXCEPT ![e] = "finalized"] /\ figures' = figures
      <4>1. Totals' = Totals /\ Final' = Final \cup {e}
        BY <2>1, <2>5, <3>4 DEF Totals, Final, TypeOK
      <4>2. Promised!Settle({e})
        BY <2>2, <3>1, <3>3, <4>1 DEF Promised!Settle
      <4> QED
        BY <2>5, <4>2 DEF Promised!Next
    <3>5. CASE figures' = [figures EXCEPT ![e] = Edited] /\ slip' = slip
      <4>1. Totals' = [Totals EXCEPT ![e] = Edited] /\ Final' = Final
        BY <2>1, <2>5, <3>5 DEF Totals, Final, TypeOK
      <4>2. Promised!Price(e, Edited)
        BY <2>2, <3>1, <3>3, <4>1 DEF Promised!Price
      <4> QED
        BY <2>5, <4>2 DEF Promised!Next
    <3> QED
      BY <2>3, <3>4, <3>5
  <2> QED
    BY <2>4, <2>5
<1> QED
  BY <1>1, <1>2, <1>3, <1>4, <1>5, <1>6 DEF Respond

\* compute_payslip and the repayment, in a worker or in the user's recompute.
LEMMA PeriodCompute ==
    ASSUME Inv, Answers, Alone, NEW t \in Threads, Compute(t)
    PROVE  [Promised!Next]_(Promised!vars)
<1> TypeOK
  BY DEF Inv, IndType
<1>1. CASE ComputeWrite(t)
  <2> DEFINE e == th[t].emp
  <2>1. /\ UNCHANGED <<Phase, Covered, Counted, errors>>
        /\ slip' = [slip EXCEPT ![e] = "draft"] /\ figures' = [figures EXCEPT ![e] = source[e]]
        /\ th[t].pc = "write" /\ source[e] \in Figures
    BY <1>1 DEF ComputeWrite, At, msgVars, Phase, Covered, Counted
  <2>2. CASE e \notin Employees
    <3>1. slip' = slip /\ figures' = figures
      BY <2>1, <2>2 DEF TypeOK
    <3> QED
      BY <2>1, <3>1, SamePeriod DEF Totals, Final
  <2>3. CASE e \in Employees
    <3>1. /\ sent > 0 /\ ~locked /\ slip[e] \in {"none", "draft"}
          /\ slip[e] = "draft" \/ (e \in Covered \ errors /\ ~Counted)
      <4>1. CASE t \in Sessions
        <5>1. slip[e] = "draft" /\ ~locked
          BY <2>1, <4>1 DEF Inv, Core, Results, Settled
        <5>2. sent > 0
          BY <2>3, <5>1 DEF Inv, Core, Results, OneDispatch, Fresh, TypeOK
        <5> QED
          BY <5>1, <5>2
      <4>2. CASE t \in Workers
        <5>1. Works(t)
          BY <2>1 DEF Works, TaskPCs
        <5>2. /\ sent > 0 /\ ~locked /\ called = {} /\ e \in header[1] /\ 1 \in Chords
              /\ <<1, e>> \notin returned /\ slip[e] = "none"
          BY <2>1, <4>2, <5>1, AtWork DEF Inv, Core, OneTask, Results
        <5> QED
          BY <5>2 DEF Answers, Covered, Counted
      <4> QED
        BY <4>1, <4>2 DEF Threads
    <3>2. Phase = "running"
      BY <3>1, Running
    <3>3. e \in Promised!Paid \/ (e \in Covered \ errors /\ ~Counted)
      BY <2>3, <3>1, PaidHaveSlips
    <3>4. e \notin Final /\ source[e] \in Figures \cup {Edited}
      BY <2>1, <2>3, <3>1 DEF Final, TypeOK, Sources
    <3>5. Totals' = [Totals EXCEPT ![e] = source[e]] /\ Final' = Final
      BY <2>1, <2>3, <3>1 DEF Totals, Final, TypeOK
    <3>6. Promised!Price(e, source[e])
      BY <2>1, <3>2, <3>3, <3>4, <3>5 DEF Promised!Price
    <3> QED
      BY <2>3, <3>4, <3>6 DEF Promised!Next
  <2> QED
    BY <2>2, <2>3
<1>2. CASE ComputeRefused(t) \/ ComputeCheck(t) \/ ComputeFails(t) \/ ApplyLoans(t)
  <2>1. UNCHANGED <<status, locked, sent, header, called, slip, figures, errors>>
    BY <1>2 DEF ComputeRefused, ComputeCheck, ComputeFails, Recorded, ApplyLoans, rowVars, msgVars
  <2> QED
    BY <2>1, SamePeriod DEF Phase, Covered, Counted, Totals, Final
<1> QED
  BY <1>1, <1>2 DEF Compute

\* What the Celery tasks do beside it.
LEMMA PeriodWork ==
    ASSUME Inv, Answers, NEW w \in Workers, Work(w)
    PROVE  [Promised!Next]_(Promised!vars)
<1> TypeOK
  BY DEF Inv, IndType
<1>1. CASE RunTask(w) \/ RunNobody(w)
  <2>1. sent > 0 /\ status # "deleted"
    BY <1>1, OnTheWay DEF RunTask, RunNobody
  <2>2. UNCHANGED <<locked, sent, header, called, slip, figures, errors>> /\ status' # "deleted"
    BY <1>1, <2>1 DEF RunTask, RunNobody, msgVars
  <2> QED
    BY <2>1, <2>2, SamePeriod DEF Phase, Covered, Counted, Totals, Final
<1>2. ASSUME NEW payable \in SUBSET Employees, RunChord(w, payable)
      PROVE  [Promised!Next]_(Promised!vars)
  <2>1. sent > 0 /\ ~locked /\ chords = 0 /\ \A c \in Chords : header[c] = {}
    BY <1>2, OnTheWay DEF RunChord
  <2>2. Phase = "running" /\ Covered = {}
    BY <2>1, Running DEF Covered
  <2>3. 1 \in Chords /\ header' = [header EXCEPT ![1] = payable] /\ payable # {}
    BY <1>2, <2>1, BoundsAssumption DEF RunChord, Chords
  <2>4. Covered' = payable
    BY <2>1, <2>3 DEF Covered, TypeOK
  <2>5. UNCHANGED <<Phase, Counted, Totals, Final, errors>>
    BY <1>2 DEF RunChord, rowVars, Phase, Counted, Totals, Final
  <2> QED
    BY <2>2, <2>3, <2>4, <2>5 DEF Promised!Next, Promised!Cover
<1>3. ASSUME NEW c \in Chords, FinalizeTask(w, c)
      PROVE  [Promised!Next]_(Promised!vars)
  <2>1. /\ header[c] # {} /\ {c} \X header[c] \subseteq returned /\ c \notin called
        /\ called' = called \cup {c}
    BY <1>3 DEF FinalizeTask, AllReturned
  <2>2. c = 1 /\ chords = 1 /\ ~Counted
    BY <2>1 DEF Inv, Core, OneMessage, Answers, Counted
  <2>3. sent > 0 /\ ~locked
    BY <2>2 DEF Inv, Core, OneDispatch, Fresh, Settled, Frozen, Answers, Counted, TypeOK
  <2>4. Phase = "running" /\ status # "deleted"
    BY <2>3, Running DEF Inv, Core, OneDispatch
  <2>5. Covered = header[1]
    BY <2>2 DEF Covered, Inv, Core, OneMessage
  <2>6. Covered \subseteq Promised!Paid \cup errors
    BY <2>1, <2>2, <2>5, PaidHaveSlips DEF Inv, Core, Results, TypeOK
  <2>7. UNCHANGED <<Phase, Covered, Totals, Final, errors>> /\ Counted'
    BY <1>3, <2>1, <2>4 DEF FinalizeTask, Phase, Covered, Totals, Final, Counted
  <2>8. Promised!Count
    BY <2>1, <2>2, <2>4, <2>5, <2>6, <2>7 DEF Promised!Count
  <2> QED
    BY <2>8 DEF Promised!Next
<1>4. CASE RecordError(w) \/ ClearError(w)
  <2> DEFINE e == th[w].emp
  <2>1. Works(w)
    BY <1>4 DEF RecordError, ClearError, At, Works, TaskPCs
  <2>2. /\ sent > 0 /\ ~locked /\ called = {} /\ status # "deleted"
        /\ e \in Employees /\ e \in header[1] /\ 1 \in Chords /\ <<1, e>> \notin returned
    BY <2>1, AtWork DEF Inv, Core, OneTask
  <2>3. UNCHANGED <<Phase, Covered, Counted, Totals, Final>>
    BY <1>4 DEF RecordError, ClearError, msgVars, Phase, Covered, Counted, Totals, Final
  <2>4. CASE RecordError(w)
    <3>1. e \in Covered \ Promised!Paid
      BY <2>2, <2>4, PaidHaveSlips DEF RecordError, At, Covered, Inv, Core, Results
    <3>2. Phase = "running" /\ ~Counted
      BY <2>2, Running DEF Counted
    <3>3. Promised!Report(e)
      BY <2>2, <2>3, <2>4, <3>1, <3>2 DEF RecordError, Promised!Report
    <3> QED
      BY <2>2, <3>3 DEF Promised!Next
  <2>5. CASE ClearError(w)
    <3>1. errors' = errors
      BY <2>2, <2>5 DEF ClearError, Answers
    <3> QED
      BY <2>3, <3>1, SamePeriod
  <2> QED
    BY <1>4, <2>4, <2>5
<1>5. CASE \E c \in Chords, e \in Employees : TaskFetch(w, c, e)
  <2>1. UNCHANGED <<status, locked, sent, header, called, slip, figures, errors>>
    BY <1>5 DEF TaskFetch, rowVars
  <2> QED
    BY <2>1, SamePeriod DEF Phase, Covered, Counted, Totals, Final
<1> QED
  BY <1>1, <1>2, <1>3, <1>4, <1>5 DEF Work

\* The run keeps the promise of Period: whatever the tasks of any number of
\* workers do and in which order, everybody it covers is paid or reported once,
\* nothing final moves, and it closes whole and stays closed.
THEOREM ImplementsPeriodCorrect == Alone /\ Spec => ImplementsPeriod
<1>1. Init => Answers /\ Promised!Init
  <2> SUFFICES ASSUME Init PROVE Answers /\ Promised!Init
    OBVIOUS
  <2>1. Answers
    BY DEF Init, Answers
  <2>2. Phase = "draft" /\ Covered = {} /\ ~Counted /\ Final = {} /\ errors = {}
    BY DEF Init, Phase, Covered, Counted, Final
  <2>3. Totals = [e \in Employees |-> Broken]
    BY DEF Init, Totals
  <2>4. Counted = FALSE
    BY DEF Init, Counted
  <2> QED
    BY <2>1, <2>2, <2>3, <2>4 DEF Promised!Init
<1>2. ASSUME Inv, Answers, Alone, [Next]_vars PROVE [Promised!Next]_(Promised!vars)
  <2>1. ASSUME UNCHANGED <<status, locked, sent, header, called, slip, figures, errors>>
        PROVE  [Promised!Next]_(Promised!vars)
    BY <2>1, SamePeriod DEF Phase, Covered, Counted, Totals, Final
  <2>2. ASSUME NEW s \in Sessions, Request(s) PROVE [Promised!Next]_(Promised!vars)
    BY <2>1, <2>2 DEF Request, DestroyCheck, RunCheck, FinalizeCheck, SlipFinalizeCheck,
       EditCheck, RecomputeCheck, rowVars, msgVars
  <2>3. CASE \/ UNCHANGED vars
             \/ \E t \in Mortal : Crash(t)
             \/ \E e \in Employees : ChangeSource(e)
             \/ \E c \in Chords, e \in Employees : Redeliver(c, e)
    BY <2>1, <2>3 DEF vars, Crash, ChangeSource, Redeliver, rowVars, msgVars
  <2> QED
    BY <1>2, <2>2, <2>3, PeriodRespond, PeriodCompute, PeriodWork DEF Next
<1>3. Inv /\ Answers /\ [Next]_vars => Answers'
  BY AnswersStep
<1>4. Inv /\ Answers /\ Alone /\ [Next]_vars => [Promised!Next]_(Promised!vars)
  BY <1>2
<1>5. CASE Alone
  BY <1>1, <1>3, <1>4, <1>5, InvAlways, PTL DEF Spec, ImplementsPeriod, Promised!Spec
<1> QED
  BY <1>5

-----------------------------------------------------------------------------
(* The loans of one employee                                               *)

\* A handler's record has the fields of the place it is at.
LEMMA LoanHandling ==
    ASSUME LoansTypeOK, NEW h \in Handlers
    PROVE  /\ handler[h].pc \in {"approve", "wire", "activate", "turn_down"} =>
                 handler[h] \in [pc : {"approve", "wire", "activate", "turn_down"}, loan : Advances]
           /\ Is(h, "list") => handler[h] \in [pc : {"list"}, period : Periods]
           /\ handler[h].pc \in {"repay", "unwire"} =>
                 handler[h] \in [pc : {"repay", "unwire"}, period : Periods,
                                 todo : SUBSET Advances, seen : [Advances -> Nat]]
<1>1. handler[h] \in Handling
  BY DEF LoansTypeOK
<1> QED
  BY <1>1 DEF Handling, Resting, Is

\* A line that is set from today on keeps the structure typed.
LEMMA UpsertTypes ==
    ASSUME structure \in [Days -> Lines], day \in Days, NEW line \in Lines, Upsert(line)
    PROVE  /\ structure' \in [Days -> Lines]
           /\ \A date \in Days : structure'[date] = IF date >= day THEN line ELSE structure[date]
BY DEF Upsert

LEMMA HandlerMoves ==
    ASSUME handler \in [Handlers -> Handling], NEW h \in Handlers, NEW r \in Handling, Goes(h, r)
    PROVE  /\ handler' \in [Handlers -> Handling] /\ handler'[h] = r
           /\ \A g \in Handlers \ {h} : handler'[g] = handler[g]
BY DEF Goes

LEMMA LeftOfBalance ==
    ASSUME NEW balance \in Nat, NEW line \in Nat
    PROVE  /\ Left(balance, line) \in Nat
           /\ Left(balance, line) = IF line >= balance THEN 0 ELSE balance - line
BY DEF Left, Least

LEMMA LoansTypeStep == LoansTypeOK /\ [LoansNext]_loansVars => LoansTypeOK'
<1> SUFFICES ASSUME LoansTypeOK, [LoansNext]_loansVars PROVE LoansTypeOK'
  OBVIOUS
<1> USE AdvancesAssumption, PeriodsAssumption, LinesAssumption
<1>1. CASE UNCHANGED loansVars
  BY <1>1 DEF LoansTypeOK, loansVars
<1>2. CASE NextDay
  BY <1>2 DEF NextDay, LoansTypeOK, Days
<1>3. ASSUME NEW l \in Advances, Borrow(l) PROVE LoansTypeOK'
  <2>1. [advance[l] EXCEPT !.status = "requested"] \in Advance
    BY DEF LoansTypeOK, Advance, AdvanceStatus
  <2> QED
    BY <1>3, <2>1 DEF Borrow, LoansTypeOK
<1>4. ASSUME NEW p \in Periods, FinalizePayslip(p) PROVE LoansTypeOK'
  <2>1. [payslip[p] EXCEPT !.status = "finalized"] \in Slip
    BY DEF LoansTypeOK, Slip
  <2> QED
    BY <1>4, <2>1 DEF FinalizePayslip, LoansTypeOK
<1>5. ASSUME NEW h \in Handlers, Handles(h) PROVE LoansTypeOK'
  <2> DEFINE at == handler[h]
  <2>1. Resting \in Handling
    BY DEF Handling
  <2>2. CASE \E l \in Advances : Decide(h, l)
    <3>1. PICK l \in Advances, pc \in {"approve", "turn_down"} :
            Decide(h, l) /\ Goes(h, [pc |-> pc, loan |-> l])
      BY <2>2 DEF Decide
    <3>2. [pc |-> pc, loan |-> l] \in Handling
      BY DEF Handling
    <3> QED
      BY <3>1, <3>2, HandlerMoves DEF Decide, LoansTypeOK
  <2>3. CASE TurnDown(h)
    <3>1. at.loan \in Advances
      BY <2>3, LoanHandling DEF TurnDown, Is
    <3>2. [advance[at.loan] EXCEPT !.status = "rejected"] \in Advance
      BY <3>1 DEF LoansTypeOK, Advance, AdvanceStatus
    <3> QED
      BY <2>1, <2>3, <3>1, <3>2, HandlerMoves DEF TurnDown, LoansTypeOK
  <2>4. CASE Approve(h)
    <3>1. /\ at.loan \in Advances
          /\ at \in [pc : {"approve", "wire", "activate", "turn_down"}, loan : Advances]
      BY <2>4, LoanHandling DEF Approve, Is
    <3>2. [advance[at.loan] EXCEPT !.status = "approved"] \in Advance
      BY <3>1 DEF LoansTypeOK, Advance, AdvanceStatus
    <3>3. [at EXCEPT !.pc = "wire"] \in Handling
      BY <3>1 DEF Handling
    <3> QED
      BY <2>4, <3>1, <3>2, <3>3, HandlerMoves DEF Approve, LoansTypeOK
  <2>5. CASE Wire(h)
    <3>1. /\ at.loan \in Advances
          /\ at \in [pc : {"approve", "wire", "activate", "turn_down"}, loan : Advances]
      BY <2>5, LoanHandling DEF Wire, Is
    <3>2. Monthly[at.loan] \in Lines
      BY <3>1 DEF Lines
    <3>3. [at EXCEPT !.pc = "activate"] \in Handling
      BY <3>1 DEF Handling
    <3> QED
      BY <2>5, <3>2, <3>3, HandlerMoves, UpsertTypes DEF Wire, LoansTypeOK
  <2>6. CASE Activate(h)
    <3>1. at.loan \in Advances
      BY <2>6, LoanHandling DEF Activate, Is
    <3>2. [status |-> "active", balance |-> Principal[at.loan]] \in Advance
      BY <3>1 DEF Advance, AdvanceStatus
    <3> QED
      BY <2>1, <2>6, <3>1, <3>2, HandlerMoves DEF Activate, LoansTypeOK
  <2>7. CASE \E p \in Periods : Price(h, p)
    <3> DEFINE line(p) == ActiveStructure(PeriodEnd[p])
    <3>1. PICK p \in Periods : Price(h, p)
      BY <2>7
    <3>2. line(p) \in Lines /\ payslip[p].line \in Lines
      BY DEF LoansTypeOK, ActiveStructure, Slip
    <3>3. Amount(line(p)) \in Nat /\ Amount(payslip[p].line) \in Nat
      BY <3>2 DEF Amount, Lines
    <3>4. withheld' \in Int
      BY <3>1, <3>3 DEF Price, LoansTypeOK
    <3>5. [status |-> "draft", line |-> line(p)] \in Slip
      BY <3>2 DEF Slip
    <3>6. pricings' \in [Periods -> 0 .. MaxPricings]
      <4>1. pricings[p] + 1 \in 0 .. MaxPricings
        BY <3>1 DEF Price, LoansTypeOK
      <4> QED
        BY <3>1, <4>1 DEF Price, LoansTypeOK
    <3>7. [pc |-> "list", period |-> p] \in Handling
      BY DEF Handling
    <3> QED
      BY <3>1, <3>4, <3>5, <3>6, <3>7, HandlerMoves DEF Price, LoansTypeOK
  <2>8. CASE ListActive(h)
    <3>1. at.period \in Periods
      BY <2>8, LoanHandling DEF ListActive, Is
    <3>2. [l \in Advances |-> advance[l].balance] \in [Advances -> Nat]
      BY DEF LoansTypeOK, Advance
    <3>3. [pc |-> "repay", period |-> at.period,
           todo |-> {l \in Advances : advance[l].status = "active"},
           seen |-> [l \in Advances |-> advance[l].balance]] \in Handling
      BY <3>1, <3>2 DEF Handling
    <3> QED
      BY <2>8, <3>3, HandlerMoves DEF ListActive, LoansTypeOK
  <2>9. ASSUME NEW l \in Advances, Repay(h, l) PROVE LoansTypeOK'
    <3> DEFINE next == [at EXCEPT !.todo = @ \ {l}]
               line == payslip[at.period].line
               rest == Left(at.seen[l], line)
    <3>1. at \in [pc : {"repay", "unwire"}, period : Periods,
                  todo : SUBSET Advances, seen : [Advances -> Nat]]
      BY <2>9, LoanHandling DEF Repay, Is
    <3>2. next \in Handling /\ [next EXCEPT !.pc = "unwire"] \in Handling
      BY <3>1 DEF Handling
    <3>3. line # NoLine => rest \in Nat
      BY <3>1, LeftOfBalance DEF LoansTypeOK, Slip, Lines
    <3>4. line # NoLine => [advance[l] EXCEPT !.balance = rest] \in Advance
      BY <3>3 DEF LoansTypeOK, Advance
    <3>5. [status |-> "closed", balance |-> 0] \in Advance
      BY DEF Advance, AdvanceStatus
    <3>6. handler' \in [Handlers -> Handling]
      BY <2>9, <3>2, HandlerMoves DEF Repay, LoansTypeOK
    <3>7. advance' \in [Advances -> Advance]
      BY <2>9, <3>4, <3>5 DEF Repay, LoansTypeOK
    <3> QED
      BY <2>9, <3>6, <3>7 DEF Repay, LoansTypeOK
  <2>10. CASE Unwire(h)
    <3>1. at \in [pc : {"repay", "unwire"}, period : Periods,
                  todo : SUBSET Advances, seen : [Advances -> Nat]]
      BY <2>10, LoanHandling DEF Unwire, Is
    <3>2. [at EXCEPT !.pc = "repay"] \in Handling
      BY <3>1 DEF Handling
    <3>3. NoLine \in Lines
      BY DEF Lines
    <3> QED
      BY <2>10, <3>2, <3>3, HandlerMoves, UpsertTypes DEF Unwire, LoansTypeOK
  <2>11. CASE Repaid(h)
    BY <2>1, <2>11, HandlerMoves DEF Repaid, LoansTypeOK
  <2> QED
    BY <1>5, <2>2, <2>3, <2>4, <2>5, <2>6, <2>7, <2>8, <2>9, <2>10, <2>11 DEF Handles
<1> QED
  BY <1>1, <1>2, <1>3, <1>4, <1>5 DEF LoansNext

LEMMA LoansTypeInit == LoansInit => LoansTypeOK
<1> USE AdvancesAssumption, PeriodsAssumption, LinesAssumption
<1>1. 0 \in Days /\ NoLine \in Lines
  BY DEF Days, Lines
<1>2. Resting \in Handling
  BY DEF Handling
<1> QED
  BY <1>1, <1>2 DEF LoansInit, LoansTypeOK, Advance, AdvanceStatus, Slip

\* The loans, the structure, the payslips and the handlers keep their types.
THEOREM LoansTypeCorrect == LoansSpec => []LoansTypeOK
BY LoansTypeInit, LoansTypeStep, PTL DEF LoansSpec

\* An instalment leaves the loan as it is, or smaller, or closed; the handler takes the
\* loan off its list, and goes on to the salary structure when the loan is closed.
LEMMA RepayOutcome ==
    ASSUME LoansTypeOK, NEW h \in Handlers, NEW l \in Advances, Repay(h, l),
           NEW line, line = payslip[handler[h].period].line,
           NEW rest, rest = Left(handler[h].seen[l], line)
    PROVE  /\ handler'[h].todo = handler[h].todo \ {l}
           /\ handler'[h].period = handler[h].period /\ handler'[h].seen = handler[h].seen
           /\ \A k \in Advances \ {l} : advance'[k] = advance[k]
           /\ \/ line = NoLine /\ advance'[l] = advance[l] /\ handler'[h].pc = "repay"
              \/ /\ line # NoLine /\ rest > 0 /\ handler'[h].pc = "repay"
                 /\ advance'[l].balance = rest /\ advance'[l].status = advance[l].status
              \/ /\ line # NoLine /\ rest = 0 /\ handler'[h].pc = "unwire"
                 /\ advance'[l].balance = 0 /\ advance'[l].status = "closed"
<1> DEFINE at == handler[h]
           next == [at EXCEPT !.todo = @ \ {l}]
           away == [next EXCEPT !.pc = "unwire"]
<1>1. at \in [pc : {"repay", "unwire"}, period : Periods,
              todo : SUBSET Advances, seen : [Advances -> Nat]] /\ at.pc = "repay"
  BY LoanHandling DEF Repay, Is
<1>2. /\ next.pc = "repay" /\ next.todo = at.todo \ {l}
      /\ next.period = at.period /\ next.seen = at.seen
  BY <1>1
<1>3. /\ away.pc = "unwire" /\ away.todo = at.todo \ {l}
      /\ away.period = at.period /\ away.seen = at.seen
  BY <1>1
<1>4. handler \in [Handlers -> Handling] /\ advance \in [Advances -> Advance]
  BY DEF LoansTypeOK
<1> HIDE DEF next, away
<1>5. CASE line = NoLine
  <2>1. Goes(h, next) /\ advance' = advance
    BY <1>5 DEF Repay, next
  <2> QED
    BY <1>2, <1>4, <1>5, <2>1 DEF Goes
<1>6. CASE line # NoLine /\ rest > 0
  <2>1. Goes(h, next) /\ advance' = [advance EXCEPT ![l].balance = rest]
    BY <1>6 DEF Repay, next
  <2>2. /\ \A k \in Advances \ {l} : advance'[k] = advance[k]
        /\ advance'[l].balance = rest /\ advance'[l].status = advance[l].status
    BY <1>4, <2>1 DEF Advance
  <2> QED
    BY <1>2, <1>4, <1>6, <2>1, <2>2 DEF Goes
<1>7. CASE line # NoLine /\ ~(rest > 0)
  <2>1. /\ Goes(h, away) /\ rest = 0
        /\ advance' = [advance EXCEPT ![l] = [status |-> "closed", balance |-> 0]]
    BY <1>7 DEF Repay, next, away
  <2>2. handler'[h] = away
    BY <1>4, <2>1 DEF Goes
  <2> QED
    BY <1>3, <1>4, <1>7, <2>1, <2>2
<1> QED
  BY <1>5, <1>6, <1>7

\* Two hypotheses the proofs about the deduction share: the employee has one loan,
\* and requests and tasks do not overlap.
OneLoan == \A k, l \in Advances : k = l
OneAtATime == \A g, h \in Handlers : g = h

ActiveLoans == {l \in Advances : advance[l].status = "active"}

\* The structure does not change after today; a decision holds what it read.
Ahead == \A date \in Days : date >= day => structure[date] = structure[day]
Decided == \A h \in Handlers :
    /\ handler[h].pc \in {"approve", "turn_down"} => advance[handler[h].loan].status = "requested"
    /\ handler[h].pc \in {"wire", "activate"} => advance[handler[h].loan].status = "approved"

\* The line is there before the loan is ACTIVE, and goes after it is closed.
Wired == \A h \in Handlers :
    /\ Is(h, "activate") => structure[day] # NoLine
    /\ Is(h, "unwire") => ActiveLoans = {}
Deducting ==
    /\ ActiveLoans # {} => structure[day] # NoLine
    /\ ActiveLoans = {} /\ (\A h \in Handlers : handler[h].pc \notin {"activate", "unwire"})
          => structure[day] = NoLine
DeductionInv == LoansTypeOK /\ Ahead /\ Decided /\ Wired /\ Deducting

LEMMA DecidedStep ==
    OneAtATime /\ LoansTypeOK /\ Decided /\ [LoansNext]_loansVars => Decided'
<1> SUFFICES ASSUME OneAtATime, LoansTypeOK, Decided, [LoansNext]_loansVars PROVE Decided'
  OBVIOUS
<1>1. CASE UNCHANGED <<handler, advance>>
  BY <1>1 DEF Decided
<1>2. ASSUME NEW l \in Advances, Borrow(l) PROVE Decided'
  <2>1. handler' = handler /\ \A k \in Advances \ {l} : advance'[k] = advance[k]
    BY <1>2 DEF Borrow, LoansTypeOK
  <2>2. \A h \in Handlers : handler[h].pc \in {"approve", "wire", "activate", "turn_down"} =>
          handler[h].loan \in Advances \ {l}
    BY <1>2, LoanHandling DEF Borrow, Decided
  <2> QED
    BY <2>1, <2>2 DEF Decided
<1>3. ASSUME NEW h \in Handlers, Handles(h) PROVE Decided'
  <2> DEFINE at == handler[h]
  <2>0. \A g \in Handlers : g = h
    BY DEF OneAtATime
  <2>1. CASE \E l \in Advances : Decide(h, l)
    <3>1. PICK l \in Advances, pc \in {"approve", "turn_down"} :
            Decide(h, l) /\ Goes(h, [pc |-> pc, loan |-> l])
      BY <2>1 DEF Decide
    <3>2. handler'[h] = [pc |-> pc, loan |-> l] /\ advance' = advance
      BY <3>1 DEF Decide, Goes, LoansTypeOK
    <3> QED
      BY <2>0, <3>1, <3>2 DEF Decided, Decide
  <2>2. CASE Approve(h)
    <3>1. /\ at.loan \in Advances
          /\ at \in [pc : {"approve", "wire", "activate", "turn_down"}, loan : Advances]
      BY <2>2, LoanHandling DEF Approve, Is
    <3>2. handler'[h].pc = "wire" /\ handler'[h].loan = at.loan
      BY <2>2, <3>1 DEF Approve, Goes, LoansTypeOK
    <3>3. advance'[at.loan].status = "approved"
      BY <2>2, <3>1 DEF Approve, LoansTypeOK, Advance
    <3> QED
      BY <2>0, <3>2, <3>3 DEF Decided
  <2>3. CASE Wire(h)
    <3>1. /\ at.loan \in Advances
          /\ at \in [pc : {"approve", "wire", "activate", "turn_down"}, loan : Advances]
      BY <2>3, LoanHandling DEF Wire, Is
    <3>2. handler'[h].pc = "activate" /\ handler'[h].loan = at.loan /\ advance' = advance
      BY <2>3, <3>1 DEF Wire, Goes, LoansTypeOK
    <3>3. advance[at.loan].status = "approved"
      BY <2>3 DEF Wire, Is, Decided
    <3> QED
      BY <2>0, <3>2, <3>3 DEF Decided
  <2>4. CASE \/ TurnDown(h) \/ Activate(h) \/ Repaid(h) \/ ListActive(h)
             \/ \E p \in Periods : Price(h, p)
    <3>1. handler'[h].pc \in {"idle", "list", "repay"}
      BY <2>4 DEF TurnDown, Activate, Repaid, ListActive, Price, Resting, Goes, LoansTypeOK
    <3> QED
      BY <2>0, <3>1 DEF Decided
  <2>5. CASE (\E l \in Advances : Repay(h, l)) \/ Unwire(h)
    <3>1. at \in [pc : {"repay", "unwire"}, period : Periods,
                  todo : SUBSET Advances, seen : [Advances -> Nat]]
      BY <2>5, LoanHandling DEF Repay, Unwire, Is
    <3>2. handler'[h].pc \in {"repay", "unwire"}
      <4>1. ASSUME NEW l \in Advances, Repay(h, l) PROVE handler'[h].pc \in {"repay", "unwire"}
        BY <4>1, RepayOutcome
      <4>2. CASE Unwire(h)
        BY <4>2, <3>1 DEF Unwire, Goes, LoansTypeOK
      <4> QED
        BY <2>5, <4>1, <4>2
    <3>3. \A g \in Handlers : handler'[g].pc \in {"repay", "unwire"}
      BY <2>0, <3>2
    <3> QED
      BY <3>3 DEF Decided
  <2> QED
    BY <1>3, <2>1, <2>2, <2>3, <2>4, <2>5 DEF Handles
<1> QED
  BY <1>1, <1>2, <1>3 DEF LoansNext, NextDay, FinalizePayslip, loansVars

\* A loan that is ACTIVE was decided: no handler holds a decision on it.
LEMMA NotWithdrawn ==
    LoansTypeOK /\ Decided /\ [LoansNext]_loansVars =>
        [\A l \in Advances :
            advance[l].status = "active" => advance'[l].status # "rejected"]_loansVars
<1> SUFFICES ASSUME LoansTypeOK, Decided, LoansNext, NEW l \in Advances,
                    advance[l].status = "active"
             PROVE  advance'[l].status # "rejected"
  OBVIOUS
<1>1. CASE advance' = advance
  BY <1>1
<1>2. ASSUME NEW k \in Advances, Borrow(k) PROVE advance'[l].status # "rejected"
  BY <1>2 DEF Borrow, LoansTypeOK, Advance
<1>3. ASSUME NEW h \in Handlers, TurnDown(h) PROVE advance'[l].status # "rejected"
  <2>1. handler[h].loan # l
    BY <1>3 DEF TurnDown, Is, Decided
  <2> QED
    BY <1>3, <2>1 DEF TurnDown, LoansTypeOK, Advance
<1>4. ASSUME NEW h \in Handlers, Approve(h) \/ Activate(h) PROVE advance'[l].status # "rejected"
  <2>1. advance' \in [Advances -> Advance]
    BY LoansTypeStep DEF LoansTypeOK
  <2>2. handler[h].loan \in Advances
    BY <1>4, LoanHandling DEF Approve, Activate, Is
  <2>3. CASE handler[h].loan = l
    BY <1>4, <2>2, <2>3 DEF Approve, Activate, LoansTypeOK, Advance
  <2>4. CASE handler[h].loan # l
    BY <1>4, <2>2, <2>4 DEF Approve, Activate, LoansTypeOK, Advance
  <2> QED
    BY <2>3, <2>4
<1>5. ASSUME NEW h \in Handlers, NEW k \in Advances, Repay(h, k) PROVE advance'[l].status # "rejected"
  <2>1. \/ advance'[k].status = advance[k].status \/ advance'[k].status = "closed"
    BY <1>5, RepayOutcome
  <2>2. k # l => advance'[l] = advance[l]
    BY <1>5, RepayOutcome
  <2> QED
    BY <2>1, <2>2
<1> QED
  BY <1>1, <1>2, <1>3, <1>4, <1>5 DEF LoansNext, Handles, NextDay, FinalizePayslip, Decide, Wire,
     Price, ListActive, Unwire, Repaid

LEMMA DecidedInit == LoansInit => Decided
BY DEF LoansInit, Decided, Resting

\* With one request or task at a time, an ACTIVE loan is not withdrawn: what cancel and
\* reject read still holds when they save.
THEOREM ActiveNotWithdrawnCorrect == OneAtATime /\ LoansSpec => ActiveNotWithdrawn
<1>1. CASE OneAtATime
  BY <1>1, LoansTypeInit, LoansTypeStep, DecidedInit, DecidedStep, NotWithdrawn, PTL
     DEF LoansSpec, ActiveNotWithdrawn
<1> QED
  BY <1>1

\* What the deduction depends on: the structure, the ACTIVE loans and whether a handler
\* is between the two.
LEMMA SameDeduction ==
    ASSUME Ahead, Wired, Deducting, UNCHANGED <<day, structure>>, ActiveLoans' = ActiveLoans,
           \A h \in Handlers : handler[h].pc \notin {"activate", "unwire"} /\
                               handler'[h].pc \notin {"activate", "unwire"}
    PROVE  Ahead' /\ Wired' /\ Deducting'
BY DEF Ahead, Wired, Deducting, Is

LEMMA DeductionStep ==
    OneAtATime /\ OneLoan /\ DeductionInv /\ [LoansNext]_loansVars => DeductionInv'
<1> SUFFICES ASSUME OneAtATime, OneLoan, DeductionInv, [LoansNext]_loansVars PROVE DeductionInv'
  OBVIOUS
<1> USE AdvancesAssumption, PeriodsAssumption, LinesAssumption
<1>1. LoansTypeOK' /\ Decided'
  BY LoansTypeStep, DecidedStep DEF DeductionInv
<1>2. LoansTypeOK /\ Ahead /\ Decided /\ Wired /\ Deducting
  BY DEF DeductionInv
<1>3. CASE UNCHANGED <<day, structure, advance, handler>>
  <2>1. Ahead' /\ Wired' /\ Deducting'
    BY <1>2, <1>3 DEF Ahead, Wired, Deducting, ActiveLoans, Is
  <2> QED
    BY <1>1, <2>1 DEF DeductionInv
<1>4. CASE NextDay
  <2>1. /\ day' = day + 1 /\ day \in Days /\ day' \in Days
        /\ UNCHANGED <<structure, advance, handler>>
    BY <1>2, <1>4 DEF NextDay, LoansTypeOK, Days
  <2>2. \A date \in Days : date >= day' => structure'[date] = structure[day]
    BY <1>2, <2>1 DEF Ahead, Days
  <2>3. structure'[day'] = structure[day]
    BY <2>1, <2>2 DEF Days
  <2>4. Ahead' /\ Wired' /\ Deducting'
    BY <1>2, <2>1, <2>2, <2>3 DEF Ahead, Wired, Deducting, ActiveLoans, Is
  <2> QED
    BY <1>1, <2>4 DEF DeductionInv
<1>5. ASSUME NEW l \in Advances, Borrow(l) PROVE DeductionInv'
  <2>1. /\ UNCHANGED <<day, structure, handler>> /\ advance[l].status = "none"
        /\ advance'[l].status = "requested" /\ \A k \in Advances \ {l} : advance'[k] = advance[k]
    BY <1>2, <1>5 DEF Borrow, LoansTypeOK, Advance
  <2>2. ActiveLoans' = ActiveLoans
    BY <2>1 DEF ActiveLoans
  <2>3. Ahead' /\ Wired' /\ Deducting'
    BY <1>2, <2>1, <2>2 DEF Ahead, Wired, Deducting, Is
  <2> QED
    BY <1>1, <2>3 DEF DeductionInv
<1>6. ASSUME NEW h \in Handlers, Handles(h) PROVE DeductionInv'
  <2> DEFINE at == handler[h]
  <2>0. \A g \in Handlers : g = h
    BY DEF OneAtATime
  <2>1. ASSUME Ahead', Wired', Deducting' PROVE DeductionInv'
    BY <1>1, <2>1 DEF DeductionInv
  <2>2. ASSUME UNCHANGED <<day, structure>>, ActiveLoans' = ActiveLoans,
               at.pc \notin {"activate", "unwire"}, handler'[h].pc \notin {"activate", "unwire"}
        PROVE  DeductionInv'
    BY <1>2, <2>0, <2>1, <2>2, SameDeduction
  <2>3. CASE (\E l \in Advances : Decide(h, l)) \/ (\E p \in Periods : Price(h, p))
             \/ ListActive(h) \/ Repaid(h)
    <3>1. /\ UNCHANGED <<day, structure, advance>> /\ at.pc \in {"idle", "list", "repay"}
          /\ handler'[h].pc \in {"idle", "approve", "turn_down", "list", "repay"}
      BY <1>2, <2>3 DEF Decide, Price, ListActive, Repaid, Resting, Goes, Is, LoansTypeOK
    <3> QED
      BY <2>2, <3>1 DEF ActiveLoans
  <2>4. ASSUME TurnDown(h) \/ Approve(h) PROVE DeductionInv'
    <3>1. /\ at.loan \in Advances /\ advance[at.loan].status = "requested"
          /\ at \in [pc : {"approve", "wire", "activate", "turn_down"}, loan : Advances]
      BY <1>2, <2>4, LoanHandling DEF TurnDown, Approve, Is, Decided
    <3>2. /\ advance'[at.loan].status # "active"
          /\ \A k \in Advances \ {at.loan} : advance'[k] = advance[k]
      BY <1>2, <2>4, <3>1 DEF TurnDown, Approve, LoansTypeOK, Advance
    <3>3. ActiveLoans' = ActiveLoans
      BY <3>1, <3>2 DEF ActiveLoans
    <3>4. /\ UNCHANGED <<day, structure>> /\ at.pc \in {"turn_down", "approve"}
          /\ handler'[h].pc \in {"idle", "wire"}
      BY <1>2, <2>4, <3>1 DEF TurnDown, Approve, Resting, Goes, Is, LoansTypeOK
    <3> QED
      BY <2>2, <3>3, <3>4
  <2>5. CASE Wire(h)
    <3>1. /\ at.loan \in Advances
          /\ at \in [pc : {"approve", "wire", "activate", "turn_down"}, loan : Advances]
      BY <1>2, <2>5, LoanHandling DEF Wire, Is
    <3>2. Monthly[at.loan] \in Lines /\ Monthly[at.loan] # NoLine
      BY <3>1 DEF Lines
    <3>3. /\ UNCHANGED <<day, advance>> /\ handler'[h].pc = "activate"
          /\ day \in Days /\ Upsert(Monthly[at.loan])
      BY <1>2, <2>5, <3>1 DEF Wire, Goes, LoansTypeOK
    <3>4. \A date \in Days : structure'[date] =
            IF date >= day THEN Monthly[at.loan] ELSE structure[date]
      BY <1>2, <3>2, <3>3, UpsertTypes DEF LoansTypeOK
    <3>5. structure'[day'] = Monthly[at.loan]
      BY <3>3, <3>4 DEF Days
    <3>6. Ahead'
      BY <3>3, <3>4, <3>5 DEF Ahead
    <3>7. Wired' /\ Deducting'
      BY <2>0, <3>2, <3>3, <3>5 DEF Wired, Deducting, Is
    <3> QED
      BY <2>1, <3>6, <3>7
  <2>6. CASE Activate(h)
    <3>1. at.loan \in Advances /\ structure[day] # NoLine
      BY <1>2, <2>6, LoanHandling DEF Activate, Is, Wired
    <3>2. /\ UNCHANGED <<day, structure>> /\ handler'[h].pc = "idle"
          /\ advance'[at.loan].status = "active"
      BY <1>2, <2>6, <3>1 DEF Activate, Goes, Resting, LoansTypeOK
    <3>3. at.loan \in ActiveLoans'
      BY <3>1, <3>2 DEF ActiveLoans
    <3>4. Ahead' /\ Wired' /\ Deducting'
      BY <1>2, <2>0, <3>1, <3>2, <3>3 DEF Ahead, Wired, Deducting, Is
    <3> QED
      BY <2>1, <3>4
  <2>7. ASSUME NEW l \in Advances, Repay(h, l) PROVE DeductionInv'
    <3>1. UNCHANGED <<day, structure>> /\ at.pc = "repay"
      BY <2>7 DEF Repay, Is
    <3>2. \A k \in Advances : k = l
      BY DEF OneLoan
    <3>3. \/ advance'[l].status = advance[l].status /\ handler'[h].pc = "repay"
          \/ advance'[l].status = "closed" /\ handler'[h].pc = "unwire"
      BY <1>2, <2>7, RepayOutcome
    <3>4. CASE advance'[l].status = advance[l].status /\ handler'[h].pc = "repay"
      <4>1. ActiveLoans' = ActiveLoans
        BY <3>2, <3>4 DEF ActiveLoans
      <4> QED
        BY <2>2, <3>1, <3>4, <4>1
    <3>5. CASE advance'[l].status = "closed" /\ handler'[h].pc = "unwire"
      <4>1. ActiveLoans' = {}
        BY <3>2, <3>5 DEF ActiveLoans
      <4>2. Ahead' /\ Wired' /\ Deducting'
        BY <1>2, <2>0, <3>1, <3>5, <4>1 DEF Ahead, Wired, Deducting, Is
      <4> QED
        BY <2>1, <4>2
    <3> QED
      BY <3>3, <3>4, <3>5
  <2>8. CASE Unwire(h)
    <3>1. at \in [pc : {"repay", "unwire"}, period : Periods,
                  todo : SUBSET Advances, seen : [Advances -> Nat]]
      BY <1>2, <2>8, LoanHandling DEF Unwire, Is
    <3>2. ActiveLoans = {}
      BY <1>2, <2>8 DEF Unwire, Wired
    <3>3. /\ UNCHANGED <<day, advance>> /\ handler'[h].pc = "repay"
          /\ day \in Days /\ Upsert(NoLine) /\ NoLine \in Lines
      BY <1>2, <2>8, <3>1 DEF Unwire, Goes, LoansTypeOK, Lines
    <3>4. \A date \in Days : structure'[date] =
            IF date >= day THEN NoLine ELSE structure[date]
      BY <1>2, <3>3, UpsertTypes DEF LoansTypeOK
    <3>5. structure'[day'] = NoLine
      BY <3>3, <3>4 DEF Days
    <3>6. ActiveLoans' = {}
      BY <3>2, <3>3 DEF ActiveLoans
    <3>7. Ahead'
      BY <3>3, <3>4, <3>5 DEF Ahead
    <3>8. Wired' /\ Deducting'
      BY <2>0, <3>3, <3>5, <3>6 DEF Wired, Deducting, Is
    <3> QED
      BY <2>1, <3>7, <3>8
  <2> QED
    BY <1>6, <2>3, <2>4, <2>5, <2>6, <2>7, <2>8 DEF Handles
<1> QED
  BY <1>3, <1>4, <1>5, <1>6 DEF LoansNext, FinalizePayslip, loansVars

LEMMA DeductionInit == LoansInit => DeductionInv
<1> SUFFICES ASSUME LoansInit PROVE DeductionInv
  OBVIOUS
<1>1. LoansTypeOK
  BY LoansTypeInit
<1>2. \A h \in Handlers : handler[h].pc = "idle"
  BY DEF LoansInit, Resting
<1>3. \A date \in Days : structure[date] = NoLine
  BY DEF LoansInit
<1>4. ActiveLoans = {}
  BY DEF LoansInit, ActiveLoans
<1>5. day \in Days
  BY <1>1 DEF LoansTypeOK
<1> QED
  BY <1>1, <1>2, <1>3, <1>4, <1>5 DEF DeductionInv, Ahead, Decided, Wired, Deducting, Is

\* With one loan, handled by one request or task at a time, the salary structure deducts
\* whenever nothing is in progress exactly if the loan is ACTIVE, however often payslips
\* are computed and in whatever order.
THEOREM DeductedWhileActiveCorrect ==
    OneAtATime /\ OneLoan /\ LoansSpec => []DeductedWhileActive
<1>1. DeductionInv => DeductedWhileActive
  BY DEF DeductionInv, Deducting, DeductedWhileActive, AtRest, ActiveLoans, ActiveStructure, Is
<1>2. CASE OneAtATime /\ OneLoan
  BY <1>1, <1>2, DeductionInit, DeductionStep, PTL DEF LoansSpec
<1> QED
  BY <1>2

\* The balance further needs every payslip to be computed once.
Once == MaxPricings <= 1

\* Nothing is deducted before there is a loan, nor on a payslip that was not computed.
Lent == {l \in Advances : advance[l].status \in {"active", "closed"}}
Unlent == Lent = {} =>
    /\ withheld = 0 /\ \A p \in Periods : payslip[p].line = NoLine
    /\ (\A h \in Handlers : ~Is(h, "activate")) => \A date \in Days : structure[date] = NoLine
Unpriced == \A p \in Periods : pricings[p] = 0 => payslip[p].line = NoLine

\* Between the payslip and its instalment the balance is behind by the payslip's line.
Rest(l, paid) == IF paid >= Principal[l] THEN 0 ELSE Principal[l] - paid
Owing(h, l) == Is(h, "list") \/ (Is(h, "repay") /\ l \in handler[h].todo)
Balanced == \A l \in Lent :
    /\ (\A h \in Handlers : ~Owing(h, l)) => advance[l].balance = Rest(l, withheld)
    /\ \A h \in Handlers : Owing(h, l) =>
          advance[l].balance = Rest(l, withheld - Amount(payslip[handler[h].period].line))
    /\ advance[l].status = "closed" => advance[l].balance = 0
Listed == \A h \in Handlers :
    /\ Is(h, "repay") => \A l \in handler[h].todo :
          advance[l].status = "active" /\ handler[h].seen[l] = advance[l].balance
    /\ Is(h, "unwire") => handler[h].todo = {}
Accounts == Unlent /\ Unpriced /\ Balanced /\ Listed
BalanceInv == LoansTypeOK /\ Decided /\ Accounts

\* Taking an instalment off what was left before a payslip leaves what is left after it.
LEMMA RestAfter ==
    ASSUME NEW l \in Advances, NEW paid \in Int, NEW line \in Nat
    PROVE  /\ Rest(l, paid) \in Nat
           /\ Left(Rest(l, paid - line), line) = Rest(l, paid)
           /\ Rest(l, paid - line) = 0 => Rest(l, paid) = 0
BY AdvancesAssumption DEF Left, Least, Rest

\* What the accounts depend on.
LEMMA SameAccounts ==
    ASSUME Accounts,
           UNCHANGED <<structure, pricings, withheld>>,
           \A p \in Periods : payslip'[p].line = payslip[p].line,
           Lent' = Lent, \A l \in Lent : advance'[l] = advance[l],
           \A h \in Handlers : handler[h].pc \notin {"activate", "list", "repay", "unwire"} /\
                               handler'[h].pc \notin {"activate", "list", "repay", "unwire"}
    PROVE  Accounts'
BY DEF Accounts, Unlent, Unpriced, Balanced, Listed, Owing, Rest, Is

LEMMA AccountsDecide ==
    ASSUME OneAtATime, OneLoan, BalanceInv, NEW h \in Handlers,
           \/ \E l \in Advances : Decide(h, l)
           \/ TurnDown(h) \/ Approve(h) \/ Wire(h) \/ Activate(h)
    PROVE  Accounts'
<1> DEFINE at == handler[h]
<1> USE AdvancesAssumption, PeriodsAssumption, LinesAssumption
<1>1. LoansTypeOK /\ Decided /\ Accounts
  BY DEF BalanceInv
<1>2. \A g \in Handlers : g = h
  BY DEF OneAtATime
<1>3. CASE \E l \in Advances : Decide(h, l)
  <2>1. /\ UNCHANGED <<structure, pricings, withheld, payslip, advance>> /\ at.pc = "idle"
        /\ handler'[h].pc \in {"approve", "turn_down"}
    BY <1>1, <1>3 DEF Decide, Goes, Is, LoansTypeOK
  <2>2. Lent' = Lent
    BY <2>1 DEF Lent
  <2> QED
    BY <1>1, <1>2, <2>1, <2>2, SameAccounts
<1>4. CASE TurnDown(h) \/ Approve(h)
  <2>1. /\ at.loan \in Advances /\ advance[at.loan].status = "requested"
        /\ at \in [pc : {"approve", "wire", "activate", "turn_down"}, loan : Advances]
    BY <1>1, <1>4, LoanHandling DEF TurnDown, Approve, Is, Decided
  <2>2. /\ advance'[at.loan].status \in {"rejected", "approved"}
        /\ \A k \in Advances \ {at.loan} : advance'[k] = advance[k]
    BY <1>1, <1>4, <2>1 DEF TurnDown, Approve, LoansTypeOK, Advance
  <2>3. /\ UNCHANGED <<structure, pricings, withheld, payslip>>
        /\ at.pc \in {"turn_down", "approve"} /\ handler'[h].pc \in {"idle", "wire"}
    BY <1>1, <1>4, <2>1 DEF TurnDown, Approve, Resting, Goes, Is, LoansTypeOK
  <2>4. Lent' = Lent /\ at.loan \notin Lent
    BY <2>1, <2>2 DEF Lent
  <2>5. \A l \in Lent : advance'[l] = advance[l]
    BY <2>2, <2>4 DEF Lent
  <2> QED
    BY <1>1, <1>2, <2>3, <2>4, <2>5, SameAccounts
<1>5. CASE Wire(h)
  <2>1. /\ at.loan \in Advances /\ advance[at.loan].status = "approved"
        /\ at \in [pc : {"approve", "wire", "activate", "turn_down"}, loan : Advances]
    BY <1>1, <1>5, LoanHandling DEF Wire, Is, Decided
  <2>2. Lent = {}
    BY <2>1 DEF Lent, OneLoan
  <2>3. /\ UNCHANGED <<pricings, withheld, payslip, advance>>
        /\ handler'[h].pc = "activate"
    BY <1>1, <1>5, <2>1 DEF Wire, Goes, Is, LoansTypeOK
  <2>4. Lent' = {}
    BY <2>2, <2>3 DEF Lent
  <2> QED
    BY <1>1, <1>2, <2>2, <2>3, <2>4 DEF Accounts, Unlent, Unpriced, Balanced, Listed, Is
<1>6. CASE Activate(h)
  <2>1. /\ at.loan \in Advances /\ advance[at.loan].status = "approved"
    BY <1>1, <1>6, LoanHandling DEF Activate, Is, Decided
  <2>2. Lent = {} /\ withheld = 0
    BY <1>1, <2>1 DEF Lent, OneLoan, Accounts, Unlent
  <2>3. /\ UNCHANGED <<pricings, withheld, payslip>> /\ handler'[h].pc = "idle"
        /\ advance'[at.loan] = [status |-> "active", balance |-> Principal[at.loan]]
    BY <1>1, <1>6, <2>1 DEF Activate, Goes, Resting, LoansTypeOK
  <2>4. at.loan \in Lent' /\ \A l \in Lent' : l = at.loan
    BY <2>1, <2>3 DEF Lent, OneLoan
  <2>5. advance'[at.loan].balance = Rest(at.loan, withheld')
    BY <2>1, <2>2, <2>3 DEF Rest
  <2>6. Unlent' /\ Unpriced'
    BY <1>1, <2>3, <2>4 DEF Accounts, Unlent, Unpriced
  <2>7. Listed'
    BY <1>2, <2>3 DEF Listed, Is
  <2>8. \A g \in Handlers : handler'[g].pc = "idle"
    BY <1>2, <2>3
  <2>9. advance'[at.loan].status = "active"
    BY <2>3
  <2>10. Balanced'
    BY <2>4, <2>5, <2>8, <2>9 DEF Balanced, Owing, Is, Rest
  <2> QED
    BY <2>6, <2>7, <2>10 DEF Accounts
<1> QED
  BY <1>3, <1>4, <1>5, <1>6

LEMMA AccountsPrice ==
    ASSUME OneAtATime, Once, BalanceInv, NEW h \in Handlers, NEW p \in Periods, Price(h, p)
    PROVE  Accounts'
<1> DEFINE line == ActiveStructure(PeriodEnd[p])
<1> USE PeriodsAssumption, LinesAssumption
<1>1. LoansTypeOK /\ Accounts /\ \A g \in Handlers : g = h
  BY DEF BalanceInv, OneAtATime
<1>2. pricings[p] = 0 /\ payslip[p].line = NoLine
  <2>1. pricings[p] < MaxPricings /\ pricings[p] \in Nat
    BY <1>1 DEF Price, LoansTypeOK
  <2> QED
    BY <1>1, <2>1 DEF Once, Accounts, Unpriced
<1>3. line \in Lines /\ Amount(line) \in Nat /\ withheld \in Int
  BY <1>1 DEF LoansTypeOK, ActiveStructure, Lines, Amount
<1>4. /\ UNCHANGED <<structure, advance>> /\ handler[h].pc = "idle"
      /\ handler'[h] = [pc |-> "list", period |-> p]
      /\ withheld' = withheld - Amount(payslip[p].line) + Amount(line)
      /\ payslip'[p].line = line /\ pricings'[p] = pricings[p] + 1
      /\ \A q \in Periods \ {p} : payslip'[q].line = payslip[q].line /\ pricings'[q] = pricings[q]
  BY <1>1 DEF Price, Goes, Is, LoansTypeOK
<1>5. withheld' = withheld + Amount(line) /\ withheld' - Amount(line) = withheld
  BY <1>2, <1>3, <1>4 DEF Amount
<1>6. \A g \in Handlers : /\ handler[g].pc = "idle" /\ handler'[g].pc = "list"
                          /\ handler'[g].period = p
  BY <1>1, <1>4
<1>7. Lent' = Lent
  BY <1>4 DEF Lent
<1>8. Unlent'
  <2> SUFFICES ASSUME Lent = {}
               PROVE  /\ withheld' = 0 /\ \A q \in Periods : payslip'[q].line = NoLine
                      /\ \A date \in Days : structure'[date] = NoLine
    BY <1>7 DEF Unlent
  <2>1. /\ withheld = 0 /\ \A q \in Periods : payslip[q].line = NoLine
        /\ \A date \in Days : structure[date] = NoLine
    BY <1>1, <1>6 DEF Accounts, Unlent, Is
  <2>2. line = NoLine
    BY <2>1 DEF ActiveStructure
  <2> QED
    BY <1>4, <1>5, <2>1, <2>2 DEF Amount
<1>9. Unpriced'
  BY <1>1, <1>2, <1>4 DEF Accounts, Unpriced
<1>10. Balanced'
  <2> SUFFICES ASSUME NEW l \in Lent
               PROVE  /\ (\A g \in Handlers : ~Owing(g, l)') =>
                            advance'[l].balance = Rest(l, withheld')
                      /\ \A g \in Handlers : Owing(g, l)' => advance'[l].balance =
                            Rest(l, withheld' - Amount(payslip'[handler'[g].period].line))
                      /\ advance'[l].status = "closed" => advance'[l].balance = 0
    BY <1>7 DEF Balanced, Rest, Amount
  <2>1. Owing(h, l)'
    BY <1>6 DEF Owing, Is
  <2>2. advance[l].balance = Rest(l, withheld)
    BY <1>1, <1>6 DEF Accounts, Balanced, Owing, Is
  <2>3. \A g \in Handlers : payslip'[handler'[g].period].line = line
    BY <1>4, <1>6
  <2>4. advance[l].status = "closed" => advance[l].balance = 0
    BY <1>1 DEF Accounts, Balanced
  <2> QED
    BY <1>4, <1>5, <2>1, <2>2, <2>3, <2>4
<1>11. Listed'
  BY <1>6 DEF Listed, Is
<1> QED
  BY <1>8, <1>9, <1>10, <1>11 DEF Accounts

LEMMA AccountsList ==
    ASSUME OneAtATime, BalanceInv, NEW h \in Handlers, ListActive(h)
    PROVE  Accounts'
<1> DEFINE at == handler[h]
           line == payslip[at.period].line
<1>1. LoansTypeOK /\ Accounts /\ \A g \in Handlers : g = h
  BY DEF BalanceInv, OneAtATime
<1>2. at.pc = "list" /\ at.period \in Periods
  BY <1>1, LoanHandling DEF ListActive, Is
<1>3. Amount(line) \in Nat /\ withheld \in Int
  BY <1>1, <1>2, LinesAssumption DEF LoansTypeOK, Slip, Lines, Amount
<1>4. /\ UNCHANGED <<structure, advance, payslip, pricings, withheld>>
      /\ handler'[h].pc = "repay" /\ handler'[h].period = at.period
      /\ handler'[h].todo = {l \in Advances : advance[l].status = "active"}
      /\ \A l \in Advances : handler'[h].seen[l] = advance[l].balance
  BY <1>1 DEF ListActive, Goes, LoansTypeOK
<1>5. Lent' = Lent
  BY <1>4 DEF Lent
<1>6. Unlent' /\ Unpriced'
  BY <1>1, <1>2, <1>4, <1>5 DEF Accounts, Unlent, Unpriced, Is
<1>7. Balanced'
  <2> SUFFICES ASSUME NEW l \in Lent
               PROVE  /\ ~Owing(h, l)' => advance'[l].balance = Rest(l, withheld')
                      /\ Owing(h, l)' => advance'[l].balance =
                            Rest(l, withheld' - Amount(payslip'[handler'[h].period].line))
                      /\ advance'[l].status = "closed" => advance'[l].balance = 0
    BY <1>1, <1>5 DEF Balanced, Rest, Amount
  <2>1. Owing(h, l) /\ l \in Advances
    BY <1>2 DEF Owing, Is, Lent
  <2>2. advance[l].balance = Rest(l, withheld - Amount(line))
    BY <1>1, <2>1 DEF Accounts, Balanced
  <2>3. advance[l].status = "closed" => advance[l].balance = 0
    BY <1>1 DEF Accounts, Balanced
  <2>4. CASE advance[l].status = "active"
    <3>1. Owing(h, l)'
      BY <1>4, <2>1, <2>4 DEF Owing, Is
    <3> QED
      BY <1>4, <2>2, <2>3, <3>1
  <2>5. CASE advance[l].status = "closed"
    <3>1. ~Owing(h, l)'
      BY <1>4, <2>5 DEF Owing, Is
    <3>2. Rest(l, withheld) = 0
      BY <1>3, <2>1, <2>2, <2>3, <2>5, RestAfter
    <3> QED
      BY <1>4, <2>3, <2>5, <3>1, <3>2
  <2> QED
    BY <2>4, <2>5 DEF Lent
<1>8. Listed'
  BY <1>1, <1>4 DEF Listed, Is
<1> QED
  BY <1>6, <1>7, <1>8 DEF Accounts

LEMMA AccountsRepay ==
    ASSUME OneAtATime, OneLoan, BalanceInv, NEW h \in Handlers, NEW l \in Advances, Repay(h, l)
    PROVE  Accounts'
<1> DEFINE at == handler[h]
           line == payslip[at.period].line
           rest == Left(at.seen[l], line)
<1>1. LoansTypeOK /\ Accounts /\ \A g \in Handlers : g = h
  BY DEF BalanceInv, OneAtATime
<1>2. /\ at.pc = "repay" /\ l \in at.todo /\ at.period \in Periods /\ at.todo \subseteq Advances
      /\ UNCHANGED <<structure, payslip, pricings, withheld>>
  BY <1>1, LoanHandling DEF Repay, Is
<1>3. line \in Lines /\ Amount(line) \in Nat /\ withheld \in Int
  BY <1>1, <1>2, LinesAssumption DEF LoansTypeOK, Slip, Lines, Amount
<1>4. advance[l].status = "active" /\ at.seen[l] = advance[l].balance
  BY <1>1, <1>2 DEF Accounts, Listed, Is
<1>5. l \in Lent /\ Owing(h, l)
  BY <1>2, <1>4 DEF Lent, Owing, Is
<1>6. at.seen[l] = Rest(l, withheld - Amount(line))
  BY <1>1, <1>4, <1>5 DEF Accounts, Balanced
<1>7. /\ handler'[h].pc \in {"repay", "unwire"} /\ handler'[h].todo = at.todo \ {l}
      /\ advance'[l].status \in {"active", "closed"}
      /\ handler'[h].pc = "unwire" => advance'[l].status = "closed"
      /\ advance'[l].status = "closed" => advance'[l].balance = 0
  BY <1>1, <1>4, RepayOutcome
<1>8. advance'[l].balance = Rest(l, withheld)
  <2>1. CASE line = NoLine
    <3>1. advance'[l] = advance[l]
      BY <1>1, <2>1, RepayOutcome
    <3>2. withheld - Amount(line) = withheld
      BY <1>3, <2>1 DEF Amount
    <3> QED
      BY <1>4, <1>6, <3>1, <3>2
  <2>2. CASE line # NoLine
    <3>1. Amount(line) = line /\ line \in Nat
      BY <1>3, <2>2 DEF Amount, Lines
    <3>2. rest = Rest(l, withheld)
      BY <1>3, <1>6, <3>1, RestAfter
    <3>3. advance'[l].balance = rest
      BY <1>1, <2>2, RepayOutcome
    <3> QED
      BY <3>2, <3>3
  <2> QED
    BY <2>1, <2>2
<1>9. handler'[h].todo = {} /\ \A k \in Advances : k = l
  BY <1>2, <1>7 DEF OneLoan
<1>10. l \in Lent' /\ \A k \in Lent' : k = l
  BY <1>7, <1>9 DEF Lent
<1>11. ~Owing(h, l)'
  BY <1>7, <1>9 DEF Owing, Is
<1>12. Unlent' /\ Unpriced'
  BY <1>1, <1>2, <1>10 DEF Accounts, Unlent, Unpriced
<1>13. Balanced'
  BY <1>1, <1>2, <1>7, <1>8, <1>10, <1>11 DEF Balanced, Rest
<1>14. Listed'
  BY <1>1, <1>9 DEF Listed, Is
<1> QED
  BY <1>12, <1>13, <1>14 DEF Accounts

LEMMA BalanceStep ==
    OneAtATime /\ OneLoan /\ Once /\ BalanceInv /\ [LoansNext]_loansVars => BalanceInv'
<1> SUFFICES ASSUME OneAtATime, OneLoan, Once, BalanceInv, [LoansNext]_loansVars PROVE BalanceInv'
  OBVIOUS
<1>1. LoansTypeOK /\ Decided /\ Accounts
  BY DEF BalanceInv
<1>2. LoansTypeOK' /\ Decided'
  BY <1>1, LoansTypeStep, DecidedStep
<1>3. CASE UNCHANGED loansVars \/ NextDay \/ \E p \in Periods : FinalizePayslip(p)
  <2>1. /\ UNCHANGED <<structure, advance, pricings, handler, withheld>>
        /\ \A p \in Periods : payslip'[p].line = payslip[p].line
    BY <1>1, <1>3 DEF loansVars, NextDay, FinalizePayslip, LoansTypeOK, Slip
  <2>2. Lent' = Lent /\ \A h \in Handlers : Is(h, "list") \/ Is(h, "repay") =>
                                               handler[h].period \in Periods
    BY <1>1, <2>1, LoanHandling DEF Lent, Is
  <2>3. Unlent' /\ Unpriced' /\ Listed'
    BY <1>1, <2>1, <2>2 DEF Accounts, Unlent, Unpriced, Listed, Is
  <2>4. Balanced'
    BY <1>1, <2>1, <2>2 DEF Accounts, Balanced, Owing, Is, Rest
  <2> QED
    BY <1>2, <2>3, <2>4 DEF BalanceInv, Accounts
<1>4. ASSUME NEW l \in Advances, Borrow(l) PROVE BalanceInv'
  <2>1. /\ UNCHANGED <<structure, payslip, pricings, handler, withheld>>
        /\ advance[l].status = "none" /\ advance'[l].status = "requested"
        /\ \A k \in Advances \ {l} : advance'[k] = advance[k]
    BY <1>1, <1>4 DEF Borrow, LoansTypeOK, Advance
  <2>2. Lent' = Lent /\ l \notin Lent /\ \A k \in Lent : advance'[k] = advance[k]
    BY <2>1 DEF Lent
  <2>3. Unlent' /\ Unpriced'
    BY <1>1, <2>1, <2>2 DEF Accounts, Unlent, Unpriced, Is
  <2>4. Listed'
    <3>1. \A h \in Handlers : Is(h, "repay") => handler[h].todo \subseteq Advances \ {l}
      BY <1>1, <2>1, LoanHandling DEF Accounts, Listed, Is
    <3> QED
      BY <1>1, <2>1, <3>1 DEF Accounts, Listed, Is
  <2>5. Balanced'
    BY <1>1, <2>1, <2>2 DEF Accounts, Balanced, Owing, Is, Rest
  <2> QED
    BY <1>2, <2>3, <2>4, <2>5 DEF BalanceInv, Accounts
<1>5. ASSUME NEW h \in Handlers, Handles(h) PROVE BalanceInv'
  <2>0. ASSUME Accounts' PROVE BalanceInv'
    BY <1>2, <2>0 DEF BalanceInv
  <2>1. CASE (\E l \in Advances : Decide(h, l)) \/ TurnDown(h) \/ Approve(h) \/ Wire(h) \/ Activate(h)
    BY <2>0, <2>1, AccountsDecide
  <2>2. CASE \E p \in Periods : Price(h, p)
    BY <2>0, <2>2, AccountsPrice
  <2>3. CASE ListActive(h)
    BY <2>0, <2>3, AccountsList
  <2>4. CASE \E l \in Advances : Repay(h, l)
    BY <2>0, <2>4, AccountsRepay
  <2>5. CASE Unwire(h)
    <3>1. \A g \in Handlers : g = h
      BY DEF OneAtATime
    <3>2. handler[h] \in [pc : {"repay", "unwire"}, period : Periods,
                          todo : SUBSET Advances, seen : [Advances -> Nat]]
      BY <1>1, <2>5, LoanHandling DEF Unwire, Is
    <3>3. /\ UNCHANGED <<advance, payslip, pricings, withheld>> /\ handler[h].pc = "unwire"
          /\ handler'[h].pc = "repay" /\ handler'[h].todo = handler[h].todo
          /\ Upsert(NoLine) /\ handler[h].todo = {}
      BY <1>1, <2>5, <3>2 DEF Unwire, Goes, Is, LoansTypeOK, Accounts, Listed
    <3>4. \A date \in Days : structure'[date] = IF date >= day THEN NoLine ELSE structure[date]
      BY <1>1, <3>3, UpsertTypes DEF LoansTypeOK, Lines
    <3>5. Lent' = Lent
      BY <3>3 DEF Lent
    <3>6. Unlent' /\ Unpriced' /\ Listed'
      BY <1>1, <3>1, <3>3, <3>4, <3>5 DEF Accounts, Unlent, Unpriced, Listed, Is
    <3>7. Balanced'
      BY <1>1, <3>1, <3>3, <3>5 DEF Accounts, Balanced, Owing, Is, Rest
    <3> QED
      BY <2>0, <3>6, <3>7 DEF Accounts
  <2>6. CASE Repaid(h)
    <3>1. \A g \in Handlers : g = h
      BY DEF OneAtATime
    <3>2. /\ UNCHANGED <<structure, advance, payslip, pricings, withheld>>
          /\ handler[h].pc = "repay" /\ handler[h].todo = {} /\ handler'[h].pc = "idle"
      BY <1>1, <2>6 DEF Repaid, Goes, Resting, Is, LoansTypeOK
    <3>3. Lent' = Lent
      BY <3>2 DEF Lent
    <3>4. Unlent' /\ Unpriced' /\ Listed'
      BY <1>1, <3>1, <3>2, <3>3 DEF Accounts, Unlent, Unpriced, Listed, Is
    <3>5. Balanced'
      BY <1>1, <3>1, <3>2, <3>3 DEF Accounts, Balanced, Owing, Is, Rest
    <3> QED
      BY <2>0, <3>4, <3>5 DEF Accounts
  <2> QED
    BY <1>5, <2>1, <2>2, <2>3, <2>4, <2>5, <2>6 DEF Handles
<1> QED
  BY <1>3, <1>4, <1>5 DEF LoansNext

LEMMA BalanceInit == LoansInit => BalanceInv
<1> SUFFICES ASSUME LoansInit PROVE BalanceInv
  OBVIOUS
<1>1. \A h \in Handlers : handler[h].pc = "idle"
  BY DEF LoansInit, Resting
<1>2. Lent = {}
  BY DEF LoansInit, Lent
<1> QED
  BY <1>1, <1>2, LoansTypeInit DEF LoansInit, BalanceInv, Decided, Accounts, Unlent, Unpriced,
     Balanced, Listed, Is

\* With one loan, one request or task at a time and every payslip computed once, the
\* balance of a loan is what was lent less what the payslips withheld, and never below
\* zero, whenever nothing is in progress: an instalment that is larger than what is left,
\* a payslip priced before its loan or after its end change nothing of that.
THEOREM BalanceInStepCorrect ==
    OneAtATime /\ OneLoan /\ Once /\ LoansSpec => []BalanceInStep
<1>1. BalanceInv => BalanceInStep
  BY DEF BalanceInv, Accounts, Balanced, BalanceInStep, AtRest, Lent, Owing, Rest, Is
<1>2. CASE OneAtATime /\ OneLoan /\ Once
  BY <1>1, <1>2, BalanceInit, BalanceStep, PTL DEF LoansSpec
<1> QED
  BY <1>2
=============================================================================
