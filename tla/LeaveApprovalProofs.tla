------------------------ MODULE LeaveApprovalProofs ------------------------
(***************************************************************************)
(* Theorems about LeaveApproval: for every set of requests, every chain,   *)
(* and any changes of manager or supervisors.                              *)
(***************************************************************************)
EXTENDS LeaveApproval, FiniteSetTheorems, WellFoundedInduction, TLAPS

\* A handler works on a request; a decision that finishes lands past its step.
Fits(t) == /\ t.pc # "idle" => t.req \in Requests
           /\ t.pc = "charge" => t.to > t.step
Working == \A s \in Sessions : Fits(th[s])
IndType == TypeOK /\ Working

\* A record a session is given keeps the records typed and fitting.
LEMMA Handed ==
    ASSUME IndType, NEW s \in Sessions, NEW t \in Thread, Fits(t), th' = [th EXCEPT ![s] = t]
    PROVE  th' \in [Sessions -> Thread] /\ Working'
<1>1. th \in [Sessions -> Thread] /\ Working
  BY DEF IndType, TypeOK
<1>2. \A u \in Sessions : th'[u] = t \/ th'[u] = th[u]
  BY <1>1
<1> QED
  BY <1>1, <1>2 DEF Working, Fits

LEMMA IdleFits == Idle \in Thread /\ Fits(Idle)
BY DEF Idle, Thread, PCs, Roles, Fits

\* What each action leaves, in types.
LEMMA IndTypeStep == ASSUME IndType, [Next]_vars PROVE IndType'
<1>0. /\ TypeOK /\ Working
      /\ th \in [Sessions -> Thread] /\ balance \in [Years -> Balance]
      /\ status \in [Requests -> Status] /\ current_step \in [Requests -> Nat]
      /\ log \subseteq Action /\ YearOf \in [Requests -> Years] /\ Days \in [Requests -> Nat]
  BY DataAssumption DEF IndType, TypeOK
<1>1. \A n \in Reach : n \in Nat
  BY DEF Reach
<1>2. \A r \in Requests, a, b \in Nat : SkipRows(r, a .. b) \subseteq Action
  BY DEF SkipRows, Action
<1>3. ASSUME NEW s \in Sessions, Handle(s) PROVE IndType'
  <2>1. ASSUME Done(s) PROVE th' \in [Sessions -> Thread] /\ Working'
    BY <2>1, IdleFits, Handed DEF Done
  <2>2. ASSUME th[s].pc # "idle"
        PROVE  /\ th[s].req \in Requests
               /\ \A d \in {"approved", "rejected"} : Row(s, d) \in Action
    <3>1. th[s].req \in Requests /\ th[s].step \in Nat /\ th[s].by \in Roles \cup {"nobody"}
      BY <1>0, <2>2 DEF Working, Fits, Thread
    <3> QED
      BY <3>1 DEF Row, Action
  <2>3. ASSUME NEW r \in Requests, Submit(s, r) PROVE IndType'
    <3>1. PICK n \in Reach : current_step' = [current_step EXCEPT ![r] = n]
                             /\ log' = log \cup SkipRows(r, 1 .. n - 1)
      BY <2>3 DEF Submit
    <3>2. n \in Nat /\ n >= 1
      BY DEF Reach
    <3>3. SkipRows(r, 1 .. n - 1) \subseteq Action
      BY <1>2, <3>2
    <3>4. balance' \in [Years -> Balance]
      BY <1>0, <2>3 DEF Submit, OpenBalance, Balance
    <3>5. status' \in [Requests -> Status]
      BY <1>0, <2>3 DEF Submit, Status
    <3> QED
      BY <1>0, <2>3, <3>1, <3>2, <3>3, <3>4, <3>5 DEF Submit, IndType, TypeOK, Working, envVars
  <2>4. ASSUME NEW r \in Requests, SubmitFinishes(s, r) PROVE IndType'
    <3>1. PICK n \in Reach : /\ Lands(0, n, staff.manager)
                             /\ th' = [th EXCEPT ![s] = [Idle EXCEPT !.pc = "charge",
                                   !.req = r, !.to = n, !.used = balance[YearOf[r]].used]]
      BY <2>4 DEF SubmitFinishes
    <3> DEFINE t == [Idle EXCEPT !.pc = "charge", !.req = r, !.to = n,
                                 !.used = balance[YearOf[r]].used]
    <3>2. n \in Nat /\ n > 0 /\ balance[YearOf[r]].used \in Nat
      BY <1>0, <1>1, <3>1 DEF Lands, Balance
    <3>3. t \in Thread /\ Fits(t)
      BY <3>2, IdleFits DEF Idle, Thread, PCs, Fits
    <3>4. th' \in [Sessions -> Thread] /\ Working'
      BY <3>1, <3>3, Handed
    <3> QED
      BY <1>0, <2>4, <3>4 DEF SubmitFinishes, IndType, TypeOK, requestVars, envVars
  <2>5. ASSUME NEW r \in Requests, NEW pc \in {"approve", "reject"}, DecideCheck(s, r, pc)
        PROVE  IndType'
    <3> DEFINE t == [Idle EXCEPT !.pc = pc, !.req = r, !.step = current_step[r],
                                 !.by = EffectiveChain[current_step[r]], !.manager = staff.manager]
    <3>1. EffectiveChain[current_step[r]] \in Roles /\ current_step[r] \in Nat
          /\ staff.manager \in BOOLEAN
      BY <1>0, <2>5 DEF DecideCheck, SomebodyActs, Roles, TypeOK
    <3>2. t \in Thread
      BY <3>1, IdleFits DEF Idle, Thread, PCs
    <3>3. Fits(t)
      BY DEF Idle, Fits
    <3>4. th' \in [Sessions -> Thread] /\ Working'
      BY <2>5, <3>2, <3>3, Handed DEF DecideCheck
    <3> QED
      BY <1>0, <2>5, <3>4 DEF DecideCheck, IndType, TypeOK, requestVars, envVars
  <2>6. ASSUME NEW r \in Requests, CancelCheck(s, r) PROVE IndType'
    <3> DEFINE t == [Idle EXCEPT !.pc = "cancel", !.req = r]
    <3>1. t \in Thread /\ Fits(t)
      BY IdleFits DEF Idle, Thread, PCs, Fits
    <3>2. th' \in [Sessions -> Thread] /\ Working'
      BY <2>6, <3>1, Handed DEF CancelCheck
    <3> QED
      BY <1>0, <2>6, <3>2 DEF CancelCheck, IndType, TypeOK, requestVars, envVars
  <2>7. CASE Reject(s)
    <3>1. status' \in [Requests -> Status] /\ log' \subseteq Action
      BY <1>0, <2>2, <2>7 DEF Reject, At, Status
    <3> QED
      BY <1>0, <2>1, <2>7, <3>1 DEF Reject, IndType, TypeOK, envVars
  <2>8. CASE Advance(s)
    <3>1. PICK n \in Reach :
             /\ log' = log \cup {Row(s, "approved")} \cup SkipRows(th[s].req, th[s].step + 1 .. n - 1)
             /\ Lands(th[s].step, n, th[s].manager)
             /\ current_step' = [current_step EXCEPT ![th[s].req] = n]
      BY <2>8 DEF Advance
    <3>2. n \in Nat /\ th[s].step \in Nat /\ n > th[s].step
      BY <1>0, <1>1, <3>1 DEF Lands, Thread
    <3>3. th[s].req \in Requests /\ Row(s, "approved") \in Action
      BY <2>2, <2>8 DEF Advance, At
    <3>4. SkipRows(th[s].req, th[s].step + 1 .. n - 1) \subseteq Action
      BY <1>2, <3>2, <3>3
    <3> QED
      BY <1>0, <2>1, <2>8, <3>1, <3>2, <3>3, <3>4 DEF Advance, IndType, TypeOK, envVars
  <2>9. CASE Finish(s)
    <3>1. PICK n \in Reach \cup {th[s].step + 1} :
             /\ Lands(th[s].step, n, th[s].manager)
             /\ th' = [th EXCEPT ![s] = [th[s] EXCEPT !.pc = "charge", !.to = n,
                                             !.used = balance[YearOf[th[s].req]].used]]
      BY <1>0, <2>9 DEF Finish
    <3> DEFINE t == [th[s] EXCEPT !.pc = "charge", !.to = n,
                                  !.used = balance[YearOf[th[s].req]].used]
    <3>2. th[s] \in Thread /\ th[s].req \in Requests
      BY <1>0, <2>2, <2>9 DEF Finish, At
    <3>3. n \in Nat /\ n > th[s].step /\ balance[YearOf[th[s].req]].used \in Nat
      BY <1>0, <1>1, <3>1, <3>2 DEF Lands, Balance, Thread
    <3>4. t \in Thread /\ Fits(t)
      BY <3>2, <3>3 DEF Thread, PCs, Fits
    <3>5. th' \in [Sessions -> Thread] /\ Working'
      BY <3>1, <3>4, Handed
    <3> QED
      BY <1>0, <2>9, <3>5 DEF Finish, IndType, TypeOK, requestVars, envVars
  <2>10. CASE Charge(s)
    <3>1. /\ th[s].req \in Requests /\ Row(s, "approved") \in Action
          /\ th[s].step \in Nat /\ th[s].to \in Nat /\ th[s].used \in Nat
          /\ th[s].to > th[s].step
      BY <1>0, <2>2, <2>10 DEF Charge, At, Working, Fits, Thread
    <3>2. SkipRows(th[s].req, th[s].step + 1 .. th[s].to - 1) \subseteq Action
      BY <1>2, <3>1
    <3>3. status' \in [Requests -> Status] /\ current_step' \in [Requests -> Nat]
          /\ log' \subseteq Action
      BY <1>0, <2>10, <3>1, <3>2 DEF Charge, Status
    <3>4. Charged(s) \in Nat
      BY <1>0, <3>1 DEF Charged
    <3>5. balance' \in [Years -> Balance]
      BY <1>0, <2>10, <3>1, <3>4 DEF Charge, Balance
    <3> QED
      BY <1>0, <2>1, <2>10, <3>3, <3>5 DEF Charge, IndType, TypeOK, envVars
  <2>11. CASE CancelSave(s)
    BY <1>0, <2>1, <2>11 DEF CancelSave, IndType, TypeOK, Status, envVars
  <2> QED
    BY <1>3, <2>3, <2>4, <2>5, <2>6, <2>7, <2>8, <2>9, <2>10, <2>11 DEF Handle
<1>4. ASSUME NEW s \in Sessions, Crash(s) PROVE IndType'
  <2>1. th' \in [Sessions -> Thread] /\ Working'
    BY <1>4, IdleFits, Handed DEF Crash, Done
  <2> QED
    BY <1>0, <1>4, <2>1 DEF Crash, IndType, TypeOK, requestVars
<1>5. CASE AccrueRead
  <2>1. CarriedForward \in Nat /\ balance["new"].used \in Nat
    BY <1>0, BoundsAssumption DEF CarriedForward, Balance, Years
  <2>2. balance' \in [Years -> Balance]
    BY <1>0, <1>5 DEF AccrueRead, OpenBalance, Balance
  <2> QED
    BY <1>0, <1>5, <2>1, <2>2 DEF AccrueRead, IndType, TypeOK, Working, requestVars, envVars
<1>6. CASE AccrueSave
  <2>1. accrual.carried \in Nat /\ Unread \in [on : BOOLEAN, carried : Nat, used : Nat]
    BY <1>0 DEF TypeOK, Unread
  <2>2. balance' \in [Years -> Balance]
    BY <1>0, <1>6, <2>1 DEF AccrueSave, Accrued, Balance
  <2> QED
    BY <1>0, <1>6, <2>1, <2>2 DEF AccrueSave, IndType, TypeOK, Working, requestVars, envVars
<1>7. CASE ChangeStaff
  BY <1>0, <1>7 DEF ChangeStaff, IndType, TypeOK, Working, requestVars
<1>8. CASE UNCHANGED vars
  BY <1>0, <1>8 DEF vars, requestVars, envVars, IndType, TypeOK, Working
<1> QED
  BY <1>3, <1>4, <1>5, <1>6, <1>7, <1>8 DEF Next

LEMMA IndTypeInit == ASSUME Init PROVE IndType
<1>1. th \in [Sessions -> Thread] /\ Working
  BY IdleFits DEF Init, Working
<1> QED
  BY <1>1, BoundsAssumption
  DEF Init, IndType, TypeOK, Status, Balance, Unread, Years

\* Every variable keeps its type, for any chain and any number of users.
THEOREM TypeCorrect == Spec => []TypeOK
<1>1. Init => IndType
  BY IndTypeInit
<1>2. IndType /\ [Next]_vars => IndType'
  BY IndTypeStep
<1>3. IndType => TypeOK
  BY DEF IndType
<1> QED
  BY <1>1, <1>2, <1>3, PTL DEF Spec

-----------------------------------------------------------------------------

\* A step a handler has read is signed up to there, and stays so: rows are only added.
SignedBefore(rows, r, n) ==
    \A j \in 1 .. n - 1 : \E a \in rows : a.req = r /\ a.step = j /\ a.decision = "approved"
IndSigned ==
    /\ \A r \in Requests : SignedBefore(log, r, current_step[r])
    /\ \A s \in Sessions : th[s].pc \in {"approve", "reject", "charge"} =>
                              SignedBefore(log, th[s].req, th[s].step)

LEMMA LogGrows ==
    ASSUME [Next]_vars
    PROVE  /\ log \subseteq log'
           /\ \A r, n : SignedBefore(log, r, n) => SignedBefore(log', r, n)
<1>1. log \subseteq log'
  BY DEF Next, Handle, Submit, SubmitFinishes, DecideCheck, CancelCheck, Reject, Advance, Finish,
         Charge, CancelSave, Crash, AccrueRead, AccrueSave, ChangeStaff, vars, requestVars
<1> QED
  BY <1>1 DEF SignedBefore

\* The rows decide adds carry the signatures on from the step it has read.
LEMMA SignedOn ==
    ASSUME [Next]_vars, NEW r \in Requests, NEW k \in Nat, NEW n \in Nat, SignedBefore(log, r, k),
           k = 0 \/ \E a \in log' : a.req = r /\ a.step = k /\ a.decision = "approved",
           SkipRows(r, k + 1 .. n - 1) \subseteq log'
    PROVE  SignedBefore(log', r, n)
<1> SUFFICES ASSUME NEW j \in 1 .. n - 1
             PROVE  \E a \in log' : a.req = r /\ a.step = j /\ a.decision = "approved"
  BY DEF SignedBefore
<1>1. CASE j < k
  <2>1. j \in 1 .. k - 1
    BY <1>1
  <2> QED
    BY <2>1, LogGrows DEF SignedBefore
<1>2. CASE j = k
  BY <1>2
<1>3. CASE j > k
  <2> DEFINE a == [req |-> r, step |-> j, decision |-> "approved", by |-> "nobody"]
  <2>1. j \in k + 1 .. n - 1
    BY <1>3
  <2>2. a \in SkipRows(r, k + 1 .. n - 1)
    BY <2>1 DEF SkipRows
  <2> QED
    BY <2>2
<1> QED
  BY <1>1, <1>2, <1>3

LEMMA IndSignedStep == ASSUME IndType, IndSigned, [Next]_vars PROVE IndSigned'
<1>0. /\ th \in [Sessions -> Thread] /\ current_step \in [Requests -> Nat] /\ Working
      /\ \A n \in Reach : n \in Nat
  BY DEF IndType, TypeOK, Reach
<1>1. \A r \in Requests : SignedBefore(log', r, current_step'[r])
      \/ (current_step'[r] = current_step[r])
  <2>1. ASSUME NEW s \in Sessions, NEW r \in Requests, Submit(s, r)
        PROVE  SignedBefore(log', r, current_step'[r])
               /\ \A q \in Requests \ {r} : current_step'[q] = current_step[q]
    <3>1. PICK n \in Reach : current_step' = [current_step EXCEPT ![r] = n]
                             /\ log' = log \cup SkipRows(r, 1 .. n - 1)
      BY <2>1 DEF Submit
    <3>2. SignedBefore(log, r, 0)
      BY DEF SignedBefore
    <3>3. n \in Nat /\ SkipRows(r, 0 + 1 .. n - 1) \subseteq log'
      BY <1>0, <3>1
    <3>4. SignedBefore(log', r, n)
      BY <3>2, <3>3, SignedOn
    <3> QED
      BY <1>0, <3>1, <3>4
  <2>2. ASSUME NEW s \in Sessions, Advance(s)
        PROVE  SignedBefore(log', th[s].req, current_step'[th[s].req])
               /\ \A q \in Requests \ {th[s].req} : current_step'[q] = current_step[q]
    <3> DEFINE r == th[s].req
               k == th[s].step
    <3>1. PICK n \in Reach : current_step' = [current_step EXCEPT ![r] = n]
             /\ log' = log \cup {Row(s, "approved")} \cup SkipRows(r, k + 1 .. n - 1)
      BY <2>2 DEF Advance
    <3>2. r \in Requests /\ k \in Nat /\ n \in Nat /\ SignedBefore(log, r, k)
      BY <1>0, <2>2 DEF Advance, At, Working, Fits, IndSigned, Thread
    <3>3. Row(s, "approved") \in log' /\ Row(s, "approved").req = r
          /\ Row(s, "approved").step = k /\ Row(s, "approved").decision = "approved"
      BY <3>1 DEF Row
    <3>4. SignedBefore(log', r, n)
      BY <3>1, <3>2, <3>3, SignedOn
    <3> QED
      BY <1>0, <3>1, <3>2, <3>4
  <2>3. ASSUME NEW s \in Sessions, Charge(s)
        PROVE  \/ current_step' = current_step
               \/ /\ SignedBefore(log', th[s].req, current_step'[th[s].req])
                  /\ \A q \in Requests \ {th[s].req} : current_step'[q] = current_step[q]
    <3> DEFINE r == th[s].req
               k == th[s].step
               n == th[s].to
    <3>1. r \in Requests /\ k \in Nat /\ n \in Nat /\ n > k /\ SignedBefore(log, r, k)
      BY <1>0, <2>3 DEF Charge, At, Working, Fits, IndSigned, Thread
    <3>2. /\ SkipRows(r, k + 1 .. n - 1) \subseteq log'
          /\ k = 0 \/ Row(s, "approved") \in log'
      BY <2>3 DEF Charge
    <3>3. Row(s, "approved").req = r /\ Row(s, "approved").step = k
          /\ Row(s, "approved").decision = "approved"
      BY DEF Row
    <3>4. SignedBefore(log', r, n)
      BY <3>1, <3>2, <3>3, SignedOn
    <3>5. SignedBefore(log', r, n - 1)
      BY <3>1, <3>4 DEF SignedBefore
    <3> QED
      BY <1>0, <2>3, <3>1, <3>5 DEF Charge
  <2>4. CASE UNCHANGED current_step
    BY <2>4
  <2>5. CASE \E s \in Sessions : Advance(s) \/ Charge(s) \/ \E r \in Requests : Submit(s, r)
    BY <1>0, <2>1, <2>2, <2>3, <2>5 DEF Advance, Charge
  <2> QED
    BY <2>4, <2>5 DEF Next, Handle, SubmitFinishes, DecideCheck, CancelCheck, Reject, Finish,
       CancelSave, Crash, AccrueRead, AccrueSave, ChangeStaff, vars, requestVars
<1>2. \A r \in Requests : SignedBefore(log', r, current_step'[r])
  BY <1>1, LogGrows DEF IndSigned
<1>3. ASSUME NEW s \in Sessions, th'[s].pc \in {"approve", "reject", "charge"}
      PROVE  \/ th'[s].step = 0
             \/ /\ th'[s].req = th[s].req /\ th'[s].step = th[s].step
                /\ th[s].pc \in {"approve", "reject", "charge"}
             \/ th'[s].req \in Requests /\ th'[s].step = current_step[th'[s].req]
  <2>2. ASSUME Done(s) PROVE FALSE
    BY <1>0, <1>3, <2>2 DEF Done, Idle
  <2>3. ASSUME NEW r \in Requests, SubmitFinishes(s, r) PROVE th'[s].step = 0
    BY <1>0, <2>3 DEF SubmitFinishes, Idle
  <2>4. ASSUME NEW r \in Requests, NEW pc \in {"approve", "reject"}, DecideCheck(s, r, pc)
        PROVE  th'[s].req = r /\ th'[s].step = current_step[r]
    BY <1>0, <2>4 DEF DecideCheck, Idle
  <2>5. ASSUME NEW r \in Requests, CancelCheck(s, r) PROVE FALSE
    BY <1>0, <1>3, <2>5 DEF CancelCheck, Idle
  <2>6. ASSUME Finish(s)
        PROVE  th'[s].req = th[s].req /\ th'[s].step = th[s].step /\ th[s].pc = "approve"
    BY <1>0, <2>6 DEF Finish, At, Thread
  <2>7. ASSUME NEW u \in Sessions, Handle(u) \/ Crash(u), u # s PROVE th'[s] = th[s]
    BY <1>0, <2>7 DEF Handle, Submit, SubmitFinishes, DecideCheck, CancelCheck, Reject, Advance,
       Finish, Charge, CancelSave, Crash, Done
  <2>8. CASE th'[s] = th[s]
    BY <1>3, <2>8
  <2>9. CASE Handle(s) \/ Crash(s)
    BY <2>2, <2>3, <2>4, <2>5, <2>6, <2>8, <2>9
    DEF Handle, Submit, Reject, Advance, Charge, CancelSave, Crash
  <2> QED
    BY <2>7, <2>8, <2>9 DEF Next, AccrueRead, AccrueSave, ChangeStaff, vars
<1>4. \A r : SignedBefore(log', r, 0)
  BY DEF SignedBefore
<1>5. \A s \in Sessions : th'[s].pc \in {"approve", "reject", "charge"} =>
                             SignedBefore(log', th'[s].req, th'[s].step)
  BY <1>3, <1>4, LogGrows DEF IndSigned
<1> QED
  BY <1>2, <1>5 DEF IndSigned

\* Every step before the one a request is on was approved or skipped on the record,
\* however many people decide at once and however the chain resolves meanwhile.
THEOREM StepsSignedCorrect == Spec => []StepsSigned
<1>1. Init => IndType /\ IndSigned
  BY IndTypeInit DEF Init, IndSigned, SignedBefore, Idle
<1>2. IndType /\ IndSigned /\ [Next]_vars => IndType' /\ IndSigned'
  BY IndTypeStep, IndSignedStep
<1>3. IndSigned => StepsSigned
  BY DEF IndSigned, StepsSigned, SignedBefore
<1> QED
  BY <1>1, <1>2, <1>3, PTL DEF Spec

-----------------------------------------------------------------------------

\* With one user at a time what a handler has read is still so when it writes.
OneUser == \A s, t \in Sessions : s = t
Current ==
    \A s \in Sessions :
        LET r == th[s].req IN
        /\ th[s].pc \in {"approve", "reject", "cancel"} => status[r] = "pending"
        /\ th[s].pc = "charge" => /\ status[r] \in {"none", "pending"}
                                  /\ th[s].used = balance[YearOf[r]].used

Used == [y \in Years |-> balance[y].used]

\* Each action is a step of the book or leaves it as it is.
LEMMA BookStep ==
    ASSUME IndType, Current, [Next]_vars
    PROVE  [Book!Next]_(Book!vars)
<1>0. /\ balance \in [Years -> Balance] /\ status \in [Requests -> Status] /\ Working
      /\ YearOf \in [Requests -> Years]
  BY DataAssumption DEF IndType, TypeOK
<1>1. ASSUME \A y \in Years : balance'[y].used = balance[y].used PROVE Used' = Used
  BY <1>1 DEF Used
<1>2. ASSUME status' = status, Used' = Used PROVE [Book!Next]_(Book!vars)
  BY <1>2 DEF Book!vars, Used
<1>3. ASSUME NEW s \in Sessions, Handle(s) PROVE [Book!Next]_(Book!vars)
  <2>1. ASSUME NEW r \in Requests, Submit(s, r) PROVE [Book!Next]_(Book!vars)
    <3>1. Used' = Used
      BY <1>0, <1>1, <2>1 DEF Submit, OpenBalance, Balance
    <3>2. Book!Submit(r)
      BY <1>0, <2>1, <3>1 DEF Submit, Book!Submit, Book!Become, Used
    <3> QED
      BY <3>2 DEF Book!Next
  <2>2. CASE Reject(s) \/ CancelSave(s)
    <3>1. th[s].req \in Requests /\ status[th[s].req] = "pending" /\ Used' = Used
      BY <1>0, <2>2 DEF Reject, CancelSave, At, Working, Fits, Current, Used
    <3>2. Book!Refuse(th[s].req)
      BY <1>0, <2>2, <3>1 DEF Reject, CancelSave, Book!Refuse, Book!Become, Used
    <3> QED
      BY <3>1, <3>2 DEF Book!Next
  <2>3. CASE Charge(s)
    <3>0. PICK r \in {th[s].req} : TRUE
      OBVIOUS
    <3>1. r \in Requests /\ status[r] \in {"none", "pending"}
          /\ th[s].used = balance[YearOf[r]].used
      BY <1>0, <2>3, <3>0 DEF Charge, At, Working, Fits, Current
    <3>2. balance' = [balance EXCEPT ![YearOf[r]] =
                        [balance[YearOf[r]] EXCEPT !.open = TRUE,
                                  !.used = balance[YearOf[r]].used + Days[r]]]
      BY <1>0, <2>3, <3>0, <3>1 DEF Charge, Charged
    <3>3. /\ balance'[YearOf[r]].used = balance[YearOf[r]].used + Days[r]
          /\ \A y \in Years \ {YearOf[r]} : balance'[y] = balance[y]
      BY <1>0, <3>1, <3>2 DEF Balance
    <3>4. Used' = [Used EXCEPT ![YearOf[r]] = @ + Days[r]]
      BY <1>0, <3>1, <3>3 DEF Used
    <3>5. Book!Approve(r)
      BY <1>0, <2>3, <3>0, <3>1, <3>4 DEF Charge, Book!Approve, Book!Become, Book!Charge, Used
    <3> QED
      BY <3>1, <3>5 DEF Book!Next
  <2>4. CASE UNCHANGED <<status, balance>>
    BY <1>2, <2>4 DEF Used
  <2> QED
    BY <1>3, <2>1, <2>2, <2>3, <2>4
    DEF Handle, SubmitFinishes, DecideCheck, CancelCheck, Advance, Finish, requestVars
<1>4. CASE AccrueRead \/ AccrueSave
  <2>1. Used' = Used
    BY <1>0, <1>1, <1>4 DEF AccrueRead, AccrueSave, OpenBalance, Accrued, Balance
  <2> QED
    BY <1>2, <1>4, <2>1 DEF AccrueRead, AccrueSave, requestVars
<1>5. CASE UNCHANGED <<status, balance>>
  BY <1>2, <1>5 DEF Used
<1> QED
  BY <1>3, <1>4, <1>5 DEF Next, Crash, ChangeStaff, vars, requestVars

LEMMA CurrentStep ==
    ASSUME OneUser, IndType, Current, [Next]_vars
    PROVE  Current'
<1>0. /\ th \in [Sessions -> Thread] /\ balance \in [Years -> Balance]
      /\ status \in [Requests -> Status] /\ Working /\ YearOf \in [Requests -> Years]
  BY DataAssumption DEF IndType, TypeOK
<1>1. ASSUME NEW s \in Sessions, Handle(s) PROVE Current'
  <2>0. SUFFICES /\ th'[s].pc \in {"approve", "reject", "cancel"} =>
                       status'[th'[s].req] = "pending"
                 /\ th'[s].pc = "charge" =>
                       /\ status'[th'[s].req] \in {"none", "pending"}
                       /\ th'[s].used = balance'[YearOf[th'[s].req]].used
    BY DEF OneUser, Current
  <2>1. ASSUME Done(s) PROVE th'[s].pc = "idle"
    BY <1>0, <2>1 DEF Done, Idle
  <2>2. CASE Reject(s) \/ Advance(s) \/ Charge(s) \/ CancelSave(s)
    BY <2>1, <2>2 DEF Reject, Advance, Charge, CancelSave
  <2>3. ASSUME NEW r \in Requests, Submit(s, r) PROVE th'[s].pc = "idle"
    BY <2>3 DEF Submit, envVars, At
  <2>4. ASSUME NEW r \in Requests, SubmitFinishes(s, r)
        PROVE  /\ th'[s].pc = "charge" /\ status'[th'[s].req] = "none"
               /\ th'[s].used = balance'[YearOf[th'[s].req]].used
    BY <1>0, <2>4 DEF SubmitFinishes, requestVars, Idle
  <2>5. ASSUME NEW r \in Requests,
               CancelCheck(s, r) \/ DecideCheck(s, r, "approve") \/ DecideCheck(s, r, "reject")
        PROVE  th'[s].pc \in {"approve", "reject", "cancel"} /\ status'[th'[s].req] = "pending"
    BY <1>0, <2>5 DEF CancelCheck, DecideCheck, Decidable, requestVars, Idle
  <2>6. CASE Finish(s)
    <3>1. /\ th'[s].pc = "charge" /\ th'[s].req = th[s].req
          /\ th'[s].used = balance[YearOf[th[s].req]].used
      BY <1>0, <2>6 DEF Finish, Thread
    <3>2. status[th[s].req] = "pending" /\ status' = status /\ balance' = balance
      BY <2>6 DEF Finish, At, Current, requestVars
    <3> QED
      BY <3>1, <3>2
  <2> QED
    BY <1>1, <2>2, <2>3, <2>4, <2>5, <2>6 DEF Handle
<1>2. ASSUME NEW s \in Sessions, Crash(s) PROVE Current'
  <2>1. th'[s].pc = "idle"
    BY <1>0, <1>2 DEF Crash, Done, Idle
  <2> QED
    BY <2>1 DEF OneUser, Current
<1>3. ASSUME UNCHANGED <<th, status>>, \A y \in Years : balance'[y].used = balance[y].used
      PROVE  Current'
  BY <1>0, <1>3 DEF Current, Working, Fits
<1>4. CASE AccrueRead \/ AccrueSave
  BY <1>0, <1>3, <1>4
  DEF AccrueRead, AccrueSave, OpenBalance, Accrued, Balance, requestVars, envVars
<1>5. CASE UNCHANGED <<th, status, balance>>
  BY <1>3, <1>5
<1> QED
  BY <1>1, <1>2, <1>4, <1>5 DEF Next, ChangeStaff, vars, requestVars

\* One user at a time keeps the promise of LeaveBook, whatever chain is configured,
\* whoever comes and goes and whenever the accrual runs.
THEOREM ImplementsCorrect == ASSUME OneUser PROVE Spec => Implements
<1>1. Init => IndType /\ Current /\ Book!Init
  <2> SUFFICES ASSUME Init PROVE IndType /\ Current /\ Book!Init
    OBVIOUS
  <2>1. Current
    BY DEF Init, Current, Idle
  <2>2. Book!Init
    BY DEF Init, Book!Init, Book!Years, Years
  <2> QED
    BY <2>1, <2>2, IndTypeInit
<1>2. IndType /\ Current /\ [Next]_vars => IndType' /\ Current' /\ [Book!Next]_(Book!vars)
  BY OneUser, IndTypeStep, CurrentStep, BookStep
<1> QED
  BY <1>1, <1>2, PTL DEF Spec, Implements, Book!Spec
-----------------------------------------------------------------------------
(* The steps of the effective chain *)

\* What replaces an induction: some number of a set of numbers is its least.
LEMMA Least ==
    ASSUME NEW T \in SUBSET Nat, T # {}
    PROVE  \E n \in T : \A m \in T : n <= m
<1> DEFINE R == {p \in Nat \X Nat : p[1] < p[2]}
<1>1. OpToRel(<, Nat) = R
  BY DEF OpToRel
<1>2. IsWellFoundedOn(R, Nat)
  BY <1>1, NatLessThanWellFounded
<1>3. \A m, n \in T : m < n => <<m, n>> \in R
  OBVIOUS
<1> HIDE DEF R
<1>4. PICK n \in T : \A m \in T : ~(<<m, n>> \in R)
  BY <1>2, WFMin
<1>5. \A m \in T : ~(m < n)
  BY <1>3, <1>4
<1> QED
  BY <1>5

\* The members of a set of positions, numbered in order.
Numbered(K, i) == Cardinality({j \in K : j <= i})

LEMMA Numbers ==
    ASSUME NEW N \in Nat, NEW K \in SUBSET (1 .. N)
    PROVE  /\ Cardinality(K) \in Nat
           /\ \A i \in K : Numbered(K, i) \in 1 .. Cardinality(K)
           /\ \A i, j \in K : i < j => Numbered(K, i) < Numbered(K, j)
           /\ \A n \in 1 .. Cardinality(K) : \E i \in K : Numbered(K, i) = n
           /\ K = 1 .. N => \A i \in K : Numbered(K, i) = i
<1> DEFINE U(i) == {j \in K : j <= i}
           C(i) == Numbered(K, i)
<1>0. \A j \in K : j \in Nat /\ 1 <= j /\ j <= N
  OBVIOUS
<1>1. IsFiniteSet(K) /\ Cardinality(K) \in Nat
  <2>1. IsFiniteSet(1 .. N)
    BY FS_Interval
  <2>2. IsFiniteSet(K)
    BY <2>1, FS_Subset
  <2> QED
    BY <2>2, FS_CardinalityType
<1>2. ASSUME NEW i \in Nat
      PROVE  IsFiniteSet(U(i)) /\ C(i) \in Nat /\ C(i) <= Cardinality(K)
  <2>1. U(i) \in SUBSET K
    OBVIOUS
  <2> HIDE DEF U
  <2>2. IsFiniteSet(U(i)) /\ Cardinality(U(i)) <= Cardinality(K)
    BY <1>1, <2>1, FS_Subset
  <2>3. Cardinality(U(i)) \in Nat
    BY <2>2, FS_CardinalityType
  <2> QED
    BY <2>2, <2>3 DEF Numbered, U
\* The next position adds itself, when it is a member.
<1>3. ASSUME NEW i \in Nat
      PROVE  C(i + 1) = IF i + 1 \in K THEN C(i) + 1 ELSE C(i)
  <2>1. \A j \in K : j <= i + 1 <=> j <= i \/ j = i + 1
    BY <1>0
  <2>2. CASE i + 1 \in K
    <3>1. U(i + 1) = U(i) \cup {i + 1} /\ i + 1 \notin U(i)
      <4>1. \A j : j \in U(i + 1) <=> j \in U(i) \/ j = i + 1
        BY <1>0, <2>1, <2>2
      <4>2. ~(i + 1 <= i)
        OBVIOUS
      <4> QED
        BY <4>1, <4>2
    <3>2. IsFiniteSet(U(i))
      BY <1>2
    <3> HIDE DEF U
    <3>3. Cardinality(U(i + 1)) = Cardinality(U(i)) + 1
      BY <3>1, <3>2, FS_AddElement
    <3> QED
      BY <2>2, <3>3 DEF Numbered, U
  <2>3. CASE i + 1 \notin K
    <3>1. U(i + 1) = U(i)
      BY <2>1, <2>3
    <3> QED
      BY <2>3, <3>1 DEF Numbered
  <2> QED
    BY <2>2, <2>3
<1>4. ASSUME NEW i \in Nat, NEW j \in K, i < j PROVE C(i) < C(j)
  <2>1. PICK k \in Nat : j = k + 1 /\ i <= k
    <3>1. j - 1 \in Nat /\ j = (j - 1) + 1 /\ i <= j - 1
      BY <1>0, <1>4
    <3> QED
      BY <3>1
  <2>2. U(i) \in SUBSET U(k) /\ IsFiniteSet(U(k))
    <3>1. \A l \in K : l <= i => l <= k
      BY <1>0, <2>1
    <3>2. IsFiniteSet(U(k))
      BY <1>2
    <3>3. U(i) \in SUBSET U(k)
      BY <3>1
    <3> QED
      BY <3>2, <3>3
  <2> HIDE DEF U
  <2>3. Cardinality(U(i)) <= Cardinality(U(k))
    BY <2>2, FS_Subset
  <2>4. C(i) <= C(k)
    BY <2>3 DEF Numbered, U
  <2>5. C(j) = C(k) + 1
    BY <1>3, <1>4, <2>1
  <2>6. C(i) \in Nat /\ C(k) \in Nat
    BY <1>2, <1>4
  <2> HIDE DEF C
  <2> QED
    BY <2>4, <2>5, <2>6
<1>5. C(0) = 0 /\ C(N) = Cardinality(K)
  <2>1. U(0) = {} /\ U(N) = K
    <3>1. \A j \in K : ~(j <= 0) /\ j <= N
      BY <1>0
    <3> QED
      BY <3>1
  <2> QED
    BY <2>1, FS_EmptySet DEF Numbered
<1> HIDE DEF C, U
<1>6. ASSUME NEW i \in K PROVE C(i) \in 1 .. Cardinality(K)
  <2>1. 0 < C(i)
    BY <1>0, <1>4, <1>5
  <2> QED
    BY <1>0, <1>1, <1>2, <2>1
<1>7. ASSUME NEW n \in 1 .. Cardinality(K) PROVE \E i \in K : C(i) = n
  <2> DEFINE T == {i \in Nat : C(i) >= n}
  <2>1. N \in T /\ 0 \notin T
    BY <1>1, <1>5
  <2>2. PICK m \in T : \A k \in T : m <= k
    <3> HIDE DEF T
    <3>1. T \in SUBSET Nat
      BY DEF T
    <3> QED
      BY <2>1, <3>1, Least
  <2>3. PICK k \in Nat : m = k + 1
    <3>1. m - 1 \in Nat /\ m = (m - 1) + 1
      BY <2>1, <2>2
    <3> QED
      BY <3>1
  <2>4. C(k) < n /\ C(k) \in Nat /\ C(m) >= n /\ C(m) \in Nat
    BY <1>2, <2>2, <2>3
  <2>5. C(m) = IF m \in K THEN C(k) + 1 ELSE C(k)
    BY <1>3, <2>3
  <2> QED
    BY <2>4, <2>5
<1>8. ASSUME K = 1 .. N, NEW i \in K PROVE C(i) = i
  <2>1. i \in Nat /\ i >= 1 /\ i <= N
    BY <1>0
  <2>2. U(i) = 1 .. i
    BY <1>8, <2>1 DEF U
  <2>3. Cardinality(1 .. i) = i
    BY <2>1, FS_Interval
  <2> QED
    BY <2>2, <2>3 DEF Numbered, C, U
<1> QED
  BY <1>0, <1>1, <1>4, <1>6, <1>7, <1>8 DEF C

\* The effective chain holds every step that is kept, and no other.
LEMMA Effective ==
    ASSUME IndType
    PROVE  /\ Cardinality(Kept) \in Nat /\ DOMAIN EffectiveChain = 1 .. Cardinality(Kept)
           /\ Len(EffectiveChain) = Cardinality(Kept)
           /\ \A n \in DOMAIN EffectiveChain : EffectiveChain[n] \in Roles
           /\ \A i \in DOMAIN chain : chain[i] = "hr_admin" =>
                 \E n \in DOMAIN EffectiveChain : EffectiveChain[n] = "hr_admin"
           /\ (\A i \in DOMAIN chain : chain[i] # "supervisor") =>
                 \A n : n \in DOMAIN EffectiveChain /\ EffectiveChain[n] = "hr_admin" <=>
                        n \in DOMAIN chain /\ chain[n] = "hr_admin"
<1> DEFINE N == Len(chain)
           At1(n) == CHOOSE i \in Kept : Sequence(i) = n
<1>1. chain \in Seq(Roles) /\ N \in Nat /\ DOMAIN chain = 1 .. N /\ Kept \in SUBSET (1 .. N)
  BY DataAssumption DEF IndType, TypeOK, Kept
<1>2. \A i : Sequence(i) = Numbered(Kept, i)
  BY DEF Sequence, Numbered
<1>3. /\ Cardinality(Kept) \in Nat
      /\ \A i \in Kept : Sequence(i) \in 1 .. Cardinality(Kept)
      /\ \A i, j \in Kept : i < j => Sequence(i) < Sequence(j)
      /\ \A n \in 1 .. Cardinality(Kept) : \E i \in Kept : Sequence(i) = n
      /\ Kept = 1 .. N => \A i \in Kept : Sequence(i) = i
  BY <1>1, <1>2, Numbers
<1>4. \A n \in 1 .. Cardinality(Kept) : At1(n) \in Kept /\ Sequence(At1(n)) = n
  BY <1>3
<1>5. \A i \in Kept : At1(Sequence(i)) = i
  <2> TAKE i \in Kept
  <2>1. Sequence(i) \in 1 .. Cardinality(Kept)
    BY <1>3
  <2>2. At1(Sequence(i)) \in Kept /\ Sequence(At1(Sequence(i))) = Sequence(i)
    BY <1>4, <2>1
  <2> HIDE DEF At1
  <2>3. \A j \in Kept : Sequence(j) = Sequence(i) => j = i
    BY <1>1, <1>3
  <2> QED
    BY <2>2, <2>3
<1>6. /\ DOMAIN EffectiveChain = 1 .. Cardinality(Kept)
      /\ \A n \in 1 .. Cardinality(Kept) : EffectiveChain[n] =
            IF staff.approvers /\ chain[At1(n)] = "manager" THEN "supervisor" ELSE chain[At1(n)]
  BY DEF EffectiveChain
<1> HIDE DEF At1
<1>7. Len(EffectiveChain) = Cardinality(Kept)
  BY <1>3, <1>6
<1>8. ASSUME NEW n \in DOMAIN EffectiveChain PROVE EffectiveChain[n] \in Roles
  <2>1. At1(n) \in 1 .. N
    BY <1>1, <1>4, <1>6, <1>8
  <2>2. chain[At1(n)] \in Roles
    BY <1>1, <2>1
  <2> QED
    BY <1>6, <1>8, <2>2 DEF Roles
<1>9. ASSUME NEW i \in DOMAIN chain, chain[i] = "hr_admin"
      PROVE  \E n \in DOMAIN EffectiveChain : EffectiveChain[n] = "hr_admin"
  <2>1. i \in Kept
    BY <1>9 DEF Kept
  <2> QED
    BY <1>3, <1>5, <1>6, <1>9, <2>1
<1>10. ASSUME \A i \in DOMAIN chain : chain[i] # "supervisor", NEW n
       PROVE  n \in DOMAIN EffectiveChain /\ EffectiveChain[n] = "hr_admin" <=>
              n \in DOMAIN chain /\ chain[n] = "hr_admin"
  <2>1. Kept = 1 .. N
    BY <1>1, <1>10 DEF Kept
  <2>2. Cardinality(Kept) = N
    BY <1>1, <2>1, FS_Interval
  <2>3. \A i \in 1 .. N : At1(i) = i
    BY <1>3, <1>5, <2>1
  <2> QED
    BY <1>1, <1>6, <2>2, <2>3
<1> QED
  BY <1>3, <1>6, <1>7, <1>8, <1>9, <1>10

LEMMA SameChain == ASSUME UNCHANGED <<chain, staff>> PROVE UNCHANGED EffectiveChain
BY DEF EffectiveChain, Kept, Sequence

-----------------------------------------------------------------------------
(* No request stalls *)

\* What landing on a step of the chain promises: somebody is there to act.
Waited(n) == /\ n \in DOMAIN EffectiveChain
             /\ EffectiveChain[n] \in
                   {"supervisor", "hr_admin"} \cup (IF staff.manager THEN {"manager"} ELSE {})
LEMMA Landed ==
    ASSUME IndType, NEW n \in Reach, NEW k \in Nat, Lands(k, n, staff.manager), ~Beyond(n)
    PROVE  Waited(n)
<1>1. n \in DOMAIN EffectiveChain
  BY Effective DEF Reach, Beyond
<1>2. EffectiveChain[n] \in Roles
  BY <1>1, Effective
<1>3. ~(EffectiveChain[n] = "manager" /\ ~staff.manager)
  BY <1>1 DEF Lands, AutoSkips
<1> QED
  BY <1>1, <1>2, <1>3 DEF Waited, Roles

\* Until someone's manager or supervisors change, what an approval has read of the
\* manager is so, and every pending request waits for somebody.
Unstalled ==
    changes = 0 =>
        /\ \A s \in Sessions : th[s].pc = "approve" => th[s].manager = staff.manager
        /\ EffectiveChain # <<>> =>
              \A r \in Requests : status[r] = "pending" => Waited(current_step[r])

LEMMA OthersLeave ==
    ASSUME [Next]_vars PROVE ChangeStaff \/ UNCHANGED <<chain, staff, changes>>
<1>1. ASSUME NEW s \in Sessions, Handle(s) \/ Crash(s) PROVE UNCHANGED <<chain, staff, changes>>
  <2>1. CASE Crash(s)
    BY <2>1 DEF Crash
  <2>2. CASE Handle(s)
    BY <2>2 DEF Handle, Submit, SubmitFinishes, DecideCheck, CancelCheck, Reject, Advance,
       Finish, Charge, CancelSave, envVars
  <2> QED
    BY <1>1, <2>1, <2>2
<1> QED
  BY <1>1 DEF Next, AccrueRead, AccrueSave, vars, envVars

LEMMA UnstalledStep == ASSUME IndType, Unstalled, [Next]_vars PROVE Unstalled'
<1> SUFFICES ASSUME changes' = 0
             PROVE  /\ \A s \in Sessions : th'[s].pc = "approve" => th'[s].manager = staff'.manager
                    /\ EffectiveChain' # <<>> =>
                         \A r \in Requests : status'[r] = "pending" => Waited(current_step[r])'
  BY DEF Unstalled
<1>0. /\ th \in [Sessions -> Thread] /\ current_step \in [Requests -> Nat] /\ Working
      /\ status \in [Requests -> Status] /\ changes \in Nat
      /\ \A n \in Reach : n \in Nat
  BY DEF IndType, TypeOK, Reach
<1>1. changes = 0 /\ UNCHANGED <<chain, staff>>
  BY <1>0, OthersLeave DEF ChangeStaff
<1>2. UNCHANGED EffectiveChain /\ \A n : Waited(n)' <=> Waited(n)
  BY <1>1, SameChain DEF Waited
<1>3. ASSUME NEW s \in Sessions, th'[s].pc = "approve" PROVE th'[s].manager = staff'.manager
  <2>1. ASSUME Done(s) PROVE FALSE
    BY <1>0, <1>3, <2>1 DEF Done, Idle
  <2>2. ASSUME NEW r \in Requests, SubmitFinishes(s, r) PROVE FALSE
    BY <1>0, <1>3, <2>2 DEF SubmitFinishes, Idle
  <2>3. ASSUME NEW r \in Requests, NEW pc \in {"approve", "reject"}, DecideCheck(s, r, pc)
        PROVE  th'[s].manager = staff.manager
    BY <1>0, <2>3 DEF DecideCheck, Idle
  <2>4. ASSUME NEW r \in Requests, CancelCheck(s, r) PROVE FALSE
    BY <1>0, <1>3, <2>4 DEF CancelCheck, Idle
  <2>5. ASSUME Finish(s) PROVE FALSE
    BY <1>0, <1>3, <2>5 DEF Finish, Thread
  <2>6. ASSUME NEW u \in Sessions, Handle(u) \/ Crash(u), u # s PROVE th'[s] = th[s]
    BY <1>0, <2>6 DEF Handle, Submit, SubmitFinishes, DecideCheck, CancelCheck, Reject, Advance,
       Finish, Charge, CancelSave, Crash, Done
  <2>7. CASE th'[s] = th[s]
    BY <1>1, <1>3, <2>7 DEF Unstalled
  <2>8. CASE Handle(s) \/ Crash(s)
    BY <1>1, <2>1, <2>2, <2>3, <2>4, <2>5, <2>7, <2>8
    DEF Handle, Submit, Reject, Advance, Charge, CancelSave, Crash
  <2> QED
    BY <2>6, <2>7, <2>8 DEF Next, AccrueRead, AccrueSave, ChangeStaff, vars
<1>4. ASSUME EffectiveChain' # <<>>, NEW r \in Requests, status'[r] = "pending"
      PROVE  Waited(current_step[r])'
  <2>1. EffectiveChain # <<>>
    BY <1>2, <1>4
  <2>2. SUFFICES Waited(current_step'[r])
    BY <1>2
  <2>3. CASE status'[r] = status[r] /\ current_step'[r] = current_step[r]
    BY <1>1, <1>4, <2>1, <2>3 DEF Unstalled
  <2>4. ASSUME NEW s \in Sessions, NEW q \in Requests, Submit(s, q)
        PROVE  Waited(current_step'[r])
    <3>1. PICK n \in Reach : LandsFirst(n) /\ current_step' = [current_step EXCEPT ![q] = n]
      BY <2>4 DEF Submit
    <3>2. status' = [status EXCEPT ![q] = "pending"]
      BY <2>4 DEF Submit
    <3>3. Waited(n)
      BY <2>1, <3>1, Landed DEF LandsFirst
    <3> QED
      BY <1>0, <2>3, <3>1, <3>2, <3>3
  <2>5. ASSUME NEW s \in Sessions, Advance(s) PROVE Waited(current_step'[r])
    <3>1. PICK n \in Reach : Lands(th[s].step, n, th[s].manager) /\ ~Beyond(n)
             /\ current_step' = [current_step EXCEPT ![th[s].req] = n]
      BY <2>5 DEF Advance
    <3>2. th[s].manager = staff.manager /\ th[s].step \in Nat /\ status' = status
      BY <1>0, <1>1, <2>5 DEF Advance, At, Unstalled, Thread
    <3>3. Waited(n)
      BY <3>1, <3>2, Landed
    <3> QED
      BY <1>0, <2>3, <3>1, <3>2, <3>3
  <2>6. ASSUME NEW s \in Sessions, Charge(s) PROVE Waited(current_step'[r])
    <3>1. th[s].req \in Requests /\ status' = [status EXCEPT ![th[s].req] = "approved"]
      BY <1>0, <2>6 DEF Charge, At, Working, Fits
    <3>2. r # th[s].req
      BY <1>0, <1>4, <3>1
    <3> QED
      BY <1>0, <2>3, <2>6, <3>1, <3>2 DEF Charge
  <2>7. ASSUME NEW s \in Sessions, Reject(s) \/ CancelSave(s) PROVE Waited(current_step'[r])
    BY <1>0, <1>4, <2>3, <2>7 DEF Reject, CancelSave
  <2> QED
    BY <2>3, <2>4, <2>5, <2>6, <2>7 DEF Next, Handle, SubmitFinishes, DecideCheck, CancelCheck,
       Finish, Crash, AccrueRead, AccrueSave, ChangeStaff, vars, requestVars
<1> QED
  BY <1>3, <1>4

\* A pending request always waits for somebody who can act, however many users
\* decide at once, as long as nobody's manager or supervisors change.
THEOREM NeverStallsCorrect == Spec => []NeverStalls
<1>1. Init => IndType /\ Unstalled
  BY IndTypeInit DEF Init, Unstalled, Idle
<1>2. IndType /\ Unstalled /\ [Next]_vars => IndType' /\ Unstalled'
  BY IndTypeStep, UnstalledStep
<1>3. Unstalled => NeverStalls
  BY DEF Unstalled, NeverStalls, SomebodyActs, Waited
<1> QED
  BY <1>1, <1>2, <1>3, PTL DEF Spec
-----------------------------------------------------------------------------
(* HR signs *)

\* The steps HR has to sign; supervisors who come and go move them only on a chain
\* with a supervisor step.
HRSteps == {n \in DOMAIN EffectiveChain : EffectiveChain[n] = "hr_admin"}
Plain   == \A i \in DOMAIN chain : chain[i] # "supervisor"
Steady  == changes = 0 \/ Plain

\* Without a supervisor step they are the configured ones.
AsConfigured == \A n : n \in HRSteps <=> n \in DOMAIN chain /\ chain[n] = "hr_admin"
LEMMA PlainHR == IndType /\ Plain => AsConfigured
<1> SUFFICES ASSUME IndType, Plain PROVE AsConfigured
  OBVIOUS
<1> QED
  BY Effective DEF Plain, AsConfigured, HRSteps

LEMMA HRStepsStay ==
    ASSUME IndType, [Next]_vars, Steady'
    PROVE  /\ Steady
           /\ HRSteps' = HRSteps
           /\ \A n \in HRSteps : n \in Nat /\ n >= 1
<1>1. chain' = chain
  BY OthersLeave DEF ChangeStaff
<1>2. \A n \in HRSteps : n \in Nat /\ n >= 1
  BY Effective DEF HRSteps
<1>3. CASE UNCHANGED <<chain, staff, changes>>
  BY <1>2, <1>3, SameChain DEF Steady, Plain, HRSteps
<1>4. CASE ChangeStaff
  <2>1. changes \in Nat /\ changes' = changes + 1
    BY <1>4 DEF ChangeStaff, IndType, TypeOK
  <2>2. Plain /\ Plain'
    BY <1>1, <2>1 DEF Steady, Plain
  <2>3. AsConfigured /\ IndType'
    BY <2>2, PlainHR, IndTypeStep
  <2>4. AsConfigured'
    BY <2>2, <2>3, PlainHR, PTL
  <2>5. \A n : n \in HRSteps' <=> n \in HRSteps
    BY <1>1, <2>3, <2>4 DEF AsConfigured
  <2>6. HRSteps' = HRSteps
    <3>1. \A H, G : (\A n \in H : n \in G) /\ (\A n \in G : n \in H) => H = G
      OBVIOUS
    <3> QED
      BY <2>5 DEF HRSteps
  <2> QED
    BY <1>2, <2>2, <2>6 DEF Steady
<1> QED
  BY <1>3, <1>4, OthersLeave

\* HR's signature on the steps of H below n, and on all of them.
HRRow(rows, r, j) ==
    \E a \in rows : a.req = r /\ a.step = j /\ a.decision = "approved" /\ a.by = "hr_admin"
HRBefore(H, rows, r, n) == \A j \in H : j < n => HRRow(rows, r, j)
HRAll(H, rows, r)       == \A j \in H : HRRow(rows, r, j)

\* A request or a handler past a step of HR's has HR's signature for it; one about
\* to approve for good has no step of HR's left but its own.
HRKept ==
    Steady =>
        /\ \A r \in Requests :
              /\ HRBefore(HRSteps, log, r, current_step[r])
              /\ status[r] = "approved" => HRAll(HRSteps, log, r)
        /\ \A s \in Sessions :
              th[s].pc \in {"approve", "charge"} =>
                  /\ HRBefore(HRSteps, log, th[s].req, th[s].step)
                  /\ th[s].step \in HRSteps => th[s].by = "hr_admin"
                  /\ th[s].pc = "charge" => \A j \in HRSteps : j <= th[s].step

\* A step nobody is there for is never HR's.
LEMMA SkippedNotHR ==
    ASSUME IndType, NEW k \in Nat, NEW n \in Nat, NEW manager, Lands(k, n, manager)
    PROVE  /\ \A j \in HRSteps : j < n => j <= k
           /\ Beyond(n) => \A j \in HRSteps : j <= k
<1>1. \A j \in HRSteps : j \in 1 .. Len(EffectiveChain) /\ Len(EffectiveChain) \in Nat
  BY Effective DEF HRSteps
<1>2. ASSUME NEW j \in HRSteps, j < n, ~(j <= k) PROVE FALSE
  <2>1. j \in k + 1 .. n - 1
    BY <1>1, <1>2
  <2>2. AutoSkips(j, manager)
    BY <2>1 DEF Lands
  <2> QED
    BY <2>2 DEF AutoSkips, HRSteps
<1> QED
  BY <1>1, <1>2 DEF Beyond

LEMMA HRKeptStep == ASSUME IndType, HRKept, [Next]_vars PROVE HRKept'
<1> SUFFICES ASSUME Steady'
             PROVE  /\ \A r \in Requests :
                          /\ HRBefore(HRSteps', log', r, current_step'[r])
                          /\ status'[r] = "approved" => HRAll(HRSteps', log', r)
                    /\ \A s \in Sessions :
                          th'[s].pc \in {"approve", "charge"} =>
                              /\ HRBefore(HRSteps', log', th'[s].req, th'[s].step)
                              /\ th'[s].step \in HRSteps' => th'[s].by = "hr_admin"
                              /\ th'[s].pc = "charge" => \A j \in HRSteps' : j <= th'[s].step
  BY DEF HRKept
<1> DEFINE H == HRSteps
<1>0. /\ th \in [Sessions -> Thread] /\ current_step \in [Requests -> Nat] /\ Working
      /\ status \in [Requests -> Status]
      /\ \A n \in Reach : n \in Nat
  BY DEF IndType, TypeOK, Reach
<1>1. Steady /\ HRSteps' = H /\ \A n \in H : n \in Nat /\ n >= 1
  BY HRStepsStay
<1>2. /\ \A r \in Requests : HRBefore(H, log, r, current_step[r])
                             /\ (status[r] = "approved" => HRAll(H, log, r))
      /\ \A s \in Sessions :
            th[s].pc \in {"approve", "charge"} =>
                /\ HRBefore(H, log, th[s].req, th[s].step)
                /\ th[s].step \in H => th[s].by = "hr_admin"
                /\ th[s].pc = "charge" => \A j \in H : j <= th[s].step
  BY <1>1 DEF HRKept
<1>3. /\ \A r, n : HRBefore(H, log, r, n) => HRBefore(H, log', r, n)
      /\ \A r : HRAll(H, log, r) => HRAll(H, log', r)
  BY LogGrows DEF HRBefore, HRAll, HRRow
\* A handler that signs its own step carries the signatures over it.
<1>4. ASSUME NEW s \in Sessions, th[s].pc \in {"approve", "charge"},
             th[s].step = 0 \/ Row(s, "approved") \in log', NEW j \in H, j <= th[s].step
      PROVE  HRRow(log', th[s].req, j)
  <2>1. th[s].step \in Nat
    BY <1>0 DEF Thread
  <2>2. CASE j < th[s].step
    BY <1>2, <1>3, <1>4, <2>2 DEF HRBefore
  <2>3. CASE j = th[s].step
    <3>1. Row(s, "approved") \in log' /\ th[s].by = "hr_admin"
      BY <1>1, <1>2, <1>4, <2>3
    <3> QED
      BY <2>3, <3>1 DEF HRRow, Row
  <2> QED
    BY <1>1, <1>4, <2>1, <2>2, <2>3
<1>5. ASSUME NEW s \in Sessions, NEW q \in Requests, Submit(s, q)
      PROVE  /\ HRBefore(H, log', q, current_step'[q]) /\ status'[q] # "approved"
             /\ \A r \in Requests \ {q} : current_step'[r] = current_step[r] /\ status'[r] = status[r]
  <2>1. PICK n \in Reach : LandsFirst(n) /\ current_step' = [current_step EXCEPT ![q] = n]
    BY <1>5 DEF Submit
  <2>2. status' = [status EXCEPT ![q] = "pending"]
    BY <1>5 DEF Submit
  <2>3. \A j \in H : ~(j < n)
    <3>1. CASE EffectiveChain = <<>>
      BY <1>0, <1>1, <2>1, <3>1 DEF LandsFirst
    <3>2. CASE EffectiveChain # <<>>
      <4>1. n \in Nat /\ Lands(0, n, staff.manager)
        BY <1>0, <2>1, <3>2 DEF LandsFirst
      <4>2. \A j \in H : j < n => j <= 0
        BY <4>1, SkippedNotHR
      <4> QED
        BY <1>1, <4>2
    <3> QED
      BY <3>1, <3>2
  <2>4. HRBefore(H, log', q, n)
    BY <2>3 DEF HRBefore
  <2> QED
    BY <1>0, <2>1, <2>2, <2>4
<1>6. ASSUME NEW s \in Sessions, Advance(s)
      PROVE  /\ th[s].req \in Requests
             /\ HRBefore(H, log', th[s].req, current_step'[th[s].req])
             /\ \A r \in Requests \ {th[s].req} : current_step'[r] = current_step[r]
             /\ status' = status
  <2>1. PICK n \in Reach : /\ Lands(th[s].step, n, th[s].manager)
                           /\ log' = log \cup {Row(s, "approved")}
                                     \cup SkipRows(th[s].req, th[s].step + 1 .. n - 1)
                           /\ current_step' = [current_step EXCEPT ![th[s].req] = n]
    BY <1>6 DEF Advance
  <2>2. th[s].pc = "approve" /\ th[s].req \in Requests /\ th[s].step \in Nat /\ n \in Nat
    BY <1>0, <1>6 DEF Advance, At, Working, Fits, Thread
  <2>3. \A j \in H : j < n => j <= th[s].step
    BY <2>1, <2>2, SkippedNotHR
  <2>4. Row(s, "approved") \in log'
    BY <2>1
  <2>5. HRBefore(H, log', th[s].req, n)
    BY <1>4, <2>2, <2>3, <2>4 DEF HRBefore
  <2> QED
    BY <1>0, <1>6, <2>1, <2>2, <2>5 DEF Advance
<1>7. ASSUME NEW s \in Sessions, Charge(s)
      PROVE  /\ th[s].req \in Requests
             /\ HRAll(H, log', th[s].req)
             /\ \A r \in Requests \ {th[s].req} :
                   current_step'[r] = current_step[r] /\ status'[r] = status[r]
  <2>1. th[s].pc = "charge" /\ th[s].req \in Requests
    BY <1>0, <1>7 DEF Charge, At, Working, Fits
  <2>2. th[s].step = 0 \/ Row(s, "approved") \in log'
    BY <1>7 DEF Charge
  <2>3. \A j \in H : j <= th[s].step
    BY <1>2, <2>1
  <2>4. HRAll(H, log', th[s].req)
    BY <1>4, <2>1, <2>2, <2>3 DEF HRAll
  <2> QED
    BY <1>0, <1>7, <2>1, <2>4 DEF Charge
<1>8. ASSUME NEW r \in Requests
      PROVE  /\ HRBefore(H, log', r, current_step'[r])
             /\ status'[r] = "approved" => HRAll(H, log', r)
  <2>1. CASE current_step'[r] = current_step[r]
             /\ (status'[r] = status[r] \/ status'[r] # "approved")
    BY <1>2, <1>3, <2>1
  <2>2. ASSUME NEW s \in Sessions, NEW q \in Requests, Submit(s, q)
        PROVE  /\ HRBefore(H, log', r, current_step'[r])
               /\ status'[r] = "approved" => HRAll(H, log', r)
    BY <1>5, <2>1, <2>2
  <2>3. ASSUME NEW s \in Sessions, Advance(s)
        PROVE  /\ HRBefore(H, log', r, current_step'[r])
               /\ status'[r] = "approved" => HRAll(H, log', r)
    BY <1>2, <1>3, <1>6, <2>3
  <2>4. ASSUME NEW s \in Sessions, Charge(s)
        PROVE  /\ HRBefore(H, log', r, current_step'[r])
               /\ status'[r] = "approved" => HRAll(H, log', r)
    <3>1. HRAll(H, log', r) => HRBefore(H, log', r, current_step'[r])
      BY DEF HRAll, HRBefore
    <3> QED
      BY <1>7, <2>1, <2>4, <3>1
  <2>5. ASSUME NEW s \in Sessions, Reject(s) \/ CancelSave(s)
        PROVE  current_step' = current_step
               /\ (status'[r] = status[r] \/ status'[r] # "approved")
    BY <1>0, <2>5 DEF Reject, CancelSave
  <2>6. CASE UNCHANGED <<status, current_step>>
    BY <2>1, <2>6
  <2> QED
    BY <2>1, <2>2, <2>3, <2>4, <2>5, <2>6 DEF Next, Handle, SubmitFinishes, DecideCheck,
       CancelCheck, Finish, Crash, AccrueRead, AccrueSave, ChangeStaff, vars, requestVars
<1>9. ASSUME NEW s \in Sessions, th'[s].pc \in {"approve", "charge"}
      PROVE  /\ HRBefore(H, log', th'[s].req, th'[s].step)
             /\ th'[s].step \in H => th'[s].by = "hr_admin"
             /\ th'[s].pc = "charge" => \A j \in H : j <= th'[s].step
  <2> DEFINE Goal == /\ HRBefore(H, log', th'[s].req, th'[s].step)
                     /\ th'[s].step \in H => th'[s].by = "hr_admin"
                     /\ th'[s].pc = "charge" => \A j \in H : j <= th'[s].step
  <2>1. ASSUME Done(s) PROVE FALSE
    BY <1>0, <1>9, <2>1 DEF Done, Idle
  <2>2. ASSUME NEW r \in Requests, SubmitFinishes(s, r) PROVE Goal
    <3>1. PICK n \in Reach : Lands(0, n, staff.manager) /\ Beyond(n)
      BY <2>2 DEF SubmitFinishes
    <3>2. th'[s].step = 0
      BY <1>0, <2>2 DEF SubmitFinishes, Idle
    <3>3. \A j \in H : j <= 0
      BY <1>0, <3>1, SkippedNotHR
    <3>4. H = {}
      BY <1>1, <3>3
    <3> QED
      BY <3>4 DEF HRBefore
  <2>3. ASSUME NEW r \in Requests, NEW pc \in {"approve", "reject"}, DecideCheck(s, r, pc)
        PROVE  Goal
    <3>1. /\ th'[s].req = r /\ th'[s].step = current_step[r] /\ th'[s].pc = pc
          /\ th'[s].by = EffectiveChain[current_step[r]]
      BY <1>0, <2>3 DEF DecideCheck, Idle
    <3>2. HRBefore(H, log', r, current_step[r])
      BY <1>2, <1>3
    <3>3. current_step[r] \in H => EffectiveChain[current_step[r]] = "hr_admin"
      BY DEF HRSteps
    <3> QED
      BY <3>1, <3>2, <3>3
  <2>4. ASSUME NEW r \in Requests, CancelCheck(s, r) PROVE FALSE
    BY <1>0, <1>9, <2>4 DEF CancelCheck, Idle
  <2>5. ASSUME Finish(s) PROVE Goal
    <3>1. PICK n \in Reach \cup {th[s].step + 1} :
             Lands(th[s].step, n, th[s].manager) /\ Beyond(n)
      BY <2>5 DEF Finish
    <3>2. /\ th[s].pc = "approve" /\ th'[s].req = th[s].req /\ th'[s].step = th[s].step
          /\ th'[s].by = th[s].by
      BY <1>0, <2>5 DEF Finish, At, Thread
    <3>3. th[s].step \in Nat /\ n \in Nat
      BY <1>0 DEF Thread
    <3>4. \A j \in H : j <= th[s].step
      BY <3>1, <3>3, SkippedNotHR
    <3> QED
      BY <1>2, <1>3, <3>2, <3>4
  <2>6. ASSUME NEW u \in Sessions, Handle(u) \/ Crash(u), u # s PROVE th'[s] = th[s]
    BY <1>0, <2>6 DEF Handle, Submit, SubmitFinishes, DecideCheck, CancelCheck, Reject, Advance,
       Finish, Charge, CancelSave, Crash, Done
  <2>7. CASE th'[s] = th[s]
    BY <1>2, <1>3, <1>9, <2>7
  <2>8. CASE Handle(s) \/ Crash(s)
    BY <2>1, <2>2, <2>3, <2>4, <2>5, <2>7, <2>8
    DEF Handle, Submit, Reject, Advance, Charge, CancelSave, Crash
  <2> QED
    BY <2>6, <2>7, <2>8 DEF Next, AccrueRead, AccrueSave, ChangeStaff, vars
<1> QED
  BY <1>1, <1>8, <1>9

\* HR has signed every approved request of a chain with a step of HR's, however many
\* users decide and cancel at once, unless supervisors came or went on a chain with a
\* supervisor step.
THEOREM HRSignsCorrect == Spec => []HRSigns
<1>1. Init => IndType /\ HRKept
  <2> SUFFICES ASSUME Init PROVE IndType /\ HRKept
    OBVIOUS
  <2>1. IndType
    BY IndTypeInit
  <2>2. \A n \in HRSteps : n \in Nat /\ n >= 1
    BY <2>1, Effective DEF HRSteps
  <2> QED
    BY <2>1, <2>2 DEF Init, HRKept, HRBefore, Idle
<1>2. IndType /\ HRKept /\ [Next]_vars => IndType' /\ HRKept'
  BY IndTypeStep, HRKeptStep
<1>3. IndType /\ HRKept => HRSigns
  <2> SUFFICES ASSUME IndType, HRKept, NEW r \in Requests, status[r] = "approved", Steady,
                      \E i \in DOMAIN chain : chain[i] = "hr_admin"
               PROVE  \E a \in log : a.req = r /\ a.by = "hr_admin" /\ a.decision = "approved"
    BY DEF HRSigns, Steady, Plain
  <2>1. PICK n \in HRSteps : TRUE
    BY Effective DEF HRSteps
  <2>2. HRRow(log, r, n)
    BY DEF HRKept, HRAll
  <2> QED
    BY <2>2 DEF HRRow
<1> QED
  BY <1>1, <1>2, <1>3, PTL DEF Spec
=============================================================================
