--------------------------- MODULE LeaveApproval ---------------------------
(***************************************************************************)
(* The leave requests of one employee and one leave type: submission, the  *)
(* approval chain, the balance and the yearly accrual of                   *)
(* backend/leave/services.py, viewsets.py and tasks.py.  A view reads the  *)
(* request and acts on what it read later; decide and                      *)
(* submit_leave_request are transactions (READ COMMITTED): saving the      *)
(* request locks its row until the commit, reading the balance does not.   *)
(* The chain is resolved afresh at every step (effective_chain), while HR  *)
(* changes who supervises whom.                                            *)
(***************************************************************************)
EXTENDS Naturals, Sequences, FiniteSets

CONSTANTS
    Requests,     \* the employee's requests
    YearOf,       \* the fiscal year each one's start date falls in
    Days,         \* what each one costs (calculate_days)
    Chains,       \* the approval chains a company may have configured
    Quota,        \* annual_quota_days
    Carry,        \* max_carry_forward_days
    Nothing,      \* no request, in the record of an idle thread
    Sessions,     \* HTTP request threads
    MaxChanges,   \* bound: changes of manager or supervisors
    MaxCrashes    \* bound: requests that die half way

Years == {"old", "new"}
Roles == {"supervisor", "manager", "hr_admin"}

ASSUME DataAssumption ==
    /\ YearOf \in [Requests -> Years] /\ Days \in [Requests -> Nat]
    /\ Chains \subseteq Seq(Roles) /\ Nothing \notin Requests
ASSUME BoundsAssumption ==
    Quota \in Nat /\ Carry \in Nat /\ MaxChanges \in Nat /\ MaxCrashes \in Nat

VARIABLES
    chain,          \* the roles of the active ApprovalChain, in sequence
    staff,          \* whether the employee has a manager, and approvers()
    status,         \* LeaveRequest.status, "none" before it is submitted
    current_step,   \* LeaveRequest.current_step
    log,            \* ApprovalAction rows
    balance,        \* LeaveBalance per fiscal year
    accrual,        \* the running apply_annual_leave_accrual and what it has read
    changes, crashes,
    th              \* per session: where its handler is and what it has read

requestVars == <<status, current_step, log>>
envVars     == <<chain, staff, changes, crashes>>
vars        == <<requestVars, balance, accrual, envVars, th>>

Status == {"none", "pending", "approved", "rejected", "cancelled"}

\* `by` is the role the actor signed in; an automatic skip has no actor.
Action  == [req : Requests, step : Nat, decision : {"approved", "rejected"},
            by : Roles \cup {"nobody"}]
Balance == [open : BOOLEAN, carried : Nat, used : Nat]
Unread  == [on |-> FALSE, carried |-> 0, used |-> 0]

\* `manager` is the select_related manager of the request the view fetched.
PCs    == {"idle", "approve", "reject", "charge", "cancel"}
Thread == [pc : PCs, req : Requests \cup {Nothing}, step : Nat,
           by : Roles \cup {"nobody"}, manager : BOOLEAN, to : Nat, used : Nat]
Idle   == [pc |-> "idle", req |-> Nothing, step |-> 0, by |-> "nobody",
           manager |-> FALSE, to |-> 0, used |-> 0]

TypeOK ==
    /\ chain \in Chains /\ staff \in [manager : BOOLEAN, approvers : BOOLEAN]
    /\ status \in [Requests -> Status] /\ current_step \in [Requests -> Nat]
    /\ log \subseteq Action
    /\ balance \in [Years -> Balance]
    /\ accrual \in [on : BOOLEAN, carried : Nat, used : Nat]
    /\ changes \in Nat /\ crashes \in Nat
    /\ th \in [Sessions -> Thread]

At(s, pc) == th[s].pc = pc
Done(s)   == th' = [th EXCEPT ![s] = Idle]

-----------------------------------------------------------------------------
(* The chain *)

\* effective_chain: a supervisor step is left out for an employee without any, and
\* those that stay are numbered in order.
Kept        == {i \in DOMAIN chain : chain[i] # "supervisor" \/ staff.approvers}
Sequence(i) == Cardinality({j \in Kept : j <= i})

\* A supervisor or manager step goes to the last of approvers(), a manager step
\* stays when there is none.
EffectiveChain ==
    [n \in 1 .. Cardinality(Kept) |->
        LET role == chain[CHOOSE i \in Kept : Sequence(i) = n] IN
        IF staff.approvers /\ role = "manager" THEN "supervisor" ELSE role]

\* _advance_or_finalize skips a manager step when the employee has no manager.
SkipsUnmanaged(i, manager) == i \in DOMAIN EffectiveChain /\ ~manager    \* mutant
AutoSkips(i, manager) ==
    i \in DOMAIN EffectiveChain /\ EffectiveChain[i] = "manager" /\ ~manager

\* From step k the request lands on n; beyond the end of the chain it is approved.
Lands(k, n, manager) ==
    /\ n > k /\ ~AutoSkips(n, manager)
    /\ \A i \in k + 1 .. n - 1 : AutoSkips(i, manager)
Reach     == 1 .. Len(EffectiveChain) + 1
Beyond(n) == n > Len(EffectiveChain)

\* can_act_on_step holds for somebody at the request's current step.
SomebodyActs(r) ==
    /\ current_step[r] \in DOMAIN EffectiveChain
    /\ EffectiveChain[current_step[r]] \in
          {"supervisor", "hr_admin"} \cup (IF staff.manager THEN {"manager"} ELSE {})

\* The row is locked by a decide or a submission that has not committed.
Locked(r) == \E s \in Sessions : At(s, "charge") /\ th[s].req = r

SkipRowsForgotten(r, steps) == {}    \* mutant
SkipRows(r, steps) ==
    [req : {r}, step : steps, decision : {"approved"}, by : {"nobody"}]
Row(s, decision) ==
    [req |-> th[s].req, step |-> th[s].step, decision |-> decision, by |-> th[s].by]

-----------------------------------------------------------------------------
(* Submitting *)

OpenBalance(y) == balance' = [balance EXCEPT ![y].open = TRUE]

\* submit_leave_request: the balance row is created, the request waits at the
\* first step somebody is there for (at step 1 of a chain without any).
LandsUnskipped(n) == n = 1    \* mutant
LandsFirst(n) ==
    IF EffectiveChain = <<>> THEN n = 1 ELSE Lands(0, n, staff.manager) /\ ~Beyond(n)

Submit(s, r) ==
    /\ At(s, "idle") /\ status[r] = "none" /\ ~Locked(r)
    /\ OpenBalance(YearOf[r])
    /\ status' = [status EXCEPT ![r] = "pending"]
    /\ \E n \in Reach :
          /\ LandsFirst(n)
          /\ current_step' = [current_step EXCEPT ![r] = n]
          /\ log' = log \cup SkipRows(r, 1 .. n - 1)
    /\ UNCHANGED <<accrual, envVars, th>>

\* Every step resolves to nobody: the submission itself approves.
SubmitFinishes(s, r) ==
    /\ At(s, "idle") /\ status[r] = "none" /\ ~Locked(r) /\ EffectiveChain # <<>>
    /\ \E n \in Reach :
          /\ Lands(0, n, staff.manager) /\ Beyond(n)
          /\ th' = [th EXCEPT ![s] = [Idle EXCEPT !.pc = "charge", !.req = r, !.to = n,
                                                  !.used = balance[YearOf[r]].used]]
    /\ UNCHANGED <<requestVars, balance, accrual, envVars>>

-----------------------------------------------------------------------------
(* Deciding and cancelling *)

Decidable(r) == status[r] = "pending"

\* _decide: the request is pending and the user is the approver of its step.
DecideCheck(s, r, pc) ==
    /\ At(s, "idle") /\ Decidable(r) /\ SomebodyActs(r)
    /\ th' = [th EXCEPT ![s] = [Idle EXCEPT !.pc = pc, !.req = r, !.step = current_step[r],
                  !.by = EffectiveChain[current_step[r]], !.manager = staff.manager]]
    /\ UNCHANGED <<requestVars, balance, accrual, envVars>>

Reject(s) ==
    LET r == th[s].req IN
    /\ At(s, "reject") /\ ~Locked(r)
    /\ log' = log \cup {Row(s, "rejected")}
    /\ status' = [status EXCEPT ![r] = "rejected"]
    /\ Done(s)
    /\ UNCHANGED <<current_step, balance, accrual, envVars>>

\* decide, when the effective chain of this moment has a further step.
Advance(s) ==
    LET r == th[s].req
        k == th[s].step IN
    /\ At(s, "approve") /\ ~Locked(r)
    /\ \E n \in Reach :
          /\ Lands(k, n, th[s].manager) /\ ~Beyond(n)
          /\ log' = log \cup {Row(s, "approved")} \cup SkipRows(r, k + 1 .. n - 1)
          /\ current_step' = [current_step EXCEPT ![r] = n]
    /\ Done(s)
    /\ UNCHANGED <<status, balance, accrual, envVars>>

\* decide, when it has none: the request is saved, the balance read ...
Finish(s) ==
    LET r == th[s].req IN
    /\ At(s, "approve") /\ ~Locked(r)
    /\ \E n \in Reach \cup {th[s].step + 1} :
          /\ Lands(th[s].step, n, th[s].manager) /\ Beyond(n)
          /\ th' = [th EXCEPT ![s] = [@ EXCEPT !.pc = "charge", !.to = n,
                                               !.used = balance[YearOf[r]].used]]
    /\ UNCHANGED <<requestVars, balance, accrual, envVars>>

Charged(s) == th[s].used + Days[th[s].req]

\* ... and written, and the transaction commits.
Charge(s) ==
    LET r == th[s].req IN
    /\ At(s, "charge")
    /\ status' = [status EXCEPT ![r] = "approved"]
    /\ current_step' = [current_step EXCEPT ![r] =
                          IF th[s].to = th[s].step + 1 THEN @ ELSE th[s].to - 1]
    /\ log' = log \cup SkipRows(r, th[s].step + 1 .. th[s].to - 1)
                  \cup (IF th[s].step = 0 THEN {} ELSE {Row(s, "approved")})
    /\ balance' = [balance EXCEPT ![YearOf[r]] = [@ EXCEPT !.open = TRUE, !.used = Charged(s)]]
    /\ Done(s)
    /\ UNCHANGED <<accrual, envVars>>

CancelCheck(s, r) ==
    /\ At(s, "idle") /\ status[r] = "pending"
    /\ th' = [th EXCEPT ![s] = [Idle EXCEPT !.pc = "cancel", !.req = r]]
    /\ UNCHANGED <<requestVars, balance, accrual, envVars>>

CancelSave(s) ==
    /\ At(s, "cancel") /\ ~Locked(th[s].req)
    /\ status' = [status EXCEPT ![th[s].req] = "cancelled"]
    /\ Done(s)
    /\ UNCHANGED <<current_step, log, balance, accrual, envVars>>

-----------------------------------------------------------------------------
(* The yearly accrual *)

\* What is left of the old year, between zero and the cap.
CarriedForward ==
    LET owed == Quota + balance["old"].carried
        left == IF owed > balance["old"].used THEN owed - balance["old"].used ELSE 0 IN
    IF ~balance["old"].open THEN 0 ELSE IF left < Carry THEN left ELSE Carry

\* apply_annual_leave_accrual reads both rows of the employee and the leave type.
AccrueRead ==
    /\ ~accrual.on
    /\ accrual' = [on |-> TRUE, carried |-> CarriedForward, used |-> balance["new"].used]
    /\ OpenBalance("new")
    /\ UNCHANGED <<requestVars, envVars, th>>

\* It saves the columns it owns.
AccruedWhole == [balance["new"] EXCEPT !.carried = accrual.carried, !.used = accrual.used]    \* mutant
Accrued == [balance["new"] EXCEPT !.carried = accrual.carried]

AccrueSave ==
    /\ accrual.on
    /\ balance' = [balance EXCEPT !["new"] = Accrued]
    /\ accrual' = Unread
    /\ UNCHANGED <<requestVars, envVars, th>>

-----------------------------------------------------------------------------
(* The environment: the employee's record, and requests that die *)

ChangeStaff ==
    /\ changes < MaxChanges
    /\ changes' = changes + 1
    /\ staff' \in [manager : BOOLEAN, approvers : BOOLEAN] \ {staff}
    /\ UNCHANGED <<requestVars, balance, accrual, chain, crashes, th>>

\* A transaction that has not committed is rolled back.
Crash(s) ==
    /\ crashes < MaxCrashes /\ ~At(s, "idle")
    /\ crashes' = crashes + 1
    /\ Done(s)
    /\ UNCHANGED <<requestVars, balance, accrual, chain, staff, changes>>

-----------------------------------------------------------------------------

Init ==
    /\ chain \in Chains
    /\ staff \in [manager : BOOLEAN, approvers : BOOLEAN]
    /\ status = [r \in Requests |-> "none"]
    /\ current_step = [r \in Requests |-> 1]
    /\ log = {}
    /\ balance = [y \in Years |-> [open |-> FALSE, carried |-> 0, used |-> 0]]
    /\ accrual = Unread
    /\ changes = 0 /\ crashes = 0
    /\ th = [s \in Sessions |-> Idle]

Handle(s) ==
    \/ \E r \in Requests : \/ Submit(s, r) \/ SubmitFinishes(s, r) \/ CancelCheck(s, r)
                           \/ DecideCheck(s, r, "approve") \/ DecideCheck(s, r, "reject")
    \/ Reject(s) \/ Advance(s) \/ Finish(s) \/ Charge(s) \/ CancelSave(s)

Next ==
    \/ \E s \in Sessions : Handle(s) \/ Crash(s)
    \/ AccrueRead \/ AccrueSave \/ ChangeStaff

Spec == Init /\ [][Next]_vars

-----------------------------------------------------------------------------
(* What holds for any number of users *)

\* "Who approved step one?" always has an answer (_advance_or_finalize): a request
\* carries an approval, or an automatic skip, for every step before its own.
StepsSigned ==
    \A r \in Requests : \A j \in 1 .. current_step[r] - 1 :
        \E a \in log : a.req = r /\ a.step = j /\ a.decision = "approved"

\* HR has signed every approved request, unless supervisors came or went on a chain
\* with a supervisor step (effective_chain: "the steps this request has to pass").
HRSigns ==
    \A r \in Requests :
        /\ status[r] = "approved"
        /\ \E i \in DOMAIN chain : chain[i] = "hr_admin"
        /\ changes = 0 \/ \A i \in DOMAIN chain : chain[i] # "supervisor"
        => \E a \in log : a.req = r /\ a.by = "hr_admin" /\ a.decision = "approved"

\* While nobody's manager or supervisors change, a pending request always waits for
\* somebody (_notify_approvers_for_step: "rather than stall the request forever"),
\* if the chain has a step at all.
NeverStalls ==
    changes = 0 /\ EffectiveChain # <<>> =>
        \A r \in Requests : status[r] = "pending" => SomebodyActs(r)

-----------------------------------------------------------------------------
(* What one user at a time may rely on *)

\* Decided once and for good, charged when approved and never otherwise, whatever
\* the accrual does meanwhile: see LeaveBook.
Book == INSTANCE LeaveBook WITH used <- [y \in Years |-> balance[y].used]
Implements == Book!Spec
=============================================================================
