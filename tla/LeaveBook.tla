------------------------------ MODULE LeaveBook ------------------------------
(***************************************************************************)
(* What the leave component promises: a request is decided once and for    *)
(* good, and approving it takes its days from the balance of its year in   *)
(* the same step.  Implemented by LeaveApproval.                           *)
(***************************************************************************)
EXTENDS Naturals

CONSTANTS
    Requests,   \* the leave requests of one employee and one leave type
    YearOf,     \* the fiscal year each is charged to
    Days        \* what each costs

Years == {"old", "new"}

VARIABLES
    status,     \* LeaveRequest.status, "none" before it is submitted
    used        \* LeaveBalance.used_days per fiscal year

vars == <<status, used>>

Become(r, st) == status' = [status EXCEPT ![r] = st]
Charge(r)     == used' = [used EXCEPT ![YearOf[r]] = @ + Days[r]]

Submit(r)  == status[r] = "none" /\ Become(r, "pending") /\ UNCHANGED used
\* On submission too: every step of the chain may resolve to nobody.
Approve(r) == status[r] \in {"none", "pending"} /\ Become(r, "approved") /\ Charge(r)
Refuse(r)  ==
    /\ status[r] = "pending"
    /\ \E st \in {"rejected", "cancelled"} : Become(r, st)
    /\ UNCHANGED used

Init == status = [r \in Requests |-> "none"] /\ used = [y \in Years |-> 0]
Next == \E r \in Requests : Submit(r) \/ Approve(r) \/ Refuse(r)
Spec == Init /\ [][Next]_vars
=============================================================================
