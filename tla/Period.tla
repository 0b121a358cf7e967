-------------------------------- MODULE Period --------------------------------
(***************************************************************************)
(* What a payroll run promises to the people who are paid by it, whatever  *)
(* the number of workers and the order of their tasks: the period opens,   *)
(* everybody it covers is answered for once with pay or with an error, pay *)
(* that is final is final, and the period closes whole or not at all.      *)
(* PayrollRun implements it for one HR user (its ImplementsPeriod).         *)
(***************************************************************************)
CONSTANTS Employees,
          Amounts,     \* what somebody can be paid
          Unpaid       \* the pay of who has no payslip

VARIABLES phase,       \* "draft", "running", "closed" or "discarded"
          covered,     \* who the run pays
          counted,     \* the totals of the period have been added up
          pay,         \* per employee: what the payslip says, or Unpaid
          final,       \* whose pay is final
          wrong        \* who could not be priced

vars == <<phase, covered, counted, pay, final, wrong>>

Paid == {e \in Employees : pay[e] # Unpaid}

Init ==
    /\ phase = "draft"
    /\ covered = {} /\ counted = FALSE
    /\ pay = [e \in Employees |-> Unpaid]
    /\ final = {} /\ wrong = {}

\* Only what was never started can be thrown away, and nothing comes after.
Discard ==
    /\ phase = "draft" /\ phase' = "discarded"
    /\ UNCHANGED <<covered, counted, pay, final, wrong>>

Start ==
    /\ phase = "draft" /\ phase' = "running"
    /\ UNCHANGED <<covered, counted, pay, final, wrong>>

\* Who is covered is decided once.
Cover(people) ==
    /\ phase = "running" /\ covered = {} /\ people # {}
    /\ covered' = people
    /\ UNCHANGED <<phase, counted, pay, final, wrong>>

\* Somebody covered gets pay, until the totals are counted; pay that is there
\* and is not final may be corrected.
Price(e, amount) ==
    /\ phase = "running"
    /\ e \in Paid \/ (e \in covered \ wrong /\ ~counted)
    /\ e \notin final
    /\ pay' = [pay EXCEPT ![e] = amount]
    /\ UNCHANGED <<phase, covered, counted, final, wrong>>

\* Or an error, which stands: a run that was started is not run again.
Report(e) ==
    /\ phase = "running" /\ ~counted
    /\ e \in covered \ Paid
    /\ wrong' = wrong \cup {e}
    /\ UNCHANGED <<phase, covered, counted, pay, final>>

Settle(people) ==
    /\ phase = "running" /\ people \subseteq Paid
    /\ final' = final \cup people
    /\ UNCHANGED <<phase, covered, counted, pay, wrong>>

\* Once everybody covered is answered for.
Count ==
    /\ phase = "running" /\ ~counted
    /\ covered # {} /\ covered \subseteq Paid \cup wrong
    /\ counted' = TRUE
    /\ UNCHANGED <<phase, covered, pay, final, wrong>>

\* The period closes whole, and nothing in it changes any more.
Close ==
    /\ phase = "running"
    /\ counted \/ covered = {}
    /\ wrong = {} /\ covered \subseteq final /\ Paid \subseteq final
    /\ phase' = "closed"
    /\ UNCHANGED <<covered, counted, pay, final, wrong>>

Next ==
    \/ Discard \/ Start \/ Count \/ Close
    \/ \E people \in SUBSET Employees : Cover(people) \/ Settle(people)
    \/ \E e \in Employees : Report(e) \/ \E amount \in Amounts : Price(e, amount)

Spec == Init /\ [][Next]_vars
=============================================================================
