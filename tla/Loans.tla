-------------------------------- MODULE Loans --------------------------------
(***************************************************************************)
(* The loans of one employee, from the request to the last instalment:     *)
(* backend/payroll/viewsets.py (LoanViewSet, PayslipViewSet.recompute) and *)
(* backend/payroll/services.py (activate_loan, apply_loan_repayments).     *)
(* Every loan of the company uses one salary component, so a payslip has   *)
(* one loan line however many loans there are.  Handlers are HTTP requests *)
(* and Celery tasks; a view reads a row and later saves what it decided,   *)
(* and computing a payslip is one transaction and taking the instalments   *)
(* another for every loan.                                                 *)
(***************************************************************************)
EXTENDS Integers

CONSTANTS
    Advances,     \* the loans the employee may ask for
    Principal,    \* what is lent
    Monthly,      \* the deduction asked for
    Periods,      \* payroll periods, each with one payslip
    PeriodEnd,    \* the last day of a period
    LastDay,      \* bound: the days there are
    MaxPricings,  \* bound: how often one payslip is computed
    Handlers,     \* requests and tasks handled at once
    NoLine        \* a salary structure or payslip without the loan component

Days == 0 .. LastDay
Lines == Nat \cup {NoLine}

\* LoanCreateSerializer refuses a deduction above the principal.
ASSUME AdvancesAssumption ==
    /\ Principal \in [Advances -> Nat] /\ Monthly \in [Advances -> Nat]
    /\ \A l \in Advances : Monthly[l] <= Principal[l]
ASSUME PeriodsAssumption == LastDay \in Nat /\ PeriodEnd \in [Periods -> Days]
ASSUME LinesAssumption == NoLine \notin Nat /\ MaxPricings \in Nat

VARIABLES
    day,          \* today
    advance,      \* Loan: its status and outstanding balance
    structure,    \* per day: the loan line of the salary structure in force on it
    payslip,      \* per period: Payslip.status, and the line its items have
    pricings,     \* per period: how often its payslip was computed
    handler,      \* per handler: where it is and what it has read
    withheld      \* what the loan lines of all payslips add up to

loansVars == <<day, advance, structure, payslip, pricings, handler, withheld>>

AdvanceStatus == {"none", "requested", "approved", "rejected", "active", "closed"}
Advance == [status : AdvanceStatus, balance : Nat]
Slip == [status : {"none", "draft", "finalized"}, line : Lines]
Resting == [pc |-> "idle"]
Handling ==
    {Resting} \cup [pc : {"approve", "wire", "activate", "turn_down"}, loan : Advances]
              \cup [pc : {"list"}, period : Periods]
              \cup [pc : {"repay", "unwire"}, period : Periods, todo : SUBSET Advances,
                    seen : [Advances -> Nat]]

Amount(line) == IF line = NoLine THEN 0 ELSE line
Least(x, y) == IF x <= y THEN x ELSE y
Is(h, pc) == handler[h].pc = pc
Goes(h, record) == handler' = [handler EXCEPT ![h] = record]

LoansInit ==
    /\ day = 0
    /\ advance = [l \in Advances |-> [status |-> "none", balance |-> 0]]
    /\ structure = [d \in Days |-> NoLine]
    /\ payslip = [p \in Periods |-> [status |-> "none", line |-> NoLine]]
    /\ pricings = [p \in Periods |-> 0]
    /\ handler = [h \in Handlers |-> Resting]
    /\ withheld = 0

NextDay ==
    /\ day < LastDay /\ day' = day + 1
    /\ UNCHANGED <<advance, structure, payslip, pricings, handler, withheld>>

-----------------------------------------------------------------------------
(* The decision                                                            *)

\* create: whoever is employed may ask, however many loans are running.
Borrow(l) ==
    /\ advance[l].status = "none"
    /\ advance' = [advance EXCEPT ![l].status = "requested"]
    /\ UNCHANGED <<day, structure, payslip, pricings, handler, withheld>>

\* mutant: the status is not looked at.
DecideAnyway(h, l) ==
    /\ Is(h, "idle") /\ advance[l].status # "none"
    /\ \E pc \in {"approve", "turn_down"} : Goes(h, [pc |-> pc, loan |-> l])
    /\ UNCHANGED <<day, advance, structure, payslip, pricings, withheld>>

\* approve, or else reject and cancel, which save the same: the row is read ...
Decide(h, l) ==
    /\ Is(h, "idle") /\ advance[l].status = "requested"
    /\ \E pc \in {"approve", "turn_down"} : Goes(h, [pc |-> pc, loan |-> l])
    /\ UNCHANGED <<day, advance, structure, payslip, pricings, withheld>>

\* ... and the status column is saved.
TurnDown(h) ==
    /\ Is(h, "turn_down")
    /\ advance' = [advance EXCEPT ![handler[h].loan].status = "rejected"]
    /\ Goes(h, Resting)
    /\ UNCHANGED <<day, structure, payslip, pricings, withheld>>

Approve(h) ==
    /\ Is(h, "approve")
    /\ advance' = [advance EXCEPT ![handler[h].loan].status = "approved"]
    /\ Goes(h, [handler[h] EXCEPT !.pc = "wire"])
    /\ UNCHANGED <<day, structure, payslip, pricings, withheld>>

\* get_active_structure: the version in force on a day, as its loan line.
ActiveStructure(date) == structure[date]

\* _upsert_structure_version: one version per day, in force until there is another.
\* Its pairs replace the loan line, whoever put it there.
Upsert(line) == structure' = [d \in Days |-> IF d >= day THEN line ELSE structure[d]]

Wire(h) ==
    /\ Is(h, "wire")
    /\ Upsert(Monthly[handler[h].loan])
    /\ Goes(h, [handler[h] EXCEPT !.pc = "activate"])
    /\ UNCHANGED <<day, advance, payslip, pricings, withheld>>

\* mutant: the balance is left as the request had it.
ActivateUnowed(h) ==
    LET l == handler[h].loan IN
    /\ Is(h, "activate")
    /\ advance' = [advance EXCEPT ![l].status = "active"]
    /\ Goes(h, Resting)
    /\ UNCHANGED <<day, structure, payslip, pricings, withheld>>

Activate(h) ==
    LET l == handler[h].loan IN
    /\ Is(h, "activate")
    /\ advance' = [advance EXCEPT ![l] = [status |-> "active", balance |-> Principal[l]]]
    /\ Goes(h, Resting)
    /\ UNCHANGED <<day, structure, payslip, pricings, withheld>>

-----------------------------------------------------------------------------
(* The instalments                                                         *)

\* compute_payslip: a draft, or a new payslip, gets the lines of the structure in
\* force at the end of the period.
Price(h, p) ==
    LET line == ActiveStructure(PeriodEnd[p]) IN
    /\ Is(h, "idle") /\ payslip[p].status # "finalized" /\ pricings[p] < MaxPricings
    /\ payslip' = [payslip EXCEPT ![p] = [status |-> "draft", line |-> line]]
    /\ pricings' = [pricings EXCEPT ![p] = @ + 1]
    /\ withheld' = withheld - Amount(payslip[p].line) + Amount(line)
    /\ Goes(h, [pc |-> "list", period |-> p])
    /\ UNCHANGED <<day, advance, structure>>

FinalizePayslip(p) ==
    /\ payslip[p].status = "draft"
    /\ payslip' = [payslip EXCEPT ![p].status = "finalized"]
    /\ UNCHANGED <<day, advance, structure, pricings, handler, withheld>>

\* apply_loan_repayments: the ACTIVE loans are fetched ...
ListActive(h) ==
    /\ Is(h, "list")
    /\ Goes(h, [pc |-> "repay", period |-> handler[h].period,
                todo |-> {l \in Advances : advance[l].status = "active"},
                seen |-> [l \in Advances |-> advance[l].balance]])
    /\ UNCHANGED <<day, advance, structure, payslip, pricings, withheld>>

Left(balance, line) == balance - Least(line, balance)

\* ... each has what the line deducted taken off the balance that was fetched, and
\* is closed at zero.
Repay(h, l) ==
    LET at == handler[h]
        line == payslip[at.period].line
        rest == Left(at.seen[l], line)
        next == [at EXCEPT !.todo = @ \ {l}]
    IN
    /\ Is(h, "repay") /\ l \in at.todo
    /\ \/ /\ line = NoLine
          /\ Goes(h, next) /\ UNCHANGED advance
       \/ /\ line # NoLine /\ rest > 0
          /\ advance' = [advance EXCEPT ![l].balance = rest]
          /\ Goes(h, next)
       \/ /\ line # NoLine /\ rest = 0
          /\ advance' = [advance EXCEPT ![l] = [status |-> "closed", balance |-> 0]]
          /\ Goes(h, [next EXCEPT !.pc = "unwire"])
    /\ UNCHANGED <<day, structure, payslip, pricings, withheld>>

\* mutant: the deduction of a closed loan stays in the structure.
UnwireNothing(h) ==
    /\ Is(h, "unwire")
    /\ Goes(h, [handler[h] EXCEPT !.pc = "repay"])
    /\ UNCHANGED <<day, structure, advance, payslip, pricings, withheld>>

\* close_loan_deduction: the line goes, from today on.
Unwire(h) ==
    /\ Is(h, "unwire")
    /\ Upsert(NoLine)
    /\ Goes(h, [handler[h] EXCEPT !.pc = "repay"])
    /\ UNCHANGED <<day, advance, payslip, pricings, withheld>>

Repaid(h) ==
    /\ Is(h, "repay") /\ handler[h].todo = {}
    /\ Goes(h, Resting)
    /\ UNCHANGED <<day, advance, structure, payslip, pricings, withheld>>

Handles(h) ==
    \/ \E l \in Advances : Decide(h, l) \/ Repay(h, l)
    \/ \E p \in Periods : Price(h, p)
    \/ TurnDown(h) \/ Approve(h) \/ Wire(h) \/ Activate(h)
    \/ ListActive(h) \/ Unwire(h) \/ Repaid(h)

LoansNext ==
    \/ NextDay
    \/ \E l \in Advances : Borrow(l)
    \/ \E p \in Periods : FinalizePayslip(p)
    \/ \E h \in Handlers : Handles(h)

LoansSpec == LoansInit /\ [][LoansNext]_loansVars

-----------------------------------------------------------------------------
(* Properties                                                              *)

LoansTypeOK ==
    /\ day \in Days
    /\ advance \in [Advances -> Advance]
    /\ structure \in [Days -> Lines]
    /\ payslip \in [Periods -> Slip] /\ pricings \in [Periods -> 0 .. MaxPricings]
    /\ handler \in [Handlers -> Handling] /\ withheld \in Int

AtRest == \A h \in Handlers : Is(h, "idle")

\* What is outstanding is what was lent less what the payslips deducted: a balance
\* "drifting out of sync with actual deductions is a real correctness bug"
\* (backend/payroll/README.md; services.py, apply_loan_repayments).
BalanceInStep == AtRest => \A l \in Advances : advance[l].status \in {"active", "closed"} =>
    advance[l].balance = IF withheld >= Principal[l] THEN 0 ELSE Principal[l] - withheld

\* The salary structure deducts for a loan as long as one is ACTIVE and no longer:
\* approval wires the line in and the last instalment takes it out (services.py,
\* activate_loan and close_loan_deduction).
DeductedWhileActive == AtRest =>
    ((\E l \in Advances : advance[l].status = "active") <=> ActiveStructure(day) # NoLine)

\* A loan that is ACTIVE is not withdrawn: cancel, and reject, are "refused once the
\* loan is ACTIVE" (viewsets.py, LoanViewSet.cancel).
ActiveNotWithdrawn == [][\A l \in Advances :
    advance[l].status = "active" => advance'[l].status # "rejected"]_loansVars

\* No more is deducted for a loan than was lent: "Deduction of 2,500 against a 1,000
\* balance must take 1,000, not 2,500" (test_payroll_run_mechanics.py).
NotOverpaid == \A l \in Advances : advance[l].status = "closed" => withheld <= Principal[l]
=============================================================================
