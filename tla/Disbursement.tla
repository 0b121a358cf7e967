---------------------------- MODULE Disbursement ----------------------------
(***************************************************************************)
(* Paying a locked payroll run: backend/payroll/disbursement.py,           *)
(* PaymentBatchViewSet and the hold, pay and mark-paid actions of          *)
(* PayslipViewSet and PayrollRunViewSet.  One instruction per bank is      *)
(* built, handed to the bank, then acknowledged or failed.  build_payment_ *)
(* batches is one transaction; build_single_payment is a transaction that  *)
(* others may overtake (READ COMMITTED); every other handler reads a row   *)
(* and saves it later.  What the banks have been asked to pay is kept in   *)
(* `claims`, which the program itself does not record.                     *)
(***************************************************************************)
EXTENDS Naturals, FiniteSets

CONSTANTS
    Payslips,    \* the finalized payslips of the run
    ZeroNet,     \* those whose net pay is not positive
    Banks,       \* banks the employees name
    NoBank,      \* the bank details of the employee are incomplete
    Nothing,     \* no payslip or bank, in the record of an idle thread
    Sessions,    \* HTTP request threads of payroll users
    MaxBuilds,   \* bound: batch generations created
    MaxFiles,    \* bound: files handed to banks
    MaxMoves,    \* bound: employees who change bank
    MaxCrashes   \* bound: requests that die half way

ASSUME BoundsAssumption ==
    MaxBuilds \in Nat /\ MaxFiles \in Nat /\ MaxMoves \in Nat /\ MaxCrashes \in Nat
ASSUME DistinctAssumption ==
    ZeroNet \subseteq Payslips /\ NoBank \notin Banks /\ Nothing \notin Payslips \cup Banks

VARIABLES
    bank,        \* per payslip: the bank on the employee record, or NoBank
    held,        \* payslips with is_held
    paid,        \* payslips whose status is PAID (the others are FINALIZED)
    batch,       \* per bank: the run's PaymentBatch, NoBatch when there is none
    excluded,    \* payslips with a PaymentExclusion
    built,       \* build_payment_batches has succeeded at least once
    gens,        \* batch generations created: tells a rebuilt batch from the old
    copy,        \* per bank: the payslips in the file last downloaded, {} if none
    outdated,    \* <<bank, gen>> marked sent on a file that no longer listed its rows
    claims,      \* payments the banks have been asked for and have not refused
    files,       \* files handed to banks so far
    moves, crashes,
    th           \* per session: where its handler is and what it has read

handVars == <<copy, outdated>>
vars == <<bank, held, paid, batch, excluded, built, gens, handVars, claims, files, moves,
          crashes, th>>

BatchStatus == {"none", "draft", "sent", "acknowledged", "failed"}
Gens        == 0 .. MaxBuilds

\* `counted` are the items that total_amount and payslip_count add up.
Batch   == [gen : Gens, status : BatchStatus, items : SUBSET Payslips,
            counted : SUBSET Payslips]
NoBatch == [gen |-> 0, status |-> "none", items |-> {}, counted |-> {}]
Claim   == [slip : Payslips, bank : Banks, gen : Gens, file : 1 .. MaxFiles,
            by : {"email", "hand"}]

PCs    == {"idle", "pay", "email", "emailed", "sent", "fail", "ack", "acked",
           "hold", "release", "paid"}
Thread == [pc : PCs, slip : Payslips \cup {Nothing}, bank : Banks \cup {Nothing},
           gen : Gens, seen : SUBSET Payslips]
Idle   == [pc |-> "idle", slip |-> Nothing, bank |-> Nothing, gen |-> 0, seen |-> {}]

TypeOK ==
    /\ bank \in [Payslips -> Banks \cup {NoBank}]
    /\ held \subseteq Payslips /\ paid \subseteq Payslips
    /\ batch \in [Banks -> Batch]
    /\ excluded \subseteq Payslips /\ built \in BOOLEAN /\ gens \in Gens
    /\ copy \in [Banks -> SUBSET Payslips] /\ outdated \subseteq Banks \X Gens
    /\ claims \subseteq Claim /\ files \in 0 .. MaxFiles
    /\ moves \in Nat /\ crashes \in Nat
    /\ th \in [Sessions -> Thread]

-----------------------------------------------------------------------------

At(s, pc)        == th[s].pc = pc
Done(s)          == th' = [th EXCEPT ![s] = Idle]
Goto(s, pc)      == th' = [th EXCEPT ![s].pc = pc]
OnSlip(s, pc, p) == th' = [th EXCEPT ![s] = [Idle EXCEPT !.pc = pc, !.slip = p]]
OnBatch(s, pc, b) ==
    th' = [th EXCEPT ![s] = [pc |-> pc, slip |-> Nothing, bank |-> b,
                             gen |-> batch[b].gen, seen |-> batch[b].items]]

\* The batch row a handler has read still exists.
Mine(s) == batch[th[s].bank].gen = th[s].gen

\* save(update_fields=["status", ...]): raises when the row is gone.
SaveStatus(s, status) ==
    batch' = IF Mine(s) THEN [batch EXCEPT ![th[s].bank].status = status] ELSE batch

\* Handing a file over asks the bank for what the file lists.
HandOver(b, gen, items, by) ==
    /\ files < MaxFiles /\ files' = files + 1
    /\ claims' = claims \cup
         {[slip |-> p, bank |-> b, gen |-> gen, file |-> files + 1, by |-> by] : p \in items}

-----------------------------------------------------------------------------
(* Building *)

\* _exclusion_reason is None.
Payable(p) == p \notin held /\ p \notin paid /\ p \notin ZeroNet /\ bank[p] # NoBank

InstructedConfirmed == {b \in Banks : batch[b].status = "acknowledged"}    \* mutant
Instructed == {b \in Banks : batch[b].status \notin {"none", "draft"}}

ExcludedUnpayable == {p \in Payslips : ~Payable(p)}    \* mutant
Excluded == {p \in Payslips : ~Payable(p) \/ bank[p] \in Instructed}

\* build_payment_batches: drafts and exclusions are replaced, other batches kept.
\* Its DELETE waits for an open build_single_payment and then fails.
Build(s) ==
    LET group(b) == {p \in Payslips : Payable(p) /\ bank[p] = b} IN
    /\ At(s, "idle") /\ gens < MaxBuilds
    /\ \A other \in Sessions : ~At(other, "pay")
    /\ gens' = gens + 1
    /\ batch' = [b \in Banks |->
                   IF b \in Instructed THEN batch[b]
                   ELSE IF group(b) = {} THEN NoBatch
                   ELSE [gen |-> gens + 1, status |-> "draft",
                         items |-> group(b), counted |-> group(b)]]
    /\ excluded' = Excluded
    /\ built' = TRUE
    /\ UNCHANGED <<handVars, bank, held, paid, claims, files, moves, crashes, th>>

\* build_single_payment up to the aggregate of its _refresh_batch_totals, which
\* sees the committed items and its own.
PayBegin(s, p) ==
    LET b == bank[p] IN
    /\ At(s, "idle") /\ Payable(p)
    /\ gens + Cardinality({o \in Sessions : At(o, "pay")}) < MaxBuilds
    /\ batch[b].status \in {"none", "draft"} /\ p \notin batch[b].items
    /\ th' = [th EXCEPT ![s] = [pc |-> "pay", slip |-> p, bank |-> b,
                                gen |-> batch[b].gen, seen |-> batch[b].items \cup {p}]]
    /\ UNCHANGED <<handVars, bank, held, paid, batch, excluded, built, gens, claims, files,
                   moves, crashes>>

Joined(s) ==
    [batch[th[s].bank] EXCEPT !.items = @ \cup {th[s].slip}, !.counted = th[s].seen]

\* Its commit; unique_batch_per_bank_per_run and unique_payslip_per_batch refuse
\* the later of two that insert the same row.
PayCommit(s) ==
    LET b == th[s].bank
        p == th[s].slip IN
    /\ At(s, "pay")
    /\ IF ~Mine(s) \/ p \in batch[b].items
       THEN UNCHANGED <<batch, excluded, gens>>
       ELSE /\ excluded' = excluded \ {p}
            /\ IF th[s].gen # 0
               THEN UNCHANGED gens /\ batch' = [batch EXCEPT ![b] = Joined(s)]
               ELSE /\ gens < MaxBuilds
                    /\ gens' = gens + 1
                    /\ batch' = [batch EXCEPT ![b] =
                                   [gen |-> gens + 1, status |-> "draft",
                                    items |-> {p}, counted |-> {p}]]
    /\ Done(s)
    /\ UNCHANGED <<handVars, bank, held, paid, built, claims, files, moves, crashes>>

-----------------------------------------------------------------------------
(* Handing over *)

\* email_batch_to_bank renders the file from the items it has read.
EmailCheck(s, b) ==
    /\ At(s, "idle") /\ batch[b].status = "draft" /\ batch[b].counted # {}
    /\ OnBatch(s, "email", b)
    /\ UNCHANGED <<handVars, bank, held, paid, batch, excluded, built, gens, claims, files,
                   moves, crashes>>

EmailSend(s) ==
    /\ At(s, "email")
    /\ HandOver(th[s].bank, th[s].gen, th[s].seen, "email")
    /\ Goto(s, "emailed")
    /\ UNCHANGED <<handVars, bank, held, paid, batch, excluded, built, gens, moves, crashes>>

\* BankDeliveryError: the batch stays a draft.  The mutant marks it sent.
EmailFailMarksSent(s) ==
    /\ At(s, "email") /\ SaveStatus(s, "sent") /\ Done(s)
    /\ UNCHANGED <<handVars, bank, held, paid, excluded, built, gens, claims, files, moves, crashes>>
EmailFail(s) ==
    /\ At(s, "email") /\ Done(s)
    /\ UNCHANGED <<handVars, bank, held, paid, batch, excluded, built, gens, claims, files,
                   moves, crashes>>

EmailSave(s) ==
    /\ At(s, "emailed") /\ SaveStatus(s, "sent") /\ Done(s)
    /\ UNCHANGED <<handVars, bank, held, paid, excluded, built, gens, claims, files, moves, crashes>>

\* download: the file as the rows are now.  Its status is not looked at and stays;
\* of a batch that is no draft the file is of no use to mark_sent.
Download(s, b) ==
    /\ At(s, "idle") /\ batch[b].status = "draft" /\ files < MaxFiles
    /\ copy' = [copy EXCEPT ![b] = batch[b].items]
    /\ UNCHANGED <<outdated, bank, held, paid, batch, excluded, built, gens, claims, files,
                   moves, crashes, th>>

\* mark_sent: the file downloaded last has been handed over by hand.  The code
\* neither knows that file nor compares it with the rows.
MarkSentCheck(s, b) ==
    /\ At(s, "idle") /\ batch[b].status = "draft" /\ copy[b] # {}
    /\ HandOver(b, batch[b].gen, copy[b], "hand")
    /\ outdated' = IF copy[b] = batch[b].items THEN outdated
                   ELSE outdated \cup {<<b, batch[b].gen>>}
    /\ copy' = [copy EXCEPT ![b] = {}]
    /\ OnBatch(s, "sent", b)
    /\ UNCHANGED <<bank, held, paid, batch, excluded, built, gens, moves, crashes>>

MarkSentSave(s) ==
    /\ At(s, "sent") /\ SaveStatus(s, "sent") /\ Done(s)
    /\ UNCHANGED <<handVars, bank, held, paid, excluded, built, gens, claims, files, moves, crashes>>

-----------------------------------------------------------------------------
(* The bank's answer *)

\* mark_failed: from every state but ACKNOWLEDGED.  The bank pays nothing.
MarkFailedCheck(s, b) ==
    /\ At(s, "idle") /\ batch[b].status \in {"draft", "sent", "failed"}
    /\ OnBatch(s, "fail", b)
    /\ UNCHANGED <<handVars, bank, held, paid, batch, excluded, built, gens, claims, files,
                   moves, crashes>>

MarkFailedSave(s) ==
    /\ At(s, "fail") /\ SaveStatus(s, "failed") /\ Done(s)
    /\ claims' = {c \in claims : c.bank # th[s].bank \/ c.gen # th[s].gen}
    /\ UNCHANGED <<handVars, bank, held, paid, excluded, built, gens, files, moves, crashes>>

AckCheck(s, b) ==
    /\ At(s, "idle") /\ batch[b].status = "sent"
    /\ OnBatch(s, "ack", b)
    /\ UNCHANGED <<handVars, bank, held, paid, batch, excluded, built, gens, claims, files,
                   moves, crashes>>

\* The row is still there: only drafts are deleted and no batch returns to draft.
AckSave(s) ==
    /\ At(s, "ack") /\ SaveStatus(s, "acknowledged") /\ Goto(s, "acked")
    /\ UNCHANGED <<handVars, bank, held, paid, excluded, built, gens, claims, files, moves, crashes>>

\* The UPDATE takes the batch's items as they are now, held ones included.
SettledUnheld(s) == batch[th[s].bank].items \ held    \* mutant
Settled(s) == batch[th[s].bank].items

AckPay(s) ==
    /\ At(s, "acked")
    /\ paid' = paid \cup Settled(s)
    /\ Done(s)
    /\ UNCHANGED <<handVars, bank, held, batch, excluded, built, gens, claims, files, moves, crashes>>

-----------------------------------------------------------------------------
(* The payslip itself *)

Hold(s, p) ==
    /\ At(s, "idle") /\ p \notin paid
    /\ OnSlip(s, "hold", p)
    /\ UNCHANGED <<handVars, bank, held, paid, batch, excluded, built, gens, claims, files,
                   moves, crashes>>

HoldSave(s) ==
    /\ At(s, "hold") /\ held' = held \cup {th[s].slip} /\ Done(s)
    /\ UNCHANGED <<handVars, bank, paid, batch, excluded, built, gens, claims, files, moves, crashes>>

Release(s, p) ==
    /\ At(s, "idle") /\ p \in held
    /\ OnSlip(s, "release", p)
    /\ UNCHANGED <<handVars, bank, held, paid, batch, excluded, built, gens, claims, files,
                   moves, crashes>>

ReleaseSave(s) ==
    /\ At(s, "release") /\ held' = held \ {th[s].slip} /\ Done(s)
    /\ UNCHANGED <<handVars, bank, paid, batch, excluded, built, gens, claims, files, moves, crashes>>

\* mark_paid asks for FINALIZED only: a held payslip is accepted.
MarkPaid(s, p) ==
    /\ At(s, "idle") /\ p \notin paid
    /\ OnSlip(s, "paid", p)
    /\ UNCHANGED <<handVars, bank, held, paid, batch, excluded, built, gens, claims, files,
                   moves, crashes>>

MarkPaidSave(s) ==
    /\ At(s, "paid") /\ paid' = paid \cup {th[s].slip} /\ Done(s)
    /\ UNCHANGED <<handVars, bank, held, batch, excluded, built, gens, claims, files, moves, crashes>>

\* mark_all_paid: one UPDATE, the held ones left out.
MarkAllPaid(s) ==
    /\ At(s, "idle")
    /\ paid' = paid \cup (Payslips \ held)
    /\ UNCHANGED <<handVars, bank, held, batch, excluded, built, gens, claims, files, moves, crashes, th>>

-----------------------------------------------------------------------------
(* The environment: employee records, and requests that die *)

FixDetails(p) ==
    /\ bank[p] = NoBank
    /\ \E b \in Banks : bank' = [bank EXCEPT ![p] = b]
    /\ UNCHANGED <<handVars, held, paid, batch, excluded, built, gens, claims, files, moves, crashes, th>>

MoveBank(p) ==
    /\ moves < MaxMoves /\ bank[p] # NoBank
    /\ moves' = moves + 1
    /\ \E b \in Banks \ {bank[p]} : bank' = [bank EXCEPT ![p] = b]
    /\ UNCHANGED <<handVars, held, paid, batch, excluded, built, gens, claims, files, crashes, th>>

Crash(s) ==
    /\ crashes < MaxCrashes /\ ~At(s, "idle")
    /\ crashes' = crashes + 1
    /\ Done(s)
    /\ UNCHANGED <<handVars, bank, held, paid, batch, excluded, built, gens, claims, files, moves>>

-----------------------------------------------------------------------------

Init ==
    /\ bank \in [Payslips -> Banks \cup {NoBank}]
    /\ held = {} /\ paid = {}
    /\ batch = [b \in Banks |-> NoBatch]
    /\ excluded = {} /\ built = FALSE /\ gens = 0
    /\ copy = [b \in Banks |-> {}] /\ outdated = {}
    /\ claims = {} /\ files = 0 /\ moves = 0 /\ crashes = 0
    /\ th = [s \in Sessions |-> Idle]

OnRun(s) == Build(s) \/ MarkAllPaid(s)

OnPayslip(s) ==
    \/ \E p \in Payslips : PayBegin(s, p) \/ Hold(s, p) \/ Release(s, p) \/ MarkPaid(s, p)
    \/ PayCommit(s) \/ HoldSave(s) \/ ReleaseSave(s) \/ MarkPaidSave(s)

OnInstruction(s) ==
    \/ \E b \in Banks : \/ EmailCheck(s, b) \/ Download(s, b) \/ MarkSentCheck(s, b)
                        \/ MarkFailedCheck(s, b) \/ AckCheck(s, b)
    \/ EmailSend(s) \/ EmailFail(s) \/ EmailSave(s) \/ MarkSentSave(s)
    \/ MarkFailedSave(s) \/ AckSave(s) \/ AckPay(s)

Next ==
    \/ \E s \in Sessions : OnRun(s) \/ OnPayslip(s) \/ OnInstruction(s) \/ Crash(s)
    \/ \E p \in Payslips : FixDetails(p) \/ MoveBank(p)

Spec == Init /\ [][Next]_vars

-----------------------------------------------------------------------------
(* What holds for any number of users *)

\* After a build everybody on the run is in an instruction or listed as left out
\* (disbursement.py: "a file that silently omits three people is how somebody
\* goes unpaid for a month").
NobodyMissing ==
    built => \A p \in Payslips : p \in excluded \/ \E b \in Banks : p \in batch[b].items

-----------------------------------------------------------------------------
(* What one user at a time may rely on *)

PaidForOnce == \A c, d \in claims : c.slip = d.slip => c = d

\* No payslip is asked for twice, as long as nobody has changed bank and no
\* request died between the e-mail and its record: a bank that has its
\* instruction gets no other for the run (build_payment_batches skips
\* sent_banks, email and mark-sent accept a draft only).
OneInstruction == moves = 0 /\ crashes = 0 => PaidForOnce

\* The items of the instruction are those in the files its bank was handed.
SaysWhatWasSent(b) ==
    batch[b].items = {c.slip : c \in {d \in claims : d.bank = b /\ d.gen = batch[b].gen}}

\* A sent instruction lists what the bank was asked for ("the instruction must
\* keep saying what was actually sent to the bank", PaymentBatch), whether it went by
\* e-mail or by hand, unless its rows had changed between download and mark_sent.
FileMatches ==
    \A b \in Banks : batch[b].status \in {"sent", "acknowledged"} =>
        <<b, batch[b].gen>> \in outdated \/ SaysWhatWasSent(b)

\* The same without the exception; the code does not keep it.
SentIsWhatWasSent ==
    \A b \in Banks : batch[b].status \in {"sent", "acknowledged"} => SaysWhatWasSent(b)

\* Everybody in an acknowledged instruction is marked paid once the request that
\* recorded the acknowledgement has ended, if it did not die between the two.
AckPays ==
    crashes = 0 => \A b \in Banks : batch[b].status = "acknowledged" =>
        batch[b].items \subseteq paid \/ \E s \in Sessions : At(s, "acked")
=============================================================================
