------------------------- MODULE DisbursementProofs -------------------------
(***************************************************************************)
(* Theorems about Disbursement, for every number of payslips, banks, users,*)
(* rebuilds, files, moves and crashes.                                     *)
(***************************************************************************)
EXTENDS Disbursement, TLAPS

USE DEF handVars

\* A handler works on a payslip and a bank of the run.
SlipPCs == {"pay", "hold", "release", "paid"}
BankPCs == {"pay", "email", "emailed", "sent", "fail", "ack", "acked"}
Fits(r) == (r.pc \in SlipPCs => r.slip \in Payslips) /\ (r.pc \in BankPCs => r.bank \in Banks)
Working == \A s \in Sessions : Fits(th[s])
\* A bank without an instruction has no items: what a committed insert starts from.
Fresh == \A b \in Banks : batch[b].gen = 0 => batch[b].items = {}
IndType == TypeOK /\ Working /\ Fresh
TypedThreads == th \in [Sessions -> Thread] /\ Working

\* The forms a handler's record takes keep the records typed and fitting.
LEMMA ThreadTypes ==
    ASSUME IndType, NEW s \in Sessions
    PROVE  /\ Done(s) => TypedThreads'
           /\ \A pc \in {"emailed", "acked"} :
                 th[s].pc \in BankPCs /\ Goto(s, pc) => TypedThreads'
           /\ \A pc \in {"hold", "release", "paid"}, p \in Payslips :
                 OnSlip(s, pc, p) => TypedThreads'
           /\ \A pc \in {"email", "sent", "fail", "ack"}, b \in Banks :
                 OnBatch(s, pc, b) => TypedThreads'
<1> th \in [Sessions -> Thread] /\ batch \in [Banks -> Batch] /\ Working
  BY DEF IndType, TypeOK
<1>1. Idle \in Thread /\ Idle.pc = "idle"
  BY BoundsAssumption DEF Idle, Thread, PCs, Gens
<1>2. ASSUME NEW r \in Thread, Fits(r), th' = [th EXCEPT ![s] = r]
      PROVE  TypedThreads'
  <2>1. th' \in [Sessions -> Thread] /\ \A t \in Sessions : th'[t] = r \/ th'[t] = th[t]
    BY <1>2
  <2>2. Working'
    BY <1>2, <2>1 DEF Working, Fits
  <2> QED
    BY <2>1, <2>2 DEF TypedThreads
<1>3. Done(s) => TypedThreads'
  <2>1. Fits(Idle)
    BY <1>1 DEF Fits, SlipPCs, BankPCs
  <2> QED
    BY <1>1, <1>2, <2>1 DEF Done
<1>4. ASSUME NEW pc \in {"emailed", "acked"}, th[s].pc \in BankPCs, Goto(s, pc)
      PROVE  TypedThreads'
  <2> DEFINE r == [th[s] EXCEPT !.pc = pc]
  <2>1. r \in Thread /\ r.pc = pc /\ r.bank = th[s].bank
    BY DEF Thread, PCs
  <2>2. Fits(r)
    BY <1>4, <2>1 DEF Fits, SlipPCs, Working
  <2> QED
    BY <1>2, <1>4, <2>1, <2>2 DEF Goto
<1>5. ASSUME NEW pc \in {"hold", "release", "paid"}, NEW p \in Payslips, OnSlip(s, pc, p)
      PROVE  TypedThreads'
  <2> DEFINE r == [Idle EXCEPT !.pc = pc, !.slip = p]
  <2>1. r \in Thread /\ Fits(r)
    BY <1>1 DEF Thread, Idle, PCs, Fits, BankPCs
  <2> QED
    BY <1>2, <1>5, <2>1 DEF OnSlip
<1>6. ASSUME NEW pc \in {"email", "sent", "fail", "ack"}, NEW b \in Banks, OnBatch(s, pc, b)
      PROVE  TypedThreads'
  <2> DEFINE r == [pc |-> pc, slip |-> Nothing, bank |-> b,
                   gen |-> batch[b].gen, seen |-> batch[b].items]
  <2>1. r \in Thread /\ Fits(r)
    BY DEF Thread, Batch, PCs, Fits, SlipPCs
  <2> QED
    BY <1>2, <1>6, <2>1 DEF OnBatch
<1> QED
  BY <1>3, <1>4, <1>5, <1>6

\* save(update_fields) changes the status of a batch and nothing else of it.
LEMMA StatusOnly ==
    ASSUME batch \in [Banks -> Batch], NEW s \in Sessions, NEW st \in BatchStatus,
           SaveStatus(s, st)
    PROVE  /\ batch' \in [Banks -> Batch]
           /\ \A b \in Banks : batch'[b].items = batch[b].items /\ batch'[b].gen = batch[b].gen
<1>1. CASE th[s].bank \in Banks
  <2>1. [batch[th[s].bank] EXCEPT !.status = st] \in Batch
    BY <1>1 DEF Batch
  <2>2. \/ batch' = batch
        \/ batch' = [batch EXCEPT ![th[s].bank] = [batch[th[s].bank] EXCEPT !.status = st]]
    BY <1>1 DEF SaveStatus
  <2> QED
    BY <1>1, <2>1, <2>2 DEF Batch
<1>2. CASE th[s].bank \notin Banks
  BY <1>2 DEF SaveStatus
<1> QED
  BY <1>1, <1>2

LEMMA HandOverTyped ==
    ASSUME claims \subseteq Claim, files \in 0 .. MaxFiles, NEW b \in Banks, NEW g \in Gens,
           NEW items \in SUBSET Payslips, NEW by \in {"email", "hand"}, HandOver(b, g, items, by)
    PROVE  claims' \subseteq Claim /\ files' \in 0 .. MaxFiles
<1>1. files + 1 \in 1 .. MaxFiles
  BY BoundsAssumption DEF HandOver
<1> QED
  BY <1>1 DEF HandOver, Claim

\* What build_single_payment leaves: the items of a batch only grow.
LEMMA PayCommitEffect ==
    ASSUME IndType, NEW s \in Sessions, PayCommit(s)
    PROVE  /\ batch' \in [Banks -> Batch] /\ gens' \in Gens /\ TypedThreads' /\ Fresh'
           /\ excluded' \subseteq excluded
           /\ \A b \in Banks : batch[b].items \subseteq batch'[b].items
           /\ \A p \in excluded \ excluded' : \E b \in Banks : p \in batch'[b].items
<1> DEFINE b0 == th[s].bank
           p0 == th[s].slip
<1>1. b0 \in Banks /\ p0 \in Payslips /\ th[s] \in Thread /\ batch \in [Banks -> Batch]
  BY DEF IndType, TypeOK, Working, Fits, PayCommit, At, SlipPCs, BankPCs
<1>2. TypedThreads'
  BY ThreadTypes DEF PayCommit
<1>3. CASE UNCHANGED <<batch, excluded, gens>>
  BY <1>2, <1>3 DEF IndType, TypeOK, Fresh
<1>4. CASE /\ excluded' = excluded \ {p0} /\ Mine(s)
           /\ th[s].gen # 0 /\ UNCHANGED gens /\ batch' = [batch EXCEPT ![b0] = Joined(s)]
  <2>1. Joined(s) \in Batch
    BY <1>1 DEF Joined, Batch, Thread
  <2>2. Joined(s).items = batch[b0].items \cup {p0} /\ Joined(s).gen = batch[b0].gen
    BY <1>1 DEF Joined, Batch
  <2>3. Fresh'
    BY <1>1, <1>4, <2>2 DEF IndType, Fresh, Mine
  <2> QED
    BY <1>1, <1>2, <1>4, <2>1, <2>2, <2>3 DEF IndType, TypeOK
<1>5. CASE /\ excluded' = excluded \ {p0} /\ Mine(s)
           /\ th[s].gen = 0 /\ gens < MaxBuilds /\ gens' = gens + 1
           /\ batch' = [batch EXCEPT ![b0] = [gen |-> gens + 1, status |-> "draft",
                                              items |-> {p0}, counted |-> {p0}]]
  <2>1. gens + 1 \in Gens
    BY <1>5, BoundsAssumption DEF IndType, TypeOK, Gens
  <2>2. [gen |-> gens + 1, status |-> "draft", items |-> {p0}, counted |-> {p0}] \in Batch
    BY <1>1, <2>1 DEF Batch, BatchStatus
  <2>3. batch[b0].items = {}
    BY <1>1, <1>5 DEF IndType, Fresh, Mine
  <2>4. Fresh'
    BY <1>1, <1>5, <2>1 DEF IndType, TypeOK, Fresh, Gens
  <2> QED
    BY <1>1, <1>2, <1>5, <2>1, <2>2, <2>3, <2>4 DEF IndType, TypeOK
<1> QED
  BY <1>3, <1>4, <1>5 DEF PayCommit

\* A build keeps every instruction a bank has and leaves nobody out.
LEMMA BuildEffect ==
    ASSUME IndType, NEW s \in Sessions, Build(s)
    PROVE  /\ batch' \in [Banks -> Batch] /\ gens' \in Gens /\ Fresh'
           /\ excluded' \subseteq Payslips
           /\ \A p \in Payslips : p \in excluded' \/ \E b \in Banks : p \in batch'[b].items
<1> DEFINE group(b) == {p \in Payslips : Payable(p) /\ bank[p] = b}
           fresh(b) == [gen |-> gens + 1, status |-> "draft",
                        items |-> group(b), counted |-> group(b)]
<1>1. /\ batch \in [Banks -> Batch] /\ bank \in [Payslips -> Banks \cup {NoBank}]
      /\ gens \in Nat /\ gens + 1 \in Gens
  BY BoundsAssumption DEF IndType, TypeOK, Gens, Build
<1>2. batch' = [b \in Banks |-> IF b \in Instructed THEN batch[b]
                                ELSE IF group(b) = {} THEN NoBatch ELSE fresh(b)]
  BY DEF Build
<1>3. NoBatch \in Batch /\ \A b \in Banks : fresh(b) \in Batch
  BY <1>1, BoundsAssumption DEF NoBatch, Batch, BatchStatus, Gens
<1>4. batch' \in [Banks -> Batch]
  BY <1>1, <1>2, <1>3
<1>5. \A b \in Banks \ Instructed : batch'[b].items = group(b)
  BY <1>2 DEF NoBatch
<1>6. Fresh'
  BY <1>1, <1>2 DEF Fresh, IndType, NoBatch
<1>7. \A p \in Payslips :
         p \in excluded' \/ (bank[p] \in Banks /\ p \in batch'[bank[p]].items)
  BY <1>1, <1>5 DEF Build, Excluded, Payable
<1> QED
  BY <1>1, <1>4, <1>6, <1>7 DEF Build, Excluded

-----------------------------------------------------------------------------

\* Every variable keeps its type; a batch row that was never created stays empty.
LEMMA IndTypeInit == ASSUME Init PROVE IndType
<1>1. NoBatch \in Batch /\ NoBatch.items = {}
  BY BoundsAssumption DEF NoBatch, Batch, BatchStatus, Gens
<1>2. Idle \in Thread /\ Fits(Idle)
  BY BoundsAssumption DEF Idle, Thread, PCs, Gens, Fits, SlipPCs, BankPCs
<1>3. built \in BOOLEAN
  BY DEF Init
<1>4. 0 \in Gens /\ 0 \in 0 .. MaxFiles
  BY BoundsAssumption DEF Gens
<1>5. batch \in [Banks -> Batch] /\ Fresh /\ th \in [Sessions -> Thread] /\ Working
  BY <1>1, <1>2 DEF Init, Fresh, Working
<1> QED
  BY <1>3, <1>4, <1>5 DEF Init, IndType, TypeOK

\* Every action keeps the types, the fit of a handler record to its place, and Fresh.
LEMMA IndTypeStep == ASSUME IndType, [Next]_vars PROVE IndType'
<1> USE DEF IndType
<1>0. TypeOK /\ Working /\ Fresh /\ batch \in [Banks -> Batch]
  BY DEF TypeOK
<1>1. ASSUME UNCHANGED vars PROVE IndType'
  BY <1>0, <1>1 DEF vars, TypeOK, Working, Fits, Fresh
<1>2. ASSUME NEW s \in Sessions, OnRun(s) PROVE IndType'
  <2>1. CASE Build(s)
    <3>1. UNCHANGED <<handVars, bank, held, paid, claims, files, moves, crashes, th>> /\ built' = TRUE
      BY <2>1 DEF Build
    <3> QED
      BY <1>0, <2>1, <3>1, BuildEffect DEF TypeOK, Working, Fits
  <2>2. CASE MarkAllPaid(s)
    BY <1>0, <2>2 DEF MarkAllPaid, TypeOK, Working, Fits, Fresh
  <2> QED
    BY <1>2, <2>1, <2>2 DEF OnRun
<1>3. ASSUME NEW s \in Sessions, OnPayslip(s) PROVE IndType'
  <2>1. ASSUME NEW p \in Payslips, PayBegin(s, p) PROVE IndType'
    <3> DEFINE r == [pc |-> "pay", slip |-> p, bank |-> bank[p], gen |-> batch[bank[p]].gen,
                     seen |-> batch[bank[p]].items \cup {p}]
    <3>1. bank[p] \in Banks /\ batch[bank[p]] \in Batch
      BY <1>0, <2>1 DEF PayBegin, Payable, TypeOK
    <3>2. r \in Thread /\ Fits(r) /\ th' = [th EXCEPT ![s] = r]
      BY <2>1, <3>1 DEF PayBegin, Thread, PCs, Batch, Fits
    <3>3. th' \in [Sessions -> Thread] /\ \A t \in Sessions : th'[t] = r \/ th'[t] = th[t]
      BY <1>0, <3>2 DEF TypeOK
    <3>4. Working'
      BY <1>0, <3>2, <3>3 DEF Working, Fits
    <3> QED
      BY <1>0, <2>1, <3>3, <3>4 DEF PayBegin, TypeOK, Fresh
  <2>2. ASSUME NEW p \in Payslips, Hold(s, p) \/ Release(s, p) \/ MarkPaid(s, p) PROVE IndType'
    <3>1. TypedThreads'
      BY <2>2, ThreadTypes DEF Hold, Release, MarkPaid
    <3> QED
      BY <1>0, <2>2, <3>1 DEF Hold, Release, MarkPaid, TypeOK, Fresh, TypedThreads
  <2>3. CASE PayCommit(s)
    <3>1. UNCHANGED <<handVars, bank, held, paid, built, claims, files, moves, crashes>>
      BY <2>3 DEF PayCommit
    <3> QED
      BY <1>0, <2>3, <3>1, PayCommitEffect DEF TypeOK, TypedThreads
  <2>4. CASE HoldSave(s) \/ ReleaseSave(s) \/ MarkPaidSave(s)
    <3>1. th[s].slip \in Payslips /\ TypedThreads'
      BY <1>0, <2>4, ThreadTypes
      DEF HoldSave, ReleaseSave, MarkPaidSave, At, Working, Fits, SlipPCs
    <3> QED
      BY <1>0, <2>4, <3>1 DEF HoldSave, ReleaseSave, MarkPaidSave, TypeOK, Fresh, TypedThreads
  <2> QED
    BY <1>3, <2>1, <2>2, <2>3, <2>4 DEF OnPayslip
<1>4. ASSUME NEW s \in Sessions, OnInstruction(s) PROVE IndType'
  <2>1. ASSUME NEW b \in Banks,
               EmailCheck(s, b) \/ MarkFailedCheck(s, b) \/ AckCheck(s, b)
        PROVE  IndType'
    <3>1. TypedThreads'
      BY <2>1, ThreadTypes DEF EmailCheck, MarkFailedCheck, AckCheck
    <3> QED
      BY <1>0, <2>1, <3>1
      DEF EmailCheck, MarkFailedCheck, AckCheck, TypeOK, Fresh, TypedThreads
  <2>2. ASSUME NEW b \in Banks, MarkSentCheck(s, b) PROVE IndType'
    <3>1. batch[b].gen \in Gens /\ batch[b].items \in SUBSET Payslips
      BY <1>0 DEF Batch
    <3>2. copy[b] \in SUBSET Payslips /\ copy' \in [Banks -> SUBSET Payslips]
          /\ outdated' \subseteq Banks \X Gens
      BY <1>0, <2>2, <3>1 DEF MarkSentCheck, TypeOK
    <3>3. TypedThreads' /\ claims' \subseteq Claim /\ files' \in 0 .. MaxFiles
      BY <1>0, <2>2, <3>1, <3>2, ThreadTypes, HandOverTyped DEF MarkSentCheck, TypeOK
    <3> QED
      BY <1>0, <2>2, <3>2, <3>3 DEF MarkSentCheck, TypeOK, Fresh, TypedThreads
  <2>d. ASSUME NEW b \in Banks, Download(s, b) PROVE IndType'
    <3>1. copy' \in [Banks -> SUBSET Payslips]
      BY <1>0, <2>d DEF Download, TypeOK, Batch
    <3> QED
      BY <1>0, <2>d, <3>1 DEF Download, TypeOK, Working, Fits, Fresh
  <2>3. CASE EmailSend(s)
    <3>1. th[s].bank \in Banks /\ th[s].gen \in Gens /\ th[s].seen \in SUBSET Payslips
          /\ th[s].pc \in BankPCs
      BY <1>0, <2>3 DEF EmailSend, At, Working, Fits, BankPCs, TypeOK, Thread
    <3>2. TypedThreads' /\ claims' \subseteq Claim /\ files' \in 0 .. MaxFiles
      BY <1>0, <2>3, <3>1, ThreadTypes, HandOverTyped DEF EmailSend, TypeOK
    <3> QED
      BY <1>0, <2>3, <3>2 DEF EmailSend, TypeOK, Fresh, TypedThreads
  <2>4. CASE EmailFail(s)
    BY <1>0, <2>4, ThreadTypes DEF EmailFail, TypeOK, Fresh, TypedThreads
  <2>5. ASSUME NEW st \in BatchStatus, SaveStatus(s, st)
        PROVE  batch' \in [Banks -> Batch] /\ Fresh'
    BY <1>0, <2>5, StatusOnly DEF Fresh
  <2>6. CASE EmailSave(s) \/ MarkSentSave(s)
    <3>1. batch' \in [Banks -> Batch] /\ Fresh' /\ TypedThreads'
      BY <2>5, <2>6, ThreadTypes DEF EmailSave, MarkSentSave, BatchStatus
    <3> QED
      BY <1>0, <2>6, <3>1 DEF EmailSave, MarkSentSave, TypeOK, TypedThreads
  <2>7. CASE MarkFailedSave(s)
    <3>1. batch' \in [Banks -> Batch] /\ Fresh' /\ TypedThreads'
      BY <2>5, <2>7, ThreadTypes DEF MarkFailedSave, BatchStatus
    <3> QED
      BY <1>0, <2>7, <3>1 DEF MarkFailedSave, TypeOK, TypedThreads
  <2>8. CASE AckSave(s)
    <3>1. batch' \in [Banks -> Batch] /\ Fresh' /\ TypedThreads'
      BY <1>0, <2>5, <2>8, ThreadTypes DEF AckSave, BatchStatus, At, BankPCs
    <3> QED
      BY <1>0, <2>8, <3>1 DEF AckSave, TypeOK, TypedThreads
  <2>9. CASE AckPay(s)
    <3>1. Settled(s) \subseteq Payslips /\ TypedThreads'
      BY <1>0, <2>9, ThreadTypes DEF AckPay, At, Working, Fits, BankPCs, Settled, Batch
    <3> QED
      BY <1>0, <2>9, <3>1 DEF AckPay, TypeOK, Fresh, TypedThreads
  <2> QED
    BY <1>4, <2>1, <2>2, <2>d, <2>3, <2>4, <2>6, <2>7, <2>8, <2>9 DEF OnInstruction
<1>5. ASSUME NEW s \in Sessions, Crash(s) PROVE IndType'
  BY <1>0, <1>5, ThreadTypes DEF Crash, TypeOK, Fresh, TypedThreads
<1>6. ASSUME NEW p \in Payslips, FixDetails(p) \/ MoveBank(p) PROVE IndType'
  BY <1>0, <1>6 DEF FixDetails, MoveBank, TypeOK, Working, Fits, Fresh
<1> QED
  BY <1>1, <1>2, <1>3, <1>4, <1>5, <1>6 DEF Next

\* Every variable of the disbursement keeps its type whatever users do at once.
THEOREM TypeCorrect == Spec => []TypeOK
<1>1. Init => IndType
  BY IndTypeInit
<1>2. IndType /\ [Next]_vars => IndType'
  BY IndTypeStep
<1>3. IndType => TypeOK
  BY DEF IndType
<1> QED
  BY <1>1, <1>2, <1>3, PTL DEF Spec

-----------------------------------------------------------------------------

\* Apart from a build and a single payment, no step of anybody touches who is in
\* an instruction and who is listed as left out.
LEMMA MembershipKept ==
    ASSUME IndType, NEW s \in Sessions,
           OnRun(s) \/ OnPayslip(s) \/ OnInstruction(s) \/ Crash(s)
           \/ (\E p \in Payslips : FixDetails(p) \/ MoveBank(p)),
           ~Build(s), ~PayCommit(s)
    PROVE  /\ excluded' = excluded /\ built' = built
           /\ \A b \in Banks : batch'[b].items = batch[b].items
<1>0. batch \in [Banks -> Batch] /\ BatchStatus = {"none", "draft", "sent", "acknowledged", "failed"}
  BY DEF IndType, TypeOK, BatchStatus
<1>1. CASE OnRun(s)
  BY <1>1 DEF OnRun, MarkAllPaid
<1>2. CASE OnPayslip(s)
  BY <1>2 DEF OnPayslip, PayBegin, Hold, Release, MarkPaid, HoldSave, ReleaseSave, MarkPaidSave
<1>3. CASE OnInstruction(s)
  <2>1. ASSUME NEW st \in BatchStatus, SaveStatus(s, st)
        PROVE  \A b \in Banks : batch'[b].items = batch[b].items
    BY <1>0, <2>1, StatusOnly
  <2>2. \A st \in {"sent", "failed", "acknowledged"} : SaveStatus(s, st) =>
          \A b \in Banks : batch'[b].items = batch[b].items
    BY <1>0, <2>1
  <2>3. CASE \E b \in Banks : \/ EmailCheck(s, b) \/ Download(s, b) \/ MarkSentCheck(s, b)
                              \/ MarkFailedCheck(s, b) \/ AckCheck(s, b)
    BY <2>3 DEF EmailCheck, Download, MarkSentCheck, MarkFailedCheck, AckCheck
  <2>4. CASE EmailSend(s) \/ EmailFail(s) \/ AckPay(s)
    BY <2>4 DEF EmailSend, EmailFail, AckPay
  <2>5. CASE EmailSave(s) \/ MarkSentSave(s) \/ MarkFailedSave(s) \/ AckSave(s)
    BY <2>2, <2>5 DEF EmailSave, MarkSentSave, MarkFailedSave, AckSave
  <2> QED
    BY <1>3, <2>3, <2>4, <2>5 DEF OnInstruction
<1>4. CASE Crash(s) \/ \E p \in Payslips : FixDetails(p) \/ MoveBank(p)
  BY <1>4 DEF Crash, FixDetails, MoveBank
<1> QED
  BY <1>1, <1>2, <1>3, <1>4

\* After a build nobody on the run is silently left out, whoever builds, pays,
\* hands over, holds or acknowledges at the same time.
THEOREM NobodyMissingCorrect == Spec => []NobodyMissing
<1>1. Init => NobodyMissing
  BY DEF Init, NobodyMissing
<1>2. ASSUME IndType, NobodyMissing, [Next]_vars PROVE NobodyMissing'
  <2>1. ASSUME NEW s \in Sessions, Build(s) PROVE NobodyMissing'
    BY <1>2, <2>1, BuildEffect DEF NobodyMissing
  <2>2. ASSUME NEW s \in Sessions, PayCommit(s) PROVE NobodyMissing'
    <3>1. built' = built
      BY <2>2 DEF PayCommit
    <3> QED
      BY <1>2, <2>2, <3>1, PayCommitEffect DEF NobodyMissing
  <2>3. CASE UNCHANGED vars
    BY <1>2, <2>3 DEF vars, NobodyMissing
  <2>4. ASSUME NEW s \in Sessions, OnRun(s) \/ OnPayslip(s) \/ OnInstruction(s) \/ Crash(s)
        PROVE  NobodyMissing'
    BY <1>2, <2>1, <2>2, <2>4, MembershipKept DEF NobodyMissing
  <2>5. ASSUME NEW p \in Payslips, FixDetails(p) \/ MoveBank(p) PROVE NobodyMissing'
    BY <1>2, <2>5 DEF FixDetails, MoveBank, NobodyMissing
  <2> QED
    BY <1>2, <2>3, <2>4, <2>5 DEF Next
<1> QED
  <2>1. IndType /\ [Next]_vars => IndType'
    BY IndTypeStep
  <2>2. Init => IndType
    BY IndTypeInit
  <2> QED
    BY <1>1, <1>2, <2>1, <2>2, PTL DEF Spec
-----------------------------------------------------------------------------
(* One user at a time *)

OneUser == \A s, t \in Sessions : s = t

\* A batch row has a generation of its own once it exists.
Rows == \A b \in Banks : /\ batch[b].gen <= gens
                         /\ batch[b].gen = 0 <=> batch[b].status = "none"

\* What a handler has read of an instruction is still so when it saves.
Stands(s) ==
    LET b == th[s].bank IN
    /\ At(s, "pay") => /\ batch[b].status \in {"none", "draft"}
                       /\ moves = 0 => bank[th[s].slip] = b
    /\ th[s].pc \in {"email", "emailed", "sent"} => batch[b].status = "draft"
    /\ At(s, "fail") => batch[b].status \in {"draft", "sent", "failed"}
    /\ At(s, "ack") => batch[b].status = "sent"
    /\ At(s, "acked") => batch[b].status = "acknowledged"
    /\ th[s].pc \in BankPCs \ {"pay"} => Mine(s) /\ th[s].seen = batch[b].items
Reading == \A s \in Sessions : Stands(s)

\* The file of b has been handed over and the handler has yet to record it.
Recording(b) == \E s \in Sessions : th[s].pc \in {"emailed", "sent"} /\ th[s].bank = b
Out(b) == batch[b].status \in {"sent", "acknowledged"} \/ Recording(b)

\* The file that went by hand was another than the rows of b when they were marked.
Stale(b) == <<b, batch[b].gen>> \in outdated

\* The bank has been asked for nobody who is not in its instruction, and once
\* the file is out, for everybody who is, unless that file was an old one.
Within(b) == \A c \in claims : c.bank = b /\ c.gen = batch[b].gen => c.slip \in batch[b].items
Covers(b) == \A p \in batch[b].items :
                \E c \in claims : c.bank = b /\ c.gen = batch[b].gen /\ c.slip = p
Listed ==
    /\ \A c \in claims : c.gen # 0 /\ c.gen <= gens
    /\ \A b \in Banks : Stale(b) \/ (Within(b) /\ (Out(b) => Covers(b)))

\* Nobody has changed bank: everybody is with the bank that was asked, or will be.
AtHome == moves = 0 => /\ \A b \in Banks : \A p \in batch[b].items \cup copy[b] : bank[p] = b
                       /\ \A c \in claims : bank[c.slip] = c.bank

\* No request has died: each bank has been handed one file, that of the
\* instruction it still has.
OneFile == crashes = 0 =>
    /\ \A c \in claims : c.gen = batch[c.bank].gen /\ Out(c.bank)
    /\ \A c, d \in claims : c.bank = d.bank => c.file = d.file /\ c.by = d.by

\* ... and the items of an acknowledged instruction are paid, or about to be.
Paying == crashes = 0 => \A b \in Banks : batch[b].status = "acknowledged" =>
    batch[b].items \subseteq paid \/ \E s \in Sessions : At(s, "acked") /\ th[s].bank = b

Inv == IndType /\ Rows /\ Reading /\ Listed /\ AtHome /\ OneFile /\ Paying

\* The record a handler leaves, field by field.
LEMMA ThreadIs ==
    ASSUME IndType, NEW s \in Sessions
    PROVE  /\ Done(s) => th'[s].pc = "idle"
           /\ \A pc : Goto(s, pc) => /\ th'[s].pc = pc /\ th'[s].bank = th[s].bank
                                     /\ th'[s].gen = th[s].gen /\ th'[s].seen = th[s].seen
           /\ \A pc, p : OnSlip(s, pc, p) => th'[s].pc = pc
           /\ \A pc, b : OnBatch(s, pc, b) =>
                 /\ th'[s].pc = pc /\ th'[s].bank = b
                 /\ th'[s].gen = batch[b].gen /\ th'[s].seen = batch[b].items
<1> th \in [Sessions -> Thread] /\ th[s] \in Thread
  BY DEF IndType, TypeOK
<1>1. Done(s) => th'[s].pc = "idle"
  BY DEF Done, Idle
<1>2. ASSUME NEW pc, Goto(s, pc)
      PROVE  /\ th'[s].pc = pc /\ th'[s].bank = th[s].bank
             /\ th'[s].gen = th[s].gen /\ th'[s].seen = th[s].seen
  <2>1. th'[s] = [th[s] EXCEPT !.pc = pc]
    BY <1>2 DEF Goto
  <2> QED
    BY <2>1 DEF Thread
<1>3. ASSUME NEW pc, NEW p, OnSlip(s, pc, p) PROVE th'[s].pc = pc
  BY <1>3 DEF OnSlip, Idle
<1>4. ASSUME NEW pc, NEW b, OnBatch(s, pc, b)
      PROVE  /\ th'[s].pc = pc /\ th'[s].bank = b
             /\ th'[s].gen = batch[b].gen /\ th'[s].seen = batch[b].items
  BY <1>4 DEF OnBatch
<1> QED
  BY <1>1, <1>2, <1>3, <1>4

\* save(update_fields) on a row that is still there.
LEMMA SaveIs ==
    ASSUME IndType, NEW s \in Sessions, NEW st \in BatchStatus, SaveStatus(s, st),
           th[s].bank \in Banks, Mine(s)
    PROVE  /\ \A b \in Banks : batch'[b].items = batch[b].items /\ batch'[b].gen = batch[b].gen
           /\ batch'[th[s].bank].status = st
           /\ \A b \in Banks \ {th[s].bank} : batch'[b] = batch[b]
<1>1. batch \in [Banks -> Batch] /\ batch[th[s].bank] \in Batch
  BY DEF IndType, TypeOK
<1>2. batch' = [batch EXCEPT ![th[s].bank] = [batch[th[s].bank] EXCEPT !.status = st]]
  BY DEF SaveStatus
<1>3. [batch[th[s].bank] EXCEPT !.status = st].status = st
  BY <1>1 DEF Batch
<1>4. \A b \in Banks : batch'[b].items = batch[b].items /\ batch'[b].gen = batch[b].gen
  BY <1>1, StatusOnly
<1> QED
  BY <1>1, <1>2, <1>3, <1>4

\* build_single_payment: nothing, one more item, or a new draft of one item.
LEMMA PayCommitIs ==
    ASSUME IndType, NEW s \in Sessions, PayCommit(s)
    PROVE  LET b == th[s].bank IN
           /\ b \in Banks /\ th[s].slip \in Payslips
           /\ \A a \in Banks \ {b} : batch'[a] = batch[a]
           /\ \/ batch' = batch /\ gens' = gens
              \/ /\ gens' = gens /\ batch'[b].gen = batch[b].gen
                 /\ batch'[b].status = batch[b].status
                 /\ batch'[b].items = batch[b].items \cup {th[s].slip}
              \/ /\ gens' = gens + 1 /\ batch'[b].gen = gens + 1
                 /\ batch'[b].status = "draft" /\ batch'[b].items = {th[s].slip}
<1> DEFINE b == th[s].bank
           p == th[s].slip
<1>1. b \in Banks /\ p \in Payslips /\ batch \in [Banks -> Batch] /\ batch[b] \in Batch
  BY DEF IndType, TypeOK, Working, Fits, PayCommit, At, SlipPCs, BankPCs
<1>2. Joined(s).items = batch[b].items \cup {p} /\ Joined(s).gen = batch[b].gen
      /\ Joined(s).status = batch[b].status
  BY <1>1 DEF Joined, Batch
<1>3. \/ batch' = batch /\ gens' = gens
      \/ gens' = gens /\ batch' = [batch EXCEPT ![b] = Joined(s)]
      \/ /\ gens' = gens + 1
         /\ batch' = [batch EXCEPT ![b] = [gen |-> gens + 1, status |-> "draft",
                                           items |-> {p}, counted |-> {p}]]
  BY DEF PayCommit
<1> HIDE DEF b, p
<1> QED
  BY <1>1, <1>2, <1>3 DEF b, p

\* build_payment_batches: an instruction that is out stays, the others are new.
LEMMA BuildIs ==
    ASSUME IndType, NEW s \in Sessions, Build(s), NEW b \in Banks
    PROVE  /\ gens' = gens + 1
           /\ \/ batch[b].status \notin {"none", "draft"} /\ batch'[b] = batch[b]
              \/ /\ batch[b].status \in {"none", "draft"}
                 /\ \/ batch'[b].gen = 0 /\ batch'[b].status = "none" /\ batch'[b].items = {}
                    \/ /\ batch'[b].gen = gens + 1 /\ batch'[b].status = "draft"
                       /\ \A p \in batch'[b].items : bank[p] = b
<1> DEFINE group == {p \in Payslips : Payable(p) /\ bank[p] = b}
<1>1. batch'[b] = IF b \in Instructed THEN batch[b]
                  ELSE IF group = {} THEN NoBatch
                  ELSE [gen |-> gens + 1, status |-> "draft", items |-> group, counted |-> group]
  BY DEF Build
<1> QED
  BY <1>1 DEF Build, Instructed, NoBatch

\* Handing over adds one file with everybody it lists.
LEMMA HandOverIs ==
    ASSUME NEW b \in Banks, NEW g, NEW items, NEW by, HandOver(b, g, items, by)
    PROVE  /\ claims \subseteq claims'
           /\ \A c \in claims' \ claims : /\ c.bank = b /\ c.gen = g /\ c.slip \in items
                                          /\ c.file = files + 1 /\ c.by = by
           /\ \A p \in items : \E c \in claims' : c.bank = b /\ c.gen = g /\ c.slip = p
<1> DEFINE claim(p) == [slip |-> p, bank |-> b, gen |-> g, file |-> files + 1, by |-> by]
<1>1. claims' = claims \cup {claim(p) : p \in items}
  BY DEF HandOver
<1>2. \A p \in items : claim(p) \in claims' /\ claim(p).bank = b /\ claim(p).gen = g
                      /\ claim(p).slip = p
  BY <1>1
<1>3. ASSUME NEW c \in claims' \ claims
      PROVE  /\ c.bank = b /\ c.gen = g /\ c.slip \in items
             /\ c.file = files + 1 /\ c.by = by
  <2>1. PICK p \in items : c = claim(p)
    BY <1>1
  <2> QED
    BY <2>1
<1> HIDE DEF claim
<1> QED
  BY <1>1, <1>2, <1>3
\* With one user, what some handler is doing is what this one is doing.
LEMMA OnlyOne ==
    ASSUME OneUser, NEW s \in Sessions
    PROVE  /\ \A b : Recording(b) <=> th[s].pc \in {"emailed", "sent"} /\ th[s].bank = b
           /\ \A b : Recording(b)' <=> th'[s].pc \in {"emailed", "sent"} /\ th'[s].bank = b
           /\ \A b : (\E t \in Sessions : At(t, "acked") /\ th[t].bank = b)
                     <=> At(s, "acked") /\ th[s].bank = b
           /\ Stands(s)' => Reading'
  BY DEF OneUser, Recording, Reading

\* A step that only reads, or that touches neither an instruction nor a claim.
LEMMA LookStep ==
    ASSUME OneUser, Inv, IndType', NEW s \in Sessions,
           UNCHANGED <<outdated, batch, gens, claims, bank, moves>>,
           \A b \in Banks : copy'[b] \subseteq copy[b] \cup batch[b].items,
           crashes' = crashes \/ crashes' = crashes + 1, paid \subseteq paid',
           th[s].pc \in {"emailed", "sent"} => crashes' # 0,
           At(s, "acked") => batch[th[s].bank].items \subseteq paid' \/ crashes' # 0,
           th'[s].pc \notin {"emailed", "sent"}, Stands(s)'
    PROVE  Inv'
  <1>0. crashes \in Nat /\ (crashes' = 0 => crashes = 0)
    BY DEF Inv, IndType, TypeOK
  <1>1. Rows'
    BY DEF Inv, Rows
  <1>2. Reading'
    BY OnlyOne
  <1>3. \A b \in Banks : /\ Out(b)' => Out(b)
                         /\ Out(b) /\ crashes' = 0 => Out(b)'
    BY OnlyOne DEF Out
  <1>4. Listed'
    BY <1>3 DEF Inv, Listed, Stale, Within, Covers
  <1>5. AtHome'
    BY DEF Inv, AtHome
  <1>6. OneFile'
    <2>1. \A c \in claims : c.bank \in Banks
      BY DEF Inv, IndType, TypeOK, Claim
    <2> QED  BY <1>0, <1>3, <2>1 DEF Inv, OneFile
  <1>7. Paying'
    <2> SUFFICES ASSUME crashes' = 0, NEW b \in Banks, batch'[b].status = "acknowledged"
                 PROVE  batch'[b].items \subseteq paid'
      BY DEF Paying
    <2>1. batch[b].items \subseteq paid \/ (At(s, "acked") /\ th[s].bank = b)
      BY <1>0, OnlyOne DEF Inv, Paying
    <2> QED  BY <2>1
  <1> QED  BY <1>1, <1>2, <1>4, <1>5, <1>6, <1>7 DEF Inv

\* Handing the file of a draft over, by e-mail or by hand.
LEMMA HandStep ==
    ASSUME OneUser, Inv, IndType', NEW s \in Sessions, NEW b \in Banks, NEW by, NEW items,
           HandOver(b, batch[b].gen, items, by), batch[b].status = "draft",
           items \subseteq batch[b].items \cup copy[b],
           \A a \in Banks : copy'[a] \subseteq copy[a],
           outdated \subseteq outdated', items = batch[b].items \/ Stale(b)',
           \A a \in Banks : Stale(a) => Stale(a)',
           UNCHANGED <<batch, gens, bank, moves, crashes, paid>>,
           th[s].pc \in {"idle", "email"},
           th'[s].pc \in {"emailed", "sent"}, th'[s].bank = b, Stands(s)'
    PROVE  Inv'
  <1>0. /\ claims \subseteq claims'
        /\ \A c \in claims' \ claims : /\ c.bank = b /\ c.gen = batch[b].gen
                                       /\ c.slip \in items
                                       /\ c.file = files + 1 /\ c.by = by
        /\ \A p \in items : \E c \in claims' :
              c.bank = b /\ c.gen = batch[b].gen /\ c.slip = p
    BY HandOverIs
  <1>1. Rows' /\ Reading' /\ batch[b].gen # 0 /\ batch[b].gen <= gens
    BY OnlyOne DEF Inv, Rows
  <1>2. \A a \in Banks : ~Recording(a) /\ (Recording(a)' <=> a = b)
    BY OnlyOne
  <1>3. Listed'
    <2>1. \A a \in Banks \ {b} : Out(a)' => Out(a)
      BY <1>2 DEF Out
    <2> QED  BY <1>0, <1>1, <2>1 DEF Inv, Listed, Stale, Within, Covers
  <1>4. AtHome'
    BY <1>0 DEF Inv, AtHome
  <1>5. OneFile'
    <2> SUFFICES ASSUME crashes = 0 PROVE OneFile'
      BY DEF OneFile
    <2>1. \A c \in claims : c.bank \in Banks /\ c.bank # b
      BY <1>2 DEF Inv, OneFile, Out, IndType, TypeOK, Claim
    <2>2. \A a \in Banks : Out(a) => Out(a)'
      BY <1>2 DEF Out
    <2>3. Out(b)'
      BY <1>2 DEF Out
    <2> QED  BY <1>0, <2>1, <2>2, <2>3 DEF Inv, OneFile
  <1>6. Paying'
    <2>1. \A a \in Banks : ~(\E t \in Sessions : At(t, "acked") /\ th[t].bank = a)
      BY OnlyOne DEF At
    <2> QED  BY <2>1 DEF Inv, Paying
  <1> QED  BY <1>1, <1>3, <1>4, <1>5, <1>6 DEF Inv

\* Recording that a file is out, or that the bank has acknowledged it.
LEMMA SaveStep ==
    ASSUME OneUser, Inv, IndType', NEW s \in Sessions, NEW st \in {"sent", "acknowledged"},
           SaveStatus(s, st), UNCHANGED <<handVars, claims, gens, bank, moves, crashes, paid>>,
           \/ st = "sent" /\ th[s].pc \in {"emailed", "sent"} /\ th'[s].pc = "idle"
           \/ st = "acknowledged" /\ At(s, "ack") /\ Goto(s, "acked")
    PROVE  Inv'
  <1> DEFINE b == th[s].bank
  <1>0. b \in Banks /\ Mine(s) /\ st \in BatchStatus /\ b = th[s].bank
        /\ batch[b].status \in {"draft", "sent"} /\ th[s].seen = batch[b].items
    BY DEF Inv, Reading, Stands, IndType, Working, Fits, At, BankPCs, BatchStatus
  <1>1. /\ \A a \in Banks : batch'[a].items = batch[a].items /\ batch'[a].gen = batch[a].gen
        /\ batch'[b].status = st
        /\ \A a \in Banks \ {b} : batch'[a] = batch[a]
    BY <1>0, SaveIs DEF Inv
  <1>t. st = "acknowledged" => /\ th'[s].pc = "acked" /\ th'[s].bank = b
                               /\ th'[s].gen = th[s].gen /\ th'[s].seen = th[s].seen
    BY ThreadIs DEF Inv
  <1>o. Out(b)
    BY <1>0, OnlyOne DEF Out, Inv, Reading, Stands
  <1> HIDE DEF b
  <1>2. \A a \in Banks : Out(a)' <=> Out(a)
    <2>1. \A a \in Banks : ~Recording(a)' /\ (a # b => ~Recording(a))
      BY <1>0, <1>t, OnlyOne
    <2> QED  BY <1>1, <1>o, <2>1 DEF Out
  <1>3. Rows'
    BY <1>0, <1>1 DEF Inv, Rows
  <1>4. Reading'
    <2>1. CASE st = "sent"
      BY <2>1, OnlyOne DEF Stands, At, BankPCs
    <2>2. CASE st = "acknowledged"
      BY <1>0, <1>1, <1>t, <2>2, OnlyOne DEF Stands, At, Mine
    <2> QED  BY <2>1, <2>2
  <1>c. \A c \in claims : c.bank \in Banks
    BY DEF Inv, IndType, TypeOK, Claim
  <1>5. Listed'
    BY <1>1, <1>2, <1>c DEF Inv, Listed, Stale, Within, Covers
  <1>6. AtHome'
    BY <1>1 DEF Inv, AtHome
  <1>7. OneFile'
    BY <1>1, <1>2, <1>c DEF Inv, OneFile
  <1>8. Paying'
    <2> SUFFICES ASSUME crashes = 0, NEW a \in Banks, batch'[a].status = "acknowledged"
                 PROVE  \/ batch'[a].items \subseteq paid'
                        \/ \E t \in Sessions : (At(t, "acked") /\ th[t].bank = a)'
      BY DEF Paying
    <2>1. CASE a = b
      BY <1>1, <1>t, <2>1 DEF At
    <2>2. CASE a # b
      <3>1. ~(\E t \in Sessions : At(t, "acked") /\ th[t].bank = a)
        BY OnlyOne DEF At
      <3> QED  BY <1>1, <2>2, <3>1 DEF Inv, Paying
    <2> QED  BY <2>1, <2>2
  <1> QED  BY <1>3, <1>4, <1>5, <1>6, <1>7, <1>8 DEF Inv

\* The bank refuses an instruction: it is asked for nothing of it any more.
LEMMA FailStep ==
    ASSUME OneUser, Inv, IndType', NEW s \in Sessions, MarkFailedSave(s)
    PROVE  Inv'
  <1>b. PICK b \in Banks : b = th[s].bank
    BY DEF Inv, IndType, Working, Fits, At, BankPCs, MarkFailedSave
  <1>0. b \in Banks /\ Mine(s) /\ "failed" \in BatchStatus /\ b = th[s].bank
        /\ batch[b].status # "none" /\ At(s, "fail") /\ SaveStatus(s, "failed")
        /\ claims' = {c \in claims : c.bank # b \/ c.gen # batch[b].gen}
        /\ UNCHANGED <<handVars, gens, bank, moves, crashes, paid>>
    BY <1>b DEF Inv, Reading, Stands, At, BankPCs, BatchStatus, MarkFailedSave, Mine
  <1>1. /\ \A a \in Banks : batch'[a].items = batch[a].items /\ batch'[a].gen = batch[a].gen
        /\ batch'[b].status = "failed"
        /\ \A a \in Banks \ {b} : batch'[a] = batch[a]
    BY <1>0, SaveIs DEF Inv
  <1>t. th'[s].pc = "idle"
    BY ThreadIs DEF Inv, MarkFailedSave
  <1>2. ~Out(b)' /\ \A a \in Banks \ {b} : Out(a)' <=> Out(a)
    <2>1. \A a \in Banks : ~Recording(a)' /\ ~Recording(a)
      BY <1>0, <1>t, OnlyOne DEF At
    <2> QED  BY <1>0, <1>1, <2>1 DEF Out
  <1>3. Rows' /\ Reading'
    BY <1>0, <1>1, <1>t, OnlyOne DEF Inv, Rows, Stands, At, BankPCs
  <1>c. \A c \in claims : c.bank \in Banks
    BY DEF Inv, IndType, TypeOK, Claim
  <1>5. Listed'
    BY <1>0, <1>1, <1>2, <1>c DEF Inv, Listed, Stale, Within, Covers
  <1>6. AtHome'
    BY <1>0, <1>1 DEF Inv, AtHome
  <1>7. OneFile'
    BY <1>0, <1>1, <1>2, <1>c DEF Inv, OneFile
  <1>8. Paying'
    <2>1. \A a \in Banks : ~(\E t \in Sessions : At(t, "acked") /\ th[t].bank = a)
      BY <1>0, OnlyOne DEF At
    <2> QED  BY <1>0, <1>1, <2>1 DEF Inv, Paying
  <1> QED  BY <1>3, <1>5, <1>6, <1>7, <1>8 DEF Inv
\* A single payment: the handler's batch is still a draft, or none.
LEMMA PayStep ==
    ASSUME OneUser, Inv, IndType', NEW s \in Sessions, PayCommit(s)
    PROVE  Inv'
  <1>b. PICK b \in Banks : b = th[s].bank
    BY PayCommitIs DEF Inv
  <1>0. /\ b = th[s].bank /\ batch[b].status \in {"none", "draft"} /\ At(s, "pay")
        /\ moves = 0 => bank[th[s].slip] = b
        /\ UNCHANGED <<handVars, bank, paid, claims, moves, crashes>>
    BY <1>b DEF Inv, Reading, Stands, PayCommit
  <1>1. /\ \A a \in Banks \ {b} : batch'[a] = batch[a]
        /\ \/ batch' = batch /\ gens' = gens
           \/ /\ gens' = gens /\ batch'[b].gen = batch[b].gen
              /\ batch'[b].status = batch[b].status
              /\ batch'[b].items = batch[b].items \cup {th[s].slip}
           \/ /\ gens' = gens + 1 /\ batch'[b].gen = gens + 1
              /\ batch'[b].status = "draft" /\ batch'[b].items = {th[s].slip}
    BY <1>b, PayCommitIs DEF Inv
  <1>t. th'[s].pc = "idle"
    BY ThreadIs DEF Inv, PayCommit
  <1>g. /\ gens \in Nat /\ gens' \in Nat /\ gens <= gens' /\ batch[b].gen \in Nat
        /\ batch'[b].status \in {"none", "draft"}
    <2>1. gens \in Nat /\ batch[b] \in Batch
      BY DEF Inv, IndType, TypeOK, Gens
    <2> QED  BY <1>0, <1>1, <2>1 DEF Batch, Gens
  <1>2. ~Out(b) /\ ~Out(b)' /\ \A a \in Banks \ {b} : Out(a)' <=> Out(a)
    <2>1. \A a \in Banks : ~Recording(a)' /\ ~Recording(a)
      BY <1>0, <1>t, OnlyOne DEF At
    <2> QED  BY <1>0, <1>1, <1>g, <2>1 DEF Out
  <1>3. Rows'
    <2>1. \A a \in Banks : batch[a].gen \in Nat /\ batch[a].gen <= gens
      BY DEF Inv, Rows, IndType, TypeOK, Batch, Gens
    <2>2. ASSUME NEW a \in Banks
          PROVE  batch'[a].gen <= gens' /\ (batch'[a].gen = 0 <=> batch'[a].status = "none")
      BY <1>1, <1>g, <2>1 DEF Inv, Rows
    <2> QED  BY <2>2 DEF Rows
  <1>4. Reading'
    BY <1>t, OnlyOne DEF Stands, At, BankPCs
  <1>c. \A c \in claims : c.bank \in Banks /\ c.gen \in Nat /\ c.gen <= gens /\ c.gen # 0
    BY DEF Inv, IndType, TypeOK, Claim, Gens, Listed, Stale, Within, Covers
  <1>5. Listed'
    <2>1. \A c \in claims : c.gen # 0 /\ c.gen <= gens'
      BY <1>c, <1>g
    <2>2. \A a \in Banks : Stale(a)' \/ Within(a)'
      BY <1>0, <1>1, <1>c, <1>g DEF Inv, Listed, Stale, Within
    <2>3. \A a \in Banks : Stale(a)' \/ (Out(a)' => Covers(a)')
      BY <1>0, <1>1, <1>2 DEF Inv, Listed, Stale, Covers
    <2> QED  BY <1>0, <2>1, <2>2, <2>3 DEF Listed
  <1>6. AtHome'
    BY <1>0, <1>1 DEF Inv, AtHome
  <1>7. OneFile'
    <2> SUFFICES ASSUME crashes = 0 PROVE OneFile'
      BY <1>0 DEF OneFile
    <2>1. \A c \in claims : c.bank # b
      BY <1>2 DEF Inv, OneFile
    <2> QED  BY <1>0, <1>1, <1>2, <1>c, <2>1 DEF Inv, OneFile
  <1>8. Paying'
    <2>1. \A a \in Banks : ~(\E t \in Sessions : At(t, "acked") /\ th[t].bank = a)
      BY <1>0, OnlyOne DEF At
    <2> QED  BY <1>0, <1>1, <1>g, <2>1 DEF Inv, Paying
  <1> QED  BY <1>3, <1>4, <1>5, <1>6, <1>7, <1>8 DEF Inv

\* A build replaces drafts, and no bank has been asked for a draft.
LEMMA BuildStep ==
    ASSUME OneUser, Inv, IndType', NEW s \in Sessions, Build(s)
    PROVE  Inv'
  <1>0. At(s, "idle") /\ UNCHANGED <<handVars, bank, paid, claims, moves, crashes, th>>
    BY DEF Build
  <1>1. \A b \in Banks :
           \/ batch[b].status \notin {"none", "draft"} /\ batch'[b] = batch[b]
           \/ /\ batch[b].status \in {"none", "draft"}
              /\ \/ batch'[b].gen = 0 /\ batch'[b].status = "none" /\ batch'[b].items = {}
                 \/ /\ batch'[b].gen = gens + 1 /\ batch'[b].status = "draft"
                    /\ \A p \in batch'[b].items : bank[p] = b
    BY BuildIs DEF Inv
  <1>g. gens' = gens + 1 /\ gens \in Nat
    BY DEF Build, Inv, IndType, TypeOK, Gens
  <1>2. \A a \in Banks : /\ Out(a)' <=> Out(a)
                         /\ Out(a) => batch'[a] = batch[a]
    <2>1. \A a \in Banks : ~Recording(a)' /\ ~Recording(a)
      BY <1>0, OnlyOne DEF At
    <2> QED  BY <1>1, <2>1 DEF Out
  <1>3. Rows'
    <2>1. \A a \in Banks : batch[a].gen \in Nat /\ batch[a].gen <= gens
      BY DEF Inv, Rows, IndType, TypeOK, Batch, Gens
    <2>2. ASSUME NEW a \in Banks
          PROVE  batch'[a].gen <= gens' /\ (batch'[a].gen = 0 <=> batch'[a].status = "none")
      BY <1>1, <1>g, <2>1 DEF Inv, Rows
    <2> QED  BY <2>2 DEF Rows
  <1>4. Reading'
    BY <1>0, OnlyOne DEF Stands, At, BankPCs
  <1>c. \A c \in claims : c.bank \in Banks /\ c.gen \in Nat /\ c.gen <= gens /\ c.gen # 0
    BY DEF Inv, IndType, TypeOK, Claim, Gens, Listed, Stale, Within, Covers
  <1>5. Listed'
    <2>1. \A c \in claims : c.gen # 0 /\ c.gen <= gens'
      BY <1>c, <1>g
    <2>2. \A a \in Banks : Stale(a)' \/ Within(a)'
      BY <1>0, <1>1, <1>c, <1>g DEF Inv, Listed, Stale, Within
    <2>3. \A a \in Banks : Stale(a)' \/ (Out(a)' => Covers(a)')
      BY <1>0, <1>2 DEF Inv, Listed, Stale, Covers
    <2> QED  BY <1>0, <2>1, <2>2, <2>3 DEF Listed
  <1>6. AtHome'
    BY <1>0, <1>1 DEF Inv, AtHome
  <1>7. OneFile'
    BY <1>0, <1>2, <1>c DEF Inv, OneFile
  <1>8. Paying'
    <2>1. \A a \in Banks : ~(\E t \in Sessions : At(t, "acked") /\ th[t].bank = a)
      BY <1>0, OnlyOne DEF At
    <2> QED  BY <1>0, <1>1, <2>1 DEF Inv, Paying
  <1> QED  BY <1>3, <1>4, <1>5, <1>6, <1>7, <1>8 DEF Inv

\* An employee gets a bank, or changes to another one.
LEMMA StaffStep ==
    ASSUME Inv, IndType', NEW q \in Payslips, FixDetails(q) \/ MoveBank(q)
    PROVE  Inv'
  <1>0. /\ UNCHANGED <<handVars, paid, batch, gens, claims, crashes, th>>
        /\ \/ moves' = moves /\ bank[q] = NoBank
           \/ moves' # 0
        /\ \A p \in Payslips \ {q} : bank'[p] = bank[p]
    BY DEF FixDetails, MoveBank, Inv, IndType, TypeOK
  <1>1. Rows' /\ Paying'
    BY <1>0 DEF Inv, Rows, Paying, At
  <1>2. \A b \in Banks : Out(b)' <=> Out(b)
    BY <1>0 DEF Out, Recording
  <1>c. \A c \in claims : c.bank \in Banks /\ c.slip \in Payslips
    BY DEF Inv, IndType, TypeOK, Claim
  <1>3. Listed'
    <2>1. claims' = claims /\ batch' = batch /\ outdated' = outdated /\ gens' = gens
      BY <1>0
    <2>2. \A b \in Banks : Stale(b) => Stale(b)'
      BY <2>1 DEF Stale
    <2>3. \A b \in Banks : Within(b) => Within(b)'
      BY <2>1 DEF Within
    <2>4. \A b \in Banks : Covers(b) => Covers(b)'
      BY <2>1 DEF Covers
    <2>5. \A c \in claims' : c.gen # 0 /\ c.gen <= gens'
      BY <2>1 DEF Inv, Listed
    <2>6. \A b \in Banks : Stale(b)' \/ (Within(b)' /\ (Out(b)' => Covers(b)'))
      BY <1>2, <2>2, <2>3, <2>4 DEF Inv, Listed
    <2> QED  BY <2>5, <2>6 DEF Listed
  <1>d. OneFile'
    BY <1>0, <1>2, <1>c DEF Inv, OneFile
  <1>4. AtHome'
    <2>1. \A b \in Banks : batch[b].items \subseteq Payslips /\ copy[b] \subseteq Payslips
      BY DEF Inv, IndType, TypeOK, Batch
    <2> QED  BY <1>0, <1>c, <2>1, DistinctAssumption DEF Inv, AtHome
  <1>5. Reading'
    <2> SUFFICES ASSUME NEW s \in Sessions PROVE Stands(s)'
      BY DEF Reading
    <2>1. Stands(s) /\ Fits(th[s])
      BY DEF Inv, Reading, IndType, Working
    <2>2. At(s, "pay") /\ moves' = 0 => bank'[th[s].slip] = th[s].bank
      BY <1>0, <2>1, DistinctAssumption DEF Stands, Fits, SlipPCs, BankPCs, At
    <2> QED  BY <1>0, <2>1, <2>2 DEF Stands, At, Mine
  <1> QED  BY <1>1, <1>3, <1>d, <1>4, <1>5 DEF Inv

LEMMA InvInit == Init => Inv
  <1> SUFFICES ASSUME Init PROVE Inv  OBVIOUS
  <1>1. /\ \A b \in Banks : batch[b].gen = 0 /\ batch[b].status = "none" /\ batch[b].items = {}
        /\ \A b \in Banks : copy[b] = {}
        /\ \A s \in Sessions : th[s].pc = "idle"
        /\ claims = {} /\ gens = 0
    BY DEF Init, NoBatch, Idle
  <1>2. Rows /\ Reading /\ AtHome /\ OneFile /\ Paying
    BY <1>1 DEF Rows, Reading, Stands, At, BankPCs, AtHome, OneFile, Paying
  <1>3. Listed
    BY <1>1 DEF Listed, Stale, Within, Covers, Out, Recording
  <1> QED  BY <1>2, <1>3, IndTypeInit DEF Inv

LEMMA InvStep == ASSUME OneUser, Inv, [Next]_vars PROVE Inv'
  <1>0. IndType'
    BY IndTypeStep DEF Inv
  <1>b. batch \in [Banks -> Batch] /\ bank \in [Payslips -> Banks \cup {NoBank}] /\ crashes \in Nat
    BY DEF Inv, IndType, TypeOK
  <1>1. ASSUME UNCHANGED vars PROVE Inv'
    BY <1>0, <1>1 DEF vars, Inv, Rows, Reading, Stands, At, Mine, Listed, Stale, Within, Covers, Out, Recording,
                      AtHome, OneFile, Paying
  <1>2. ASSUME NEW s \in Sessions, OnRun(s) PROVE Inv'
    <2>1. CASE MarkAllPaid(s)
      <3>1. Stands(s)
        BY DEF Inv, Reading
      <3>2. Stands(s)' /\ th' = th /\ At(s, "idle")
        BY <2>1, <3>1 DEF MarkAllPaid, Stands, At, Mine
      <3> QED  BY <1>0, <2>1, <3>2, LookStep DEF MarkAllPaid, At
    <2> QED  BY <1>0, <1>2, <2>1, BuildStep DEF OnRun
  <1>3. ASSUME NEW s \in Sessions, OnPayslip(s) PROVE Inv'
    <2>1. ASSUME NEW p \in Payslips, PayBegin(s, p) PROVE Inv'
      <3>1. /\ th'[s].pc = "pay" /\ th'[s].slip = p /\ th'[s].bank = bank[p]
            /\ UNCHANGED <<handVars, batch, gens, claims, bank, moves, crashes, paid>> /\ th[s].pc = "idle"
        BY <2>1 DEF PayBegin, IndType, TypeOK, Inv, At
      <3>2. Stands(s)'
        BY <2>1, <3>1 DEF PayBegin, Stands, At, BankPCs
      <3> QED  BY <1>0, <3>1, <3>2, LookStep DEF At
    <2>2. ASSUME NEW p \in Payslips, Hold(s, p) \/ Release(s, p) \/ MarkPaid(s, p) PROVE Inv'
      <3>1. /\ th'[s].pc \in {"hold", "release", "paid"} /\ th[s].pc = "idle"
            /\ UNCHANGED <<handVars, batch, gens, claims, bank, moves, crashes, paid>>
        BY <2>2, ThreadIs DEF Hold, Release, MarkPaid, Inv, At
      <3>2. Stands(s)'
        BY <3>1 DEF Stands, At, BankPCs
      <3> QED  BY <1>0, <3>1, <3>2, LookStep DEF At
    <2>3. CASE HoldSave(s) \/ ReleaseSave(s) \/ MarkPaidSave(s)
      <3>1. /\ th'[s].pc = "idle" /\ th[s].pc \in {"hold", "release", "paid"}
            /\ UNCHANGED <<handVars, batch, gens, claims, bank, moves, crashes>> /\ paid \subseteq paid'
        BY <2>3, ThreadIs DEF HoldSave, ReleaseSave, MarkPaidSave, Inv, At
      <3>2. Stands(s)'
        BY <3>1 DEF Stands, At, BankPCs
      <3> QED  BY <1>0, <3>1, <3>2, LookStep DEF At
    <2> QED  BY <1>0, <1>3, <2>1, <2>2, <2>3, PayStep DEF OnPayslip
  <1>4. ASSUME NEW s \in Sessions, OnInstruction(s) PROVE Inv'
    <2>1. ASSUME NEW b \in Banks, EmailCheck(s, b) \/ MarkFailedCheck(s, b) \/ AckCheck(s, b)
          PROVE  Inv'
      <3>1. /\ th[s].pc = "idle" /\ th'[s].bank = b /\ th'[s].gen = batch[b].gen
            /\ th'[s].seen = batch[b].items
            /\ UNCHANGED <<handVars, batch, gens, claims, bank, moves, crashes, paid>>
            /\ \/ th'[s].pc = "email" /\ batch[b].status = "draft"
               \/ th'[s].pc = "fail" /\ batch[b].status \in {"draft", "sent", "failed"}
               \/ th'[s].pc = "ack" /\ batch[b].status = "sent"
        BY <2>1, ThreadIs DEF EmailCheck, MarkFailedCheck, AckCheck, Inv, At
      <3>2. Stands(s)'
        BY <3>1 DEF Stands, At, Mine
      <3> QED  BY <1>0, <3>1, <3>2, LookStep DEF At
    <2>2. ASSUME NEW b \in Banks, MarkSentCheck(s, b) PROVE Inv'
      <3>1. /\ th[s].pc = "idle" /\ th'[s].bank = b /\ th'[s].gen = batch[b].gen
            /\ th'[s].seen = batch[b].items /\ th'[s].pc = "sent" /\ batch[b].status = "draft"
            /\ UNCHANGED <<batch, gens, bank, moves, crashes, paid>>
            /\ HandOver(b, batch[b].gen, copy[b], "hand")
        BY <2>2, ThreadIs DEF MarkSentCheck, Inv, At
      <3>2. Stands(s)'
        BY <3>1 DEF Stands, At, Mine
      <3>3. /\ \A a \in Banks : copy'[a] \subseteq copy[a]
            /\ outdated \subseteq outdated' /\ (copy[b] = batch[b].items \/ Stale(b)')
        BY <2>2, <3>1 DEF MarkSentCheck, Stale, Inv, IndType, TypeOK
      <3>4. \A a \in Banks : Stale(a) => Stale(a)'
        BY <3>1, <3>3 DEF Stale
      <3> QED  BY <1>0, <3>1, <3>2, <3>3, <3>4, HandStep
    <2>d. ASSUME NEW b \in Banks, Download(s, b) PROVE Inv'
      <3>1. /\ th[s].pc = "idle" /\ th' = th
            /\ UNCHANGED <<outdated, batch, gens, claims, bank, moves, crashes, paid>>
            /\ \A a \in Banks : copy'[a] \subseteq copy[a] \cup batch[a].items
        BY <2>d DEF Download, At, Inv, IndType, TypeOK
      <3>2. Stands(s)'
        BY <3>1 DEF Stands, At, BankPCs
      <3> QED  BY <1>0, <3>1, <3>2, LookStep DEF At
    <2>3. CASE EmailSend(s)
      <3>1. th[s].pc = "email" /\ Stands(s) /\ th[s].bank \in Banks
        BY <2>3 DEF EmailSend, At, Inv, Reading, IndType, Working, Fits, BankPCs
      <3>2. /\ Mine(s) /\ th[s].seen = batch[th[s].bank].items
            /\ batch[th[s].bank].status = "draft"
        BY <3>1 DEF Stands, BankPCs
      <3>3. PICK b \in Banks : b = th[s].bank
        BY <3>1
      <3>4. /\ th'[s].bank = b /\ th'[s].gen = batch[b].gen
            /\ th'[s].seen = batch[b].items /\ th'[s].pc = "emailed"
            /\ UNCHANGED <<handVars, batch, gens, bank, moves, crashes, paid>>
            /\ HandOver(b, batch[b].gen, batch[b].items, "email")
        BY <2>3, <3>2, <3>3, ThreadIs DEF EmailSend, Inv, Mine
      <3>5. Stands(s)'
        BY <3>2, <3>3, <3>4 DEF Stands, At, Mine
      <3>6. /\ \A a \in Banks : copy'[a] \subseteq copy[a]
            /\ outdated \subseteq outdated' /\ \A a \in Banks : Stale(a) => Stale(a)'
        BY <3>4 DEF Stale
      <3> QED  BY <1>0, <3>1, <3>2, <3>3, <3>4, <3>5, <3>6, HandStep
    <2>4. CASE EmailFail(s)
      <3>1. /\ th'[s].pc = "idle" /\ th[s].pc = "email"
            /\ UNCHANGED <<handVars, batch, gens, claims, bank, moves, crashes, paid>>
        BY <2>4, ThreadIs DEF EmailFail, Inv, At
      <3>2. Stands(s)'
        BY <3>1 DEF Stands, At, BankPCs
      <3> QED  BY <1>0, <3>1, <3>2, LookStep DEF At
    <2>5. CASE EmailSave(s) \/ MarkSentSave(s)
      <3>1. /\ SaveStatus(s, "sent") /\ th[s].pc \in {"emailed", "sent"} /\ th'[s].pc = "idle"
            /\ UNCHANGED <<handVars, claims, gens, bank, moves, crashes, paid>>
        BY <2>5, ThreadIs DEF EmailSave, MarkSentSave, Inv, At
      <3> QED  BY <1>0, <3>1, SaveStep
    <2>6. CASE AckSave(s)
      <3>1. /\ SaveStatus(s, "acknowledged") /\ At(s, "ack") /\ Goto(s, "acked")
            /\ UNCHANGED <<handVars, claims, gens, bank, moves, crashes, paid>>
        BY <2>6 DEF AckSave
      <3> QED  BY <1>0, <3>1, SaveStep
    <2>7. CASE AckPay(s)
      <3>1. /\ th'[s].pc = "idle" /\ th[s].pc = "acked"
            /\ UNCHANGED <<handVars, batch, gens, claims, bank, moves, crashes>> /\ paid \subseteq paid'
            /\ batch[th[s].bank].items \subseteq paid'
        BY <2>7, ThreadIs DEF AckPay, Settled, Inv, At
      <3>2. Stands(s)'
        BY <3>1 DEF Stands, At, BankPCs
      <3> QED  BY <1>0, <3>1, <3>2, LookStep DEF At
    <2> QED  BY <1>0, <1>4, <2>1, <2>2, <2>d, <2>3, <2>4, <2>5, <2>6, <2>7, FailStep DEF OnInstruction
  <1>5. ASSUME NEW s \in Sessions, Crash(s) PROVE Inv'
    <2>1. /\ th'[s].pc = "idle" /\ crashes' = crashes + 1
          /\ UNCHANGED <<handVars, batch, gens, claims, bank, moves, paid>>
      BY <1>5, ThreadIs DEF Crash, Inv
    <2>2. Stands(s)' /\ crashes' # 0
      BY <1>b, <2>1 DEF Stands, At, BankPCs
    <2> QED  BY <1>0, <2>1, <2>2, LookStep
  <1>6. ASSUME NEW p \in Payslips, FixDetails(p) \/ MoveBank(p) PROVE Inv'
    BY <1>0, <1>6, StaffStep
  <1> QED  BY <1>1, <1>2, <1>3, <1>4, <1>5, <1>6 DEF Next

LEMMA InvAlways == OneUser /\ Spec => []Inv
  <1>1. OneUser /\ Inv /\ [Next]_vars => Inv'
    BY InvStep
  <1>2. CASE OneUser
    BY <1>1, <1>2, InvInit, PTL DEF Spec
  <1>3. CASE ~OneUser
    BY <1>3
  <1> QED  BY <1>2, <1>3

\* One user at a time: no bank is asked for the same payslip twice, and no two
\* banks are, while nobody has changed bank and no request has died half way.
THEOREM OneInstructionCorrect == OneUser /\ Spec => []OneInstruction
  <1>1. Inv => OneInstruction
    <2> SUFFICES ASSUME Inv, moves = 0, crashes = 0, NEW c \in claims, NEW d \in claims,
                        c.slip = d.slip
                 PROVE  c = d
      BY DEF OneInstruction, PaidForOnce
    <2>1. c \in Claim /\ d \in Claim
      BY DEF Inv, IndType, TypeOK
    <2>2. c.bank = d.bank
      BY DEF Inv, AtHome
    <2>3. c.gen = d.gen /\ c.file = d.file /\ c.by = d.by
      BY <2>2 DEF Inv, OneFile
    <2> QED  BY <2>1, <2>2, <2>3 DEF Claim
  <1> QED  BY <1>1, InvAlways, PTL

\* One user at a time: an instruction that is out lists exactly what the bank was
\* asked for, also after requests that died and employees who moved, unless it was
\* marked sent on a downloaded file whose rows had changed.
THEOREM FileMatchesCorrect == OneUser /\ Spec => []FileMatches
  <1>1. Inv => FileMatches
    <2> SUFFICES ASSUME Inv, NEW b \in Banks, batch[b].status \in {"sent", "acknowledged"},
                        <<b, batch[b].gen>> \notin outdated
                 PROVE  SaysWhatWasSent(b)
      BY DEF FileMatches
    <2>1. Within(b) /\ Covers(b)
      BY DEF Inv, Listed, Stale, Out
    <2> QED  BY <2>1 DEF Within, Covers, SaysWhatWasSent
  <1> QED  BY <1>1, InvAlways, PTL

\* One user at a time: when the request that recorded the acknowledgement has
\* ended, everybody in the instruction is marked paid.
THEOREM AckPaysCorrect == OneUser /\ Spec => []AckPays
  <1>1. Inv => AckPays
    BY DEF Inv, Paying, AckPays
  <1> QED  BY <1>1, InvAlways, PTL
=============================================================================
