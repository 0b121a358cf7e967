-------------------------- MODULE MemorandumDialog --------------------------
(***************************************************************************)
(* What the memorandum dialog offers whoever has it open                   *)
(* (frontend/components/memoranda/MemorandumDialog.tsx), beside what the   *)
(* workflow accepts (Memorandum).  Some of it the server computes for the  *)
(* reader (my_role, can_act, can_sign, can_edit_content), the rest the     *)
(* dialog works out from the record's own fields.  m is the record the     *)
(* dialog shows, p its reader.                                             *)
(***************************************************************************)
EXTENDS Memorandum

Reads(m, p) == RoleOf(m, p) # "none" \/ HasEverActed(p)

\* The action bar: only for whoever is holding it.
CanAct(m, p) == ~Locked(m) /\ m.holder = p

\* The bar has three shapes: back with the initiator, at the approver, on the way.
ResubmitShown(m, p) == CanAct(m, p) /\ RoleOf(m, p) = "initiator"
DecideShown(m, p) == CanAct(m, p) /\ RoleOf(m, p) # "initiator" /\ m.stage = "approve"
ProceedShown(m, p) == CanAct(m, p) /\ RoleOf(m, p) # "initiator" /\ m.stage # "approve"
SendBackShown(m, p) == CanAct(m, p) /\ RoleOf(m, p) # "initiator"


CanSkip(m, p) ==
    /\ ~Locked(m) /\ m.status = "in_progress" /\ RoleOf(m, p) = "initiator"
    /\ m.stage # "approve"
    /\ m.holder # Nobody /\ m.holder # Initiator

\* One button, which signs or takes the signature off.
SignShown(m, p) == ~Locked(m) /\ p \notin signed /\ RoleOf(m, p) # "none"
UnsignShown(m, p) == ~Locked(m) /\ p \in signed

\* "File it away" stands in the notice of a decided memorandum.
ArchiveShown(m, p) ==
    Locked(m) /\ m.status # "archived" /\ RoleOf(m, p) = "initiator"

\* The text is open while may_write says so.
CanEditBody(m, p) == ~Locked(m) /\ MayWrite(m, p)

\* "Save draft" stands under every draft, "Save changes" where the text is open.
SaveShown(m, p) == m.status = "draft" \/ CanEditBody(m, p)

\* handleSave: whatever was changed, one PATCH with the text, the chain and the approver.
SaveAccepted(m, p) ==
    MayWrite(m, p) /\ ChainAccepted(m, chain) /\ ApproverAccepted(m, m.approver)

\* Files may be added and removed; the endpoint asks for the initiator's draft.
CanAttach(m, p) ==
    /\ ~Locked(m)
    /\ m.status = "draft" \/ (RoleOf(m, p) = "initiator" /\ m.holder = Initiator)
AttachAccepted(m, p) == m.status = "draft" /\ p = Initiator

-----------------------------------------------------------------------------
(* Properties *)

\* Request s has fetched the record the reader was shown.
Presses(s) == At(s, "open") /\ th[s].row = memo /\ Reads(memo, th[s].who)

\* What the dialog offers amiss: to save the draft of another, and one whose approver is
\* its initiator, which creating it allows and set_approver refuses to repeat.
DraftOfAnother(m, p) == m.status = "draft" /\ p # Initiator
OwnApprover(m) == m.approver = Initiator


\* The same of saving and attaching, with nothing excepted; the code does not keep it.
SaveAndAttachAccepted == \A s \in Sessions : Presses(s) =>
    LET p == th[s].who IN
    /\ SaveShown(memo, p) => SaveAccepted(memo, p)
    /\ CanAttach(memo, p) => AttachAccepted(memo, p)
=============================================================================
