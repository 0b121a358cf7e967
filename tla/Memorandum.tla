----------------------------- MODULE Memorandum -----------------------------
(***************************************************************************)
(* One memorandum and its way through the recommenders to the approver:    *)
(* backend/memoranda/workflow.py and viewsets.py.  Every request fetches   *)
(* the row (get_object) and later acts on what it fetched, without a lock; *)
(* the recommenders and the log are read when they are needed.  A PATCH is *)
(* three transactions: the row is saved whole, then set_chain, which asks  *)
(* its questions before its transaction, and set_approver.                 *)
(***************************************************************************)
EXTENDS Naturals, Sequences, FiniteSets

CONSTANTS
    Initiator,   \* the employee who raised it
    Staff,       \* everybody else
    Nobody,      \* an empty holder or approver
    Chains,      \* the recommender chains that may be drawn
    Sessions,    \* HTTP request threads
    MaxEdits     \* bound: revisions of the content

People  == Staff \cup {Initiator}
Drawn(c) == {c[i] : i \in DOMAIN c}

ASSUME PeopleAssumption == Initiator \notin Staff /\ Nobody \notin People
ASSUME ChainsAssumption ==
    /\ Chains \subseteq Seq(Staff) /\ <<>> \in Chains
    /\ \A c \in Chains : \A i, j \in DOMAIN c : c[i] = c[j] => i = j
ASSUME EditsAssumption == MaxEdits \in Nat

VARIABLES
    memo,     \* the Memorandum row
    chain,    \* MemorandumRecommender: order is the position
    log,      \* MemorandumEvent rows that has_ever_acted reads
    signed,   \* MemorandumSignature: who has signed
    th        \* per session: the row it fetched, for whom, and where it is

vars == <<memo, chain, log, signed, th>>

Status == {"draft", "in_progress", "approved", "rejected", "archived"}
Stage  == {"draft", "recommend", "approve", "closed"}
Memo   == [status : Status, stage : Stage, approver : People \cup {Nobody},
           holder : People \cup {Nobody}, current_index : Nat, content : Nat]

\* `role` is what the actor was on the memorandum when he acted.
Role  == {"initiator", "approver", "recommender"}
Event == [who : People, role : Role \cup {"none"}, kind : {"proceeded", "returned", "decided"}]

\* A PATCH is at "chain" or "approver" once the row is saved, and at "redraw" when
\* set_chain has accepted the chain `draw`.
Thread == [pc : {"idle", "open", "chain", "redraw", "approver"}, who : People, row : Memo,
           draw : Chains]

Draft(p) == [status |-> "draft", stage |-> "draft", approver |-> p, holder |-> Nobody,
             current_index |-> 0, content |-> 0]
Idle == [pc |-> "idle", who |-> Initiator, row |-> Draft(Nobody), draw |-> <<>>]

TypeOK ==
    /\ memo \in Memo /\ chain \in Chains /\ log \subseteq Event /\ signed \subseteq People
    /\ th \in [Sessions -> Thread]

-----------------------------------------------------------------------------
(* What the workflow asks of a memorandum it was handed *)

LockedUnfiled(m) == m.status \in {"approved", "rejected"}    \* mutant
Locked(m)   == m.status \in {"approved", "rejected", "archived"}
Holds(m, p) == m.status = "in_progress" /\ m.holder = p

MayWriteAlways(m, p) == p = Initiator /\ ~Locked(m)    \* mutant

\* may_write: the initiator, while it is a draft or on his own desk.
MayWrite(m, p) == p = Initiator /\ ~Locked(m) /\ (m.status = "draft" \/ m.holder = p)

RoleOf(m, p) ==
    CASE p = Initiator      -> "initiator"
      [] p = m.approver     -> "approver"
      [] p \in Drawn(chain) -> "recommender"
      [] OTHER              -> "none"

ActedSentOn(p) == \E e \in log : e.who = p /\ e.kind = "proceeded"    \* mutant
HasEverActed(p) == \E e \in log : e.who = p

\* The cursor at position i of the chain, or past its end: at the approver.
PlaceAt(m, i) ==
    IF i < Len(chain)
    THEN [m EXCEPT !.stage = "recommend", !.current_index = i, !.holder = chain[i + 1]]
    ELSE [m EXCEPT !.stage = "approve", !.current_index = Len(chain), !.holder = m.approver]

\* eligible_return_targets: the initiator, and who stands before the cursor.
ReturnTargets(m) ==
    {Initiator} \cup {chain[i] : i \in {j \in DOMAIN chain : j <= m.current_index}}

-----------------------------------------------------------------------------
(* One request *)

At(s, pc) == th[s].pc = pc
Done(s)   == th' = [th EXCEPT ![s] = Idle]
Moved(m)  == memo' = [memo EXCEPT !.stage = m.stage, !.current_index = m.current_index,
                                  !.holder = m.holder]
Logged(s, kind) ==
    log' = log \cup {[who |-> th[s].who, role |-> RoleOf(th[s].row, th[s].who), kind |-> kind]}

\* get_object: whoever takes part in the memorandum sees it.
Open(s, p) ==
    /\ At(s, "idle")
    /\ RoleOf(memo, p) # "none" \/ HasEverActed(p)
    /\ th' = [th EXCEPT ![s] = [pc |-> "open", who |-> p, row |-> memo, draw |-> <<>>]]
    /\ UNCHANGED <<memo, chain, log, signed>>

\* Refused, or it dies: what it has written stays.
Leave(s) == ~At(s, "idle") /\ Done(s) /\ UNCHANGED <<memo, chain, log, signed>>

Submittable(m) == m.status = "draft" /\ (chain # <<>> \/ m.approver # Nobody)

\* The whole row is saved.
Submit(s) ==
    /\ At(s, "open") /\ th[s].who = Initiator /\ Submittable(th[s].row)
    /\ memo' = [PlaceAt(th[s].row, 0) EXCEPT !.status = "in_progress"]
    /\ Done(s)
    /\ UNCHANGED <<chain, log, signed>>

Proceed(s) ==
    LET m == th[s].row IN
    /\ At(s, "open") /\ Holds(m, th[s].who) /\ m.stage # "approve"
    /\ Moved(PlaceAt(m, m.current_index + 1))
    /\ Logged(s, "proceeded")
    /\ Done(s)
    /\ UNCHANGED <<chain, signed>>

Skip(s) ==
    LET m == th[s].row IN
    /\ At(s, "open") /\ th[s].who = Initiator
    /\ m.status = "in_progress" /\ m.stage # "approve" /\ m.holder # Initiator
    /\ Moved(PlaceAt(m, m.current_index + 1))
    /\ Done(s)
    /\ UNCHANGED <<chain, log, signed>>

SendBack(s) ==
    LET m == th[s].row IN
    /\ At(s, "open") /\ Holds(m, th[s].who)
    /\ \/ Moved([m EXCEPT !.stage = "recommend", !.current_index = 0, !.holder = Initiator])
       \/ \E i \in DOMAIN chain : chain[i] \in ReturnTargets(m) /\ Moved(PlaceAt(m, i - 1))
    /\ Logged(s, "returned")
    /\ Done(s)
    /\ UNCHANGED <<chain, signed>>

Resubmit(s) ==
    /\ At(s, "open") /\ th[s].who = Initiator /\ Holds(th[s].row, Initiator)
    /\ Moved(PlaceAt(th[s].row, 0))
    /\ Done(s)
    /\ UNCHANGED <<chain, log, signed>>

Decide(s) ==
    /\ At(s, "open") /\ Holds(th[s].row, th[s].who) /\ th[s].row.stage = "approve"
    /\ \E verdict \in {"approved", "rejected"} :
          memo' = [memo EXCEPT !.status = verdict, !.stage = "closed", !.holder = Nobody]
    /\ Logged(s, "decided")
    /\ Done(s)
    /\ UNCHANGED <<chain, signed>>

Archive(s) ==
    /\ At(s, "open") /\ th[s].who = Initiator
    /\ th[s].row.status \notin {"archived", "in_progress"}
    /\ memo' = [memo EXCEPT !.status = "archived"]
    /\ Done(s)
    /\ UNCHANGED <<chain, log, signed>>

Sign(s) ==
    /\ At(s, "open") /\ ~Locked(th[s].row)
    /\ RoleOf(th[s].row, th[s].who) # "none" /\ th[s].who \notin signed
    /\ signed' = signed \cup {th[s].who}
    /\ Done(s)
    /\ UNCHANGED <<memo, chain, log>>

Unsign(s) ==
    /\ At(s, "open") /\ ~Locked(th[s].row) /\ th[s].who \in signed
    /\ signed' = signed \ {th[s].who}
    /\ Done(s)
    /\ UNCHANGED <<memo, chain, log>>

-----------------------------------------------------------------------------
(* Changing what it says and who signs it *)

\* The next transaction of a PATCH, if there is one.
Then(s, pc, row) ==
    th' = [th EXCEPT ![s] = IF pc = "idle" THEN Idle
                            ELSE [pc |-> pc, who |-> th[s].who, row |-> row, draw |-> <<>>]]

\* perform_update: the row is saved whole, as it was fetched.
PatchSave(s, content, next) ==
    LET new == [th[s].row EXCEPT !.content = content] IN
    /\ At(s, "open") /\ content \in {th[s].row.content, th[s].row.content + 1}
    /\ th[s].who = Initiator /\ ~Locked(th[s].row)
    /\ content # th[s].row.content => MayWrite(th[s].row, Initiator)
    /\ memo' = new
    /\ Then(s, next, new)
    /\ UNCHANGED <<chain, log, signed>>

\* set_chain refuses to remove who has acted or is holding it.
Removable(m, p) == ~HasEverActed(p) /\ m.holder # p

ChainAccepted(m, new) ==
    /\ ~Locked(m)
    /\ \A p \in Drawn(chain) \ Drawn(new) : Removable(m, p)
    /\ m.approver \notin Drawn(new)

\* Its questions are asked before its transaction.
ChainCheck(s, new) ==
    /\ At(s, "chain") /\ ChainAccepted(th[s].row, new)
    /\ th' = [th EXCEPT ![s].pc = "redraw", ![s].draw = new]
    /\ UNCHANGED <<memo, chain, log, signed>>

\* The rows are renumbered one by one and no two may have the same order even
\* for a moment: nobody who stays can move further back.
Renumbers(new) ==
    \A i \in DOMAIN new, j \in DOMAIN chain : new[i] = chain[j] => i <= j

\* The cursor stays with the holder, wherever he now stands.
IsAnchored(m, new)  == m.stage = "recommend" /\ m.holder \in Drawn(new)
CursorNot(m, new)   == m.current_index    \* mutant
Cursor(m, new)      == (CHOOSE i \in DOMAIN new : new[i] = m.holder) - 1

SetChain(s, next) ==
    LET m   == th[s].row
        new == th[s].draw
        Anchored(r) == IF IsAnchored(m, new) THEN [r EXCEPT !.current_index = Cursor(m, new)] ELSE r
    IN
    /\ At(s, "redraw") /\ Renumbers(new)
    /\ chain' = new
    /\ memo' = Anchored(memo)
    /\ Then(s, next, Anchored(m))
    /\ UNCHANGED <<log, signed>>

\* set_approver: until it has reached him.
ChangeableAlways(m) == ~Locked(m)    \* mutant
Changeable(m) == ~Locked(m) /\ m.stage # "approve"

ApproverAccepted(m, p) == Changeable(m) /\ p \notin Drawn(chain) \cup {Initiator}

SetApprover(s, p) ==
    /\ At(s, "approver") /\ ApproverAccepted(th[s].row, p)
    /\ memo' = [memo EXCEPT !.approver = p]
    /\ Done(s)
    /\ UNCHANGED <<chain, log, signed>>

-----------------------------------------------------------------------------

\* perform_create saves whatever approver it is given; a chain that names him is
\* refused after the draft is saved.
Init ==
    /\ \E p \in People \cup {Nobody} :
          memo = Draft(p) /\ chain \in {c \in Chains : p \notin Drawn(c)}
    /\ log = {} /\ signed = {}
    /\ th = [s \in Sessions |-> Idle]

Travel(s) ==
    Submit(s) \/ Proceed(s) \/ Skip(s) \/ SendBack(s) \/ Resubmit(s) \/ Decide(s) \/ Archive(s)

Patch(s) ==
    \/ \E content \in 0 .. MaxEdits, next \in {"chain", "approver", "idle"} :
          PatchSave(s, content, next)
    \/ \E new \in Chains : ChainCheck(s, new)
    \/ \E next \in {"approver", "idle"} : SetChain(s, next)
    \/ \E p \in Staff \cup {Nobody} : SetApprover(s, p)

Next == \E s \in Sessions :
    (\E p \in People : Open(s, p)) \/ Leave(s) \/ Travel(s) \/ Sign(s) \/ Unsign(s) \/ Patch(s)

Spec == Init /\ [][Next]_vars

-----------------------------------------------------------------------------
(* Properties *)

\* The holder, the stage and the cursor say the same thing: a travelling
\* memorandum is back with the initiator, or with the recommender the cursor
\* points at, or with the approver.  Every transition writes the three, and a
\* redrawn chain moves people under the cursor.
OnOneDesk == memo.status = "in_progress" =>
    \/ memo.stage = "recommend" /\ memo.holder = Initiator /\ memo.current_index = 0
    \/ /\ memo.stage = "recommend" /\ memo.current_index < Len(chain)
       /\ memo.holder = chain[memo.current_index + 1]
    \/ memo.stage = "approve" /\ memo.holder = memo.approver

\* Whoever has acted as a recommender, at any time and however often it came
\* back since, is still in the chain: set_chain refuses to take him off.  Of one
\* user at a time: he may act between its question and its transaction.
HandledStay == \A e \in log : e.role = "recommender" => e.who \in Drawn(chain)

\* A decided memorandum is evidence, and so is a filed one: afterwards nobody
\* changes what it says, who signed it or who was to decide, and it can only be
\* filed.
DecidedFinal == [][memo.status \in {"approved", "rejected", "archived"} =>
    /\ UNCHANGED <<chain, signed, memo.content, memo.approver>>
    /\ memo'.status \in {memo.status, "archived"}]_vars

\* A decision is the named approver's own: the log has it under his name.
DecidedBy == memo.status \in {"approved", "rejected"} =>
    \E e \in log : e.kind = "decided" /\ e.who = memo.approver

-----------------------------------------------------------------------------
(* What a memorandum promises those it goes round to *)

Circulated == INSTANCE Circulation
    WITH status <- memo.status, stage <- memo.stage, desk <- memo.holder,
         approver <- memo.approver, content <- memo.content

\* However the chain is redrawn, skipped along and sent back through, the memorandum
\* lies on one desk at a time, is rewritten only while it lies with its initiator, and
\* is decided once, by the approver it names, from his own desk (workflow.py,
\* may_write, decide and set_approver).
ImplementsCirculation == Circulated!Spec
=============================================================================
