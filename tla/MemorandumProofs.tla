-------------------------- MODULE MemorandumProofs --------------------------
(***************************************************************************)
(* Theorems about Memorandum, for any staff, chains of any length, revisions *)
(* and users.                                                              *)
(***************************************************************************)
EXTENDS Memorandum, TLAPS

LEMMA ThreadKept ==
    ASSUME TypeOK, NEW s \in Sessions, NEW r \in Thread, th' = [th EXCEPT ![s] = r]
    PROVE  /\ th' \in [Sessions -> Thread]
           /\ th'[s] = r
           /\ \A t \in Sessions : t # s => th'[t] = th[t]
BY DEF TypeOK

LEMMA IdleTyped == Idle \in Thread /\ \A p \in People \cup {Nobody} : Draft(p) \in Memo
BY PeopleAssumption, ChainsAssumption DEF Idle, Thread, Draft, Memo, Status, Stage, People

\* A chain is a sequence of people, and the cursor is set inside it.
LEMMA ChainTyped ==
    ASSUME NEW c \in Chains
    PROVE  /\ Len(c) \in Nat /\ DOMAIN c = 1 .. Len(c)
           /\ \A i \in DOMAIN c : c[i] \in Staff
           /\ Drawn(c) \subseteq Staff
<1>1. c \in Seq(Staff)
  BY ChainsAssumption
<1>2. /\ Len(c) \in Nat /\ DOMAIN c = 1 .. Len(c)
      /\ \A i \in DOMAIN c : c[i] \in Staff
  BY <1>1
<1> QED
  BY <1>2 DEF Drawn

LEMMA Placed ==
    ASSUME TypeOK, NEW m \in Memo, NEW i \in Nat
    PROVE  /\ PlaceAt(m, i) \in Memo
           /\ PlaceAt(m, i).status = m.status /\ PlaceAt(m, i).approver = m.approver
           /\ \/ /\ PlaceAt(m, i).stage = "recommend" /\ PlaceAt(m, i).current_index < Len(chain)
                 /\ PlaceAt(m, i).holder = chain[PlaceAt(m, i).current_index + 1]
              \/ PlaceAt(m, i).stage = "approve" /\ PlaceAt(m, i).holder = m.approver
<1>1. chain \in Chains /\ Len(chain) \in Nat
  BY ChainTyped DEF TypeOK
<1>2. CASE i < Len(chain)
  <2>1. i + 1 \in DOMAIN chain /\ chain[i + 1] \in People \cup {Nobody}
    BY <1>1, <1>2, ChainTyped DEF People
  <2>2. PlaceAt(m, i) = [m EXCEPT !.stage = "recommend", !.current_index = i,
                                  !.holder = chain[i + 1]]
    BY <1>2 DEF PlaceAt
  <2> QED
    BY <1>2, <2>1, <2>2 DEF Memo, Stage
<1>3. CASE ~(i < Len(chain))
  <2>1. PlaceAt(m, i) = [m EXCEPT !.stage = "approve", !.current_index = Len(chain),
                                  !.holder = m.approver]
    BY <1>3 DEF PlaceAt
  <2> QED
    BY <1>1, <2>1 DEF Memo, Stage
<1> QED
  BY <1>2, <1>3

LEMMA MovedTyped ==
    ASSUME TypeOK, NEW m \in Memo, Moved(m)
    PROVE  /\ memo' \in Memo
           /\ memo'.status = memo.status /\ memo'.approver = memo.approver
           /\ memo'.stage = m.stage /\ memo'.current_index = m.current_index
           /\ memo'.holder = m.holder
BY DEF TypeOK, Memo, Moved

\* A redrawn chain that still has the holder has him where the cursor is put.
LEMMA CursorPlaces ==
    ASSUME NEW new \in Chains, NEW m \in Memo, m.holder \in Drawn(new)
    PROVE  /\ Cursor(m, new) \in Nat /\ Cursor(m, new) < Len(new)
           /\ new[Cursor(m, new) + 1] = m.holder
<1>1. PICK i \in DOMAIN new : new[i] = m.holder
  BY DEF Drawn
<1> DEFINE k == CHOOSE j \in DOMAIN new : new[j] = m.holder
<1>2. k \in DOMAIN new /\ new[k] = m.holder
  BY <1>1
<1>3. k \in 1 .. Len(new) /\ Len(new) \in Nat /\ Cursor(m, new) = k - 1
  BY <1>2, ChainTyped DEF Cursor
<1> HIDE DEF k
<1>4. k - 1 \in Nat /\ k - 1 < Len(new) /\ (k - 1) + 1 = k
  BY <1>3
<1> QED
  BY <1>2, <1>3, <1>4

LEMMA LoggedTyped ==
    ASSUME TypeOK, NEW s \in Sessions, NEW kind \in {"proceeded", "returned", "decided"},
           Logged(s, kind)
    PROVE  /\ log' \subseteq Event
           /\ \A e \in log' \ log : e.role = "recommender" => e.who \in Drawn(chain)
<1>1. th[s] \in Thread /\ th[s].who \in People
  BY DEF TypeOK, Thread
<1>2. RoleOf(th[s].row, th[s].who) \in Role \cup {"none"}
  BY DEF RoleOf, Role
<1>3. RoleOf(th[s].row, th[s].who) = "recommender" => th[s].who \in Drawn(chain)
  BY DEF RoleOf
<1> HIDE DEF RoleOf
<1> QED
  BY <1>1, <1>2, <1>3 DEF Logged, Event, TypeOK

-----------------------------------------------------------------------------
(* Types *)

LEMMA DoneTyped ==
    ASSUME TypeOK, NEW s \in Sessions, Done(s)
    PROVE  th' \in [Sessions -> Thread]
BY IdleTyped, ThreadKept DEF Done

LEMMA ThenTyped ==
    ASSUME TypeOK, NEW s \in Sessions, NEW pc \in {"chain", "approver", "idle"}, NEW row \in Memo,
           Then(s, pc, row)
    PROVE  th' \in [Sessions -> Thread]
<1>1. [pc |-> pc, who |-> th[s].who, row |-> row, draw |-> <<>>] \in Thread \/ pc = "idle"
  BY ChainsAssumption DEF TypeOK, Thread
<1> QED
  BY <1>1, IdleTyped, ThreadKept DEF Then

LEMMA TypeStep == TypeOK /\ [Next]_vars => TypeOK'
<1> SUFFICES ASSUME TypeOK, [Next]_vars PROVE TypeOK'
  OBVIOUS
<1>1. CASE UNCHANGED vars
  BY <1>1 DEF vars, TypeOK
<1>2. ASSUME NEW s \in Sessions, NEW p \in People, Open(s, p) PROVE TypeOK'
  <2>1. [pc |-> "open", who |-> p, row |-> memo, draw |-> <<>>] \in Thread
    BY ChainsAssumption DEF TypeOK, Thread
  <2>2. th' \in [Sessions -> Thread]
    BY <1>2, <2>1, ThreadKept DEF Open
  <2> QED
    BY <1>2, <2>2 DEF Open, TypeOK
<1>3. ASSUME NEW s \in Sessions, Leave(s) \/ Sign(s) \/ Unsign(s) PROVE TypeOK'
  <2>1. th' \in [Sessions -> Thread] /\ th[s].who \in People
    BY <1>3, DoneTyped DEF Leave, Sign, Unsign, TypeOK, Thread
  <2>2. signed' \subseteq People /\ UNCHANGED <<memo, chain, log>>
    BY <1>3, <2>1 DEF Leave, Sign, Unsign, TypeOK
  <2> QED
    BY <2>1, <2>2 DEF TypeOK
<1>4. ASSUME NEW s \in Sessions, Travel(s) PROVE TypeOK'
  <2>1. th' \in [Sessions -> Thread] /\ th[s].row \in Memo /\ chain' = chain /\ signed' = signed
    <3>1. Done(s) /\ chain' = chain /\ signed' = signed
      BY <1>4 DEF Travel, Submit, Proceed, Skip, SendBack, Resubmit, Decide, Archive
    <3> QED
      BY <3>1, DoneTyped DEF TypeOK, Thread
  <2>2. log' \subseteq Event
    BY <1>4, LoggedTyped
    DEF Travel, Submit, Proceed, Skip, SendBack, Resubmit, Decide, Archive, TypeOK
  <2>3. memo' \in Memo
    <3>1. CASE Submit(s)
      <4>1. PlaceAt(th[s].row, 0) \in Memo
        BY <2>1, Placed
      <4> HIDE DEF PlaceAt
      <4> QED
        BY <3>1, <4>1 DEF Submit, Memo, Status
    <3>2. CASE Proceed(s) \/ Skip(s) \/ Resubmit(s)
      <4>1. th[s].row.current_index + 1 \in Nat /\ 0 \in Nat
        BY <2>1 DEF Memo
      <4>2. PICK i \in Nat : Moved(PlaceAt(th[s].row, i))
        BY <3>2, <4>1 DEF Proceed, Skip, Resubmit
      <4> QED
        BY <2>1, <4>2, Placed, MovedTyped
    <3>3. CASE SendBack(s)
      <4>1. CASE Moved([th[s].row EXCEPT !.stage = "recommend", !.current_index = 0,
                                         !.holder = Initiator])
        <5>1. [th[s].row EXCEPT !.stage = "recommend", !.current_index = 0,
                                !.holder = Initiator] \in Memo
          BY <2>1 DEF Memo, Stage, People
        <5> QED
          BY <4>1, <5>1, MovedTyped
      <4>2. CASE \E i \in DOMAIN chain : Moved(PlaceAt(th[s].row, i - 1))
        <5>1. PICK i \in DOMAIN chain : Moved(PlaceAt(th[s].row, i - 1))
          BY <4>2
        <5>2. i - 1 \in Nat
          BY ChainTyped DEF TypeOK
        <5> QED
          BY <2>1, <5>1, <5>2, Placed, MovedTyped
      <4> QED
        BY <3>3, <4>1, <4>2 DEF SendBack
    <3>4. CASE Decide(s) \/ Archive(s)
      BY <3>4 DEF Decide, Archive, TypeOK, Memo, Status, Stage
    <3> QED
      BY <1>4, <3>1, <3>2, <3>3, <3>4 DEF Travel
  <2> QED
    BY <2>1, <2>2, <2>3 DEF TypeOK
<1>5. ASSUME NEW s \in Sessions, NEW content \in 0 .. MaxEdits,
             NEW next \in {"chain", "approver", "idle"}, PatchSave(s, content, next)
      PROVE  TypeOK'
  <2>1. [th[s].row EXCEPT !.content = content] \in Memo
    BY EditsAssumption DEF TypeOK, Thread, Memo
  <2>2. th' \in [Sessions -> Thread] /\ memo' \in Memo
    BY <1>5, <2>1, ThenTyped DEF PatchSave
  <2> QED
    BY <1>5, <2>2 DEF PatchSave, TypeOK
<1>c. ASSUME NEW s \in Sessions, NEW new \in Chains, ChainCheck(s, new) PROVE TypeOK'
  <2>1. [th[s] EXCEPT !.pc = "redraw", !.draw = new] \in Thread
    BY DEF TypeOK, Thread
  <2>2. th' = [th EXCEPT ![s] = [th[s] EXCEPT !.pc = "redraw", !.draw = new]]
    BY <1>c DEF ChainCheck, TypeOK
  <2>3. th' \in [Sessions -> Thread]
    BY <2>1, <2>2, ThreadKept
  <2> QED
    BY <1>c, <2>3 DEF ChainCheck, TypeOK
<1>6. ASSUME NEW s \in Sessions, NEW next \in {"approver", "idle"}, SetChain(s, next)
      PROVE  TypeOK'
  <2> DEFINE new == th[s].draw
  <2> DEFINE Anchored(r) == IF IsAnchored(th[s].row, new)
                            THEN [r EXCEPT !.current_index = Cursor(th[s].row, new)] ELSE r
  <2>1. th[s].row \in Memo /\ memo \in Memo /\ new \in Chains
    BY DEF TypeOK, Thread
  <2> HIDE DEF new
  <2>2. IsAnchored(th[s].row, new) => Cursor(th[s].row, new) \in Nat
    BY <2>1, CursorPlaces DEF IsAnchored
  <2>3. Anchored(th[s].row) \in Memo /\ Anchored(memo) \in Memo
    BY <2>1, <2>2 DEF Memo
  <2>4. th' \in [Sessions -> Thread] /\ memo' \in Memo
    <3>1. Then(s, next, Anchored(th[s].row)) /\ memo' = Anchored(memo)
      BY <1>6 DEF SetChain, new
    <3> HIDE DEF Anchored
    <3> QED
      BY <2>3, <3>1, ThenTyped
  <2> QED
    BY <1>6, <2>1, <2>4 DEF SetChain, TypeOK, new
<1>7. ASSUME NEW s \in Sessions, NEW p \in Staff \cup {Nobody}, SetApprover(s, p) PROVE TypeOK'
  <2>1. th' \in [Sessions -> Thread]
    BY <1>7, DoneTyped DEF SetApprover
  <2> QED
    BY <1>7, <2>1 DEF SetApprover, TypeOK, Memo, People
<1> QED
  BY <1>1, <1>2, <1>3, <1>4, <1>5, <1>c, <1>6, <1>7 DEF Next, Patch

\* Every variable of the memorandum keeps its type, whatever the users do
\* between fetching the row and saving it.
THEOREM TypeCorrect == Spec => []TypeOK
<1>1. Init => TypeOK
  BY IdleTyped DEF Init, TypeOK
<1> QED
  BY <1>1, TypeStep, PTL DEF Spec

-----------------------------------------------------------------------------
(* One user at a time: what a request has fetched is the row *)

OneUser  == \A s, t \in Sessions : s = t
Faithful == \A s \in Sessions : th[s].pc # "idle" => th[s].row = memo

\* ... and a chain that set_chain has accepted is one it would still accept.
Checked == \A s \in Sessions : At(s, "redraw") => ChainAccepted(memo, th[s].draw)

Inv == TypeOK /\ Faithful /\ Checked /\ OnOneDesk

LEMMA FaithfulStep ==
    ASSUME OneUser, TypeOK, Faithful, [Next]_vars
    PROVE  Faithful'
<1>1. ASSUME NEW s \in Sessions, Done(s) PROVE Faithful'
  <2>1. th'[s].pc = "idle"
    BY <1>1 DEF Done, TypeOK, Idle
  <2> QED
    BY <2>1 DEF OneUser, Faithful
<1>2. ASSUME NEW s \in Sessions, NEW pc \in {"chain", "approver", "idle"}, Then(s, pc, memo'),
             memo' \in Memo
      PROVE  Faithful'
  <2>1. th'[s] = IF pc = "idle" THEN Idle
                 ELSE [pc |-> pc, who |-> th[s].who, row |-> memo', draw |-> <<>>]
    BY <1>2 DEF Then, TypeOK
  <2> QED
    BY <2>1 DEF OneUser, Faithful, Idle
<1>3. ASSUME NEW s \in Sessions, NEW p \in People, Open(s, p) PROVE Faithful'
  <2>1. th'[s] = [pc |-> "open", who |-> p, row |-> memo, draw |-> <<>>] /\ memo' = memo
    BY <1>3 DEF Open, TypeOK
  <2> QED
    BY <2>1 DEF OneUser, Faithful
<1>4. ASSUME NEW s \in Sessions, NEW content \in 0 .. MaxEdits,
             NEW next \in {"chain", "approver", "idle"}, PatchSave(s, content, next)
      PROVE  Faithful'
  <2>1. Then(s, next, memo') /\ memo' \in Memo
    BY <1>4, TypeStep DEF PatchSave, TypeOK
  <2> QED
    BY <1>2, <2>1
<1>c. ASSUME NEW s \in Sessions, NEW new \in Chains, ChainCheck(s, new) PROVE Faithful'
  <2>1. th'[s].row = memo /\ memo' = memo
    BY <1>c DEF ChainCheck, At, Faithful, TypeOK, Thread
  <2> QED
    BY <2>1 DEF OneUser, Faithful
<1>5. ASSUME NEW s \in Sessions, NEW next \in {"approver", "idle"}, SetChain(s, next)
      PROVE  Faithful'
  <2>1. th[s].row = memo
    BY <1>5 DEF SetChain, At, Faithful
  <2>2. Then(s, next, memo')
    BY <1>5, <2>1 DEF SetChain
  <2> QED
    BY <1>2, <2>2, TypeStep DEF TypeOK
<1>6. CASE UNCHANGED vars
  BY <1>6 DEF vars, Faithful
<1> QED
  BY <1>1, <1>3, <1>4, <1>c, <1>5, <1>6
  DEF Next, Leave, Sign, Unsign, Travel, Patch, Submit, Proceed, Skip, SendBack,
      Resubmit, Decide, Archive, SetApprover

LEMMA CheckedStep ==
    ASSUME OneUser, TypeOK, Faithful, Checked, [Next]_vars
    PROVE  Checked'
<1>1. CASE UNCHANGED vars
  BY <1>1 DEF vars, Checked, At, ChainAccepted, Removable, HasEverActed
<1>2. ASSUME NEW s \in Sessions, NEW new \in Chains, ChainCheck(s, new) PROVE Checked'
  <2>1. th'[s].draw = new /\ ChainAccepted(memo, new)
    BY <1>2 DEF ChainCheck, At, Faithful, TypeOK, Thread
  <2>2. ChainAccepted(memo, new)'
    BY <1>2, <2>1 DEF ChainCheck, ChainAccepted, Removable, HasEverActed
  <2> QED
    BY <2>1, <2>2 DEF OneUser, Checked
<1>3. ASSUME NEW s \in Sessions, th'[s].pc # "redraw" PROVE Checked'
  BY <1>3 DEF OneUser, Checked, At
<1>4. ASSUME NEW s \in Sessions, Done(s) PROVE Checked'
  <2>1. th'[s].pc # "redraw"
    BY <1>4 DEF Done, Idle, TypeOK
  <2> QED
    BY <1>3, <2>1
<1>5. ASSUME NEW s \in Sessions, NEW pc \in {"chain", "approver", "idle"}, NEW row, Then(s, pc, row)
      PROVE  Checked'
  <2>1. th'[s].pc # "redraw"
    BY <1>5 DEF Then, Idle, TypeOK
  <2> QED
    BY <1>3, <2>1
<1>6. ASSUME NEW s \in Sessions, NEW p \in People, Open(s, p) PROVE Checked'
  <2>1. th'[s].pc # "redraw"
    BY <1>6 DEF Open, TypeOK
  <2> QED
    BY <1>3, <2>1
<1>7. ASSUME NEW s \in Sessions, Patch(s) PROVE Checked'
  BY <1>2, <1>4, <1>5, <1>7 DEF Patch, PatchSave, SetChain, SetApprover
<1> QED
  BY <1>1, <1>4, <1>6, <1>7
  DEF Next, Leave, Sign, Unsign, Travel, Submit, Proceed, Skip, SendBack, Resubmit, Decide, Archive

LEMMA OnOneDeskStep ==
    ASSUME OneUser, Inv, [Next]_vars
    PROVE  OnOneDesk'
<1> USE DEF Inv
<1>1. TypeOK'
  BY TypeStep
<1>2. CASE UNCHANGED <<memo, chain>>
  BY <1>2 DEF OnOneDesk
<1>3. ASSUME NEW s \in Sessions, NEW i \in Nat, At(s, "open"), chain' = chain,
             \/ Moved(PlaceAt(th[s].row, i))
             \/ memo' = [PlaceAt(th[s].row, i) EXCEPT !.status = "in_progress"]
      PROVE  OnOneDesk'
  <2>1. th[s].row = memo /\ memo \in Memo
    BY <1>3 DEF Faithful, At, TypeOK
  <2> DEFINE m == PlaceAt(th[s].row, i)
  <2>2. /\ m \in Memo /\ m.approver = memo.approver
        /\ \/ /\ m.stage = "recommend" /\ m.current_index < Len(chain)
              /\ m.holder = chain[m.current_index + 1]
           \/ m.stage = "approve" /\ m.holder = memo.approver
    BY <2>1, Placed
  <2>3. Moved(m) \/ memo' = [m EXCEPT !.status = "in_progress"]
    BY <1>3
  <2> HIDE DEF m
  <2>4. /\ memo'.stage = m.stage /\ memo'.current_index = m.current_index
        /\ memo'.holder = m.holder /\ memo'.approver = m.approver
    BY <2>2, <2>3, MovedTyped DEF Memo
  <2> QED
    BY <1>3, <2>2, <2>4 DEF OnOneDesk
<1>4. ASSUME NEW s \in Sessions, SendBack(s) PROVE OnOneDesk'
  <2>1. CASE Moved([th[s].row EXCEPT !.stage = "recommend", !.current_index = 0,
                                     !.holder = Initiator])
    <3> DEFINE m == [th[s].row EXCEPT !.stage = "recommend", !.current_index = 0,
                                      !.holder = Initiator]
    <3>1. m \in Memo /\ m.stage = "recommend" /\ m.current_index = 0 /\ m.holder = Initiator
      BY DEF TypeOK, Thread, Memo, Stage, People
    <3>2. Moved(m)
      BY <2>1
    <3> HIDE DEF m
    <3> QED
      BY <3>1, <3>2, MovedTyped DEF OnOneDesk
  <2>2. CASE \E i \in DOMAIN chain : Moved(PlaceAt(th[s].row, i - 1))
    <3>1. PICK i \in DOMAIN chain : Moved(PlaceAt(th[s].row, i - 1))
      BY <2>2
    <3>2. i - 1 \in Nat
      BY ChainTyped DEF TypeOK
    <3> QED
      BY <1>3, <1>4, <3>1, <3>2 DEF SendBack
  <2> QED
    BY <1>4, <2>1, <2>2 DEF SendBack
<1>5. ASSUME NEW s \in Sessions, Travel(s) PROVE OnOneDesk'
  <2>1. CASE Submit(s) \/ Proceed(s) \/ Skip(s) \/ Resubmit(s)
    <3>1. th[s].row.current_index + 1 \in Nat
      BY DEF TypeOK, Thread, Memo
    <3> QED
      BY <1>3, <2>1, <3>1 DEF Submit, Proceed, Skip, Resubmit
  <2>2. CASE Decide(s) \/ Archive(s)
    BY <2>2 DEF Decide, Archive, OnOneDesk, TypeOK, Memo
  <2> QED
    BY <1>4, <1>5, <2>1, <2>2 DEF Travel
<1>6. ASSUME NEW s \in Sessions, NEW content \in 0 .. MaxEdits,
             NEW next \in {"chain", "approver", "idle"}, PatchSave(s, content, next)
      PROVE  OnOneDesk'
  <2>1. memo' = [memo EXCEPT !.content = content] /\ chain' = chain
    BY <1>6 DEF PatchSave, At, Faithful
  <2> QED
    BY <2>1 DEF OnOneDesk, TypeOK, Memo
<1>7. ASSUME NEW s \in Sessions, NEW next \in {"approver", "idle"}, SetChain(s, next)
      PROVE  OnOneDesk'
  <2> DEFINE new == th[s].draw
  <2>1. /\ th[s].row = memo /\ memo \in Memo /\ chain' = new
        /\ chain \in Chains /\ new \in Chains /\ ChainAccepted(memo, new)
    BY <1>7 DEF SetChain, At, Faithful, Checked, TypeOK, Thread
  <2>a. memo' = IF IsAnchored(memo, new)
                THEN [memo EXCEPT !.current_index = Cursor(memo, new)] ELSE memo
    BY <1>7, <2>1 DEF SetChain
  <2> HIDE DEF new
  <2>2. CASE IsAnchored(memo, new)
    <3>1. memo' = [memo EXCEPT !.current_index = Cursor(memo, new)]
      BY <2>2, <2>a
    <3>2. /\ memo.stage = "recommend" /\ memo.holder \in Drawn(new)
          /\ Cursor(memo, new) < Len(new) /\ new[Cursor(memo, new) + 1] = memo.holder
      BY <2>1, <2>2, CursorPlaces DEF IsAnchored
    <3> HIDE DEF Cursor
    <3> QED
      BY <2>1, <3>1, <3>2 DEF OnOneDesk, Memo
  <2>3. CASE ~IsAnchored(memo, new)
    <3>1. memo' = memo
      BY <2>3, <2>a
    <3>2. memo.holder \notin Drawn(chain) \/ memo.holder \in Drawn(new)
      BY <2>1 DEF ChainAccepted, Removable
    <3>3. memo.current_index < Len(chain) => chain[memo.current_index + 1] \in Drawn(chain)
      <4>1. memo.current_index \in Nat /\ Len(chain) \in Nat /\ DOMAIN chain = 1 .. Len(chain)
        BY <2>1, ChainTyped DEF Memo
      <4> QED
        BY <4>1 DEF Drawn
    <3> QED
      BY <2>3, <3>1, <3>2, <3>3 DEF OnOneDesk, IsAnchored
  <2> QED
    BY <2>2, <2>3
<1>8. ASSUME NEW s \in Sessions, NEW p \in Staff \cup {Nobody}, SetApprover(s, p)
      PROVE  OnOneDesk'
  <2>1. memo.stage # "approve" /\ chain' = chain /\ memo' = [memo EXCEPT !.approver = p]
    BY <1>8 DEF SetApprover, ApproverAccepted, Changeable, At, Faithful
  <2> QED
    BY <2>1 DEF OnOneDesk, TypeOK, Memo
<1> QED
  BY <1>2, <1>5, <1>6, <1>7, <1>8 DEF Next, vars, Open, Leave, Sign, Unsign, Patch, ChainCheck

LEMMA InvAlways == OneUser /\ Spec => []Inv
<1>1. Init => Inv
  <2> SUFFICES ASSUME Init PROVE Inv
    OBVIOUS
  <2>1. TypeOK
    BY IdleTyped DEF Init, TypeOK
  <2> QED
    BY <2>1 DEF Inv, Init, Faithful, Checked, At, OnOneDesk, Idle, Draft
<1>2. OneUser /\ Inv /\ [Next]_vars => Inv'
  BY TypeStep, FaithfulStep, CheckedStep, OnOneDeskStep DEF Inv
<1>3. CASE OneUser
  BY <1>1, <1>2, <1>3, PTL DEF Spec
<1> QED
  BY <1>3

\* With one user at a time, the three fields that say where a memorandum is
\* agree in every state, however the chain and the approver are changed under it.
THEOREM OnOneDeskCorrect == OneUser /\ Spec => []OnOneDesk
BY InvAlways, PTL DEF Inv

-----------------------------------------------------------------------------
(* Handlers stay in the chain *)

LEMMA HandledStayStep ==
    ASSUME OneUser, Inv, HandledStay, [Next]_vars
    PROVE  HandledStay'
<1>1. CASE UNCHANGED <<chain, log>>
  BY <1>1 DEF HandledStay, Drawn
<1>2. ASSUME NEW s \in Sessions, NEW kind \in {"proceeded", "returned", "decided"},
             Logged(s, kind), UNCHANGED chain
      PROVE  HandledStay'
  BY <1>2, LoggedTyped DEF Inv, HandledStay, Drawn
<1>3. ASSUME NEW s \in Sessions, NEW next \in {"approver", "idle"}, SetChain(s, next)
      PROVE  HandledStay'
  <2>1. /\ chain' = th[s].draw /\ log' = log
        /\ \A p \in Drawn(chain) \ Drawn(th[s].draw) : ~HasEverActed(p)
    BY <1>3 DEF SetChain, Inv, Checked, ChainAccepted, Removable
  <2> QED
    BY <2>1 DEF HandledStay, HasEverActed, Drawn
<1> QED
  BY <1>1, <1>2, <1>3
  DEF Next, vars, Open, Leave, Sign, Unsign, Travel, Patch, Submit, Proceed, Skip, SendBack,
      Resubmit, Decide, Archive, PatchSave, ChainCheck, SetApprover

\* With one user at a time, somebody who has acted as a recommender stays in the
\* chain: set_chain asks the log, which no return clears.
THEOREM HandledStayCorrect == OneUser /\ Spec => []HandledStay
<1>1. Init => HandledStay
  BY DEF Init, HandledStay
<1>2. OneUser /\ Inv /\ HandledStay /\ [Next]_vars => HandledStay'
  BY HandledStayStep
<1>3. CASE OneUser
  BY <1>1, <1>2, <1>3, InvAlways, PTL DEF Spec
<1> QED
  BY <1>3

-----------------------------------------------------------------------------
(* Decided for good *)

\* Nothing of a decided or filed memorandum changes in a step, except that it is filed.
LEMMA Frozen ==
    ASSUME OneUser, Inv, [Next]_vars, memo.status \in {"approved", "rejected", "archived"}
    PROVE  /\ UNCHANGED <<chain, signed, memo.content, memo.approver>>
           /\ memo'.status \in {memo.status, "archived"}
<1> USE DEF Inv
<1>1. CASE UNCHANGED vars
  BY <1>1 DEF vars
<1>2. ASSUME NEW s \in Sessions, ~At(s, "idle") PROVE th[s].row = memo /\ Locked(th[s].row)
  BY <1>2 DEF At, Faithful, Locked
<1>3. ASSUME NEW s \in Sessions, Archive(s) PROVE
         /\ memo' = [memo EXCEPT !.status = "archived"] /\ UNCHANGED <<chain, signed>>
  BY <1>3 DEF Archive
<1>r. ASSUME NEW s \in Sessions PROVE ~At(s, "redraw")
  BY <1>2 DEF At, Checked, ChainAccepted, Locked
<1>4. ASSUME NEW s \in Sessions, Leave(s) \/ \E p \in People : Open(s, p)
      PROVE  UNCHANGED <<memo, chain, signed>>
  BY <1>4 DEF Leave, Open
<1>5. ASSUME NEW s \in Sessions,
             \/ Submit(s) \/ Proceed(s) \/ Skip(s) \/ SendBack(s) \/ Resubmit(s) \/ Decide(s)
             \/ Sign(s) \/ Unsign(s) \/ Patch(s)
      PROVE  FALSE
  <2>1. ~At(s, "idle")
    BY <1>5 DEF Submit, Proceed, Skip, SendBack, Resubmit, Decide, Sign, Unsign, Patch,
                PatchSave, ChainCheck, SetChain, SetApprover, At
  <2>2. Locked(th[s].row) /\ th[s].row.status \notin {"draft", "in_progress"}
    BY <1>2, <2>1 DEF Locked
  <2> QED
    BY <1>5, <1>r, <2>2
    DEF Submit, Submittable, Proceed, Skip, SendBack, Resubmit, Decide, Holds, Sign, Unsign,
        Patch, PatchSave, ChainCheck, ChainAccepted, SetChain, SetApprover, ApproverAccepted,
        Changeable
<1> QED
  BY <1>1, <1>3, <1>4, <1>5 DEF Next, Travel, TypeOK, Memo

\* With one user at a time, nothing of a decided or filed memorandum changes
\* again, except that it is filed.
THEOREM DecidedFinalCorrect == OneUser /\ Spec => DecidedFinal
<1>1. OneUser /\ Inv /\ [Next]_vars =>
        [memo.status \in {"approved", "rejected", "archived"} =>
            /\ UNCHANGED <<chain, signed, memo.content, memo.approver>>
            /\ memo'.status \in {memo.status, "archived"}]_vars
  BY Frozen
<1>2. CASE OneUser
  BY <1>1, <1>2, InvAlways, PTL DEF Spec, DecidedFinal
<1> QED
  BY <1>2

\* Only a decision makes a memorandum decided, and the one who takes it is the
\* approver: he holds what is at the approver's stage.
LEMMA DecidedByStep ==
    ASSUME OneUser, Inv, DecidedBy, [Next]_vars
    PROVE  DecidedBy'
<1> SUFFICES ASSUME memo'.status \in {"approved", "rejected"}
             PROVE  \E e \in log' : e.kind = "decided" /\ e.who = memo'.approver
  BY DEF DecidedBy
<1> USE DEF Inv
<1>1. CASE memo.status \in {"approved", "rejected", "archived"}
  <2>1. memo.status \in {"approved", "rejected"} /\ memo'.approver = memo.approver
    BY <1>1, Frozen
  <2>2. log \subseteq log'
    BY DEF Next, vars, Open, Leave, Sign, Unsign, Travel, Patch, Submit, Proceed, Skip, SendBack,
           Resubmit, Decide, Archive, Logged, PatchSave, ChainCheck, SetChain, SetApprover
  <2> QED
    BY <2>1, <2>2 DEF DecidedBy
<1>2. ASSUME NEW s \in Sessions, Decide(s)
      PROVE  \E e \in log' : e.kind = "decided" /\ e.who = memo'.approver
  <2>1. th[s].row = memo
    BY <1>2 DEF Decide, At, Faithful
  <2>2. memo.holder = memo.approver /\ th[s].who = memo.holder
    BY <1>2, <2>1 DEF Decide, Holds, OnOneDesk
  <2>3. memo'.approver = memo.approver
    BY <1>2 DEF Decide, TypeOK, Memo
  <2>4. PICK e \in log' : e.who = th[s].who /\ e.kind = "decided"
    <3> DEFINE e == [who |-> th[s].who, role |-> RoleOf(th[s].row, th[s].who), kind |-> "decided"]
    <3>1. e \in log'
      BY <1>2 DEF Decide, Logged
    <3>2. e.who = th[s].who /\ e.kind = "decided"
      OBVIOUS
    <3> HIDE DEF e
    <3> QED
      BY <3>1, <3>2
  <2> QED
    BY <2>2, <2>3, <2>4
<1>3. ASSUME memo.status \notin {"approved", "rejected", "archived"} PROVE \E s \in Sessions : Decide(s)
  <2>1. CASE UNCHANGED memo
    BY <1>3, <2>1
  <2>2. ASSUME NEW s \in Sessions, Submit(s) \/ Archive(s) PROVE FALSE
    <3>1. CASE Submit(s)
      <4>1. PlaceAt(th[s].row, 0) \in Memo
        BY Placed DEF TypeOK, Thread
      <4>2. memo'.status = "in_progress"
        BY <3>1, <4>1 DEF Submit, Memo
      <4> QED
        BY <4>2
    <3>2. CASE Archive(s)
      BY <3>2 DEF Archive, TypeOK, Memo
    <3> QED
      BY <2>2, <3>1, <3>2
  <2>3. ASSUME NEW s \in Sessions, Proceed(s) \/ Skip(s) \/ SendBack(s) \/ Resubmit(s) PROVE FALSE
    <3>1. PICK m : Moved(m)
      BY <2>3 DEF Proceed, Skip, SendBack, Resubmit
    <3>2. memo'.status = memo.status
      BY <3>1 DEF Moved, TypeOK, Memo
    <3> QED
      BY <1>3, <3>2
  <2>4. ASSUME NEW s \in Sessions, NEW content \in 0 .. MaxEdits,
               NEW next \in {"chain", "approver", "idle"}, PatchSave(s, content, next)
        PROVE  FALSE
    <3>1. memo' = [memo EXCEPT !.content = content]
      BY <2>4 DEF PatchSave, At, Faithful
    <3> QED
      BY <1>3, <3>1 DEF TypeOK, Memo
  <2>c. ASSUME NEW s \in Sessions, NEW new \in Chains, ChainCheck(s, new) PROVE FALSE
    BY <1>3, <2>c DEF ChainCheck
  <2>5. ASSUME NEW s \in Sessions, NEW next \in {"approver", "idle"}, SetChain(s, next)
        PROVE  FALSE
    <3>1. PICK i : memo' = memo \/ memo' = [memo EXCEPT !.current_index = i]
      BY <2>5 DEF SetChain
    <3> QED
      BY <1>3, <3>1 DEF TypeOK, Memo
  <2>6. ASSUME NEW s \in Sessions, NEW p \in Staff \cup {Nobody}, SetApprover(s, p) PROVE FALSE
    BY <1>3, <2>6 DEF SetApprover, TypeOK, Memo
  <2> QED
    BY <2>1, <2>2, <2>3, <2>4, <2>c, <2>5, <2>6 DEF Next, vars, Open, Leave, Sign, Unsign, Travel, Patch
<1> QED
  BY <1>1, <1>2, <1>3

\* With one user at a time, an approval or a rejection stands in the log under the
\* name of the approver the memorandum names.
THEOREM DecidedByCorrect == OneUser /\ Spec => []DecidedBy
<1>1. Init => DecidedBy
  BY DEF Init, DecidedBy, Draft
<1>2. OneUser /\ Inv /\ DecidedBy /\ [Next]_vars => DecidedBy'
  BY DecidedByStep
<1>3. CASE OneUser
  BY <1>1, <1>2, <1>3, InvAlways, PTL DEF Spec
<1> QED
  BY <1>3

-----------------------------------------------------------------------------
(* What the memorandum promises those it goes round to *)

Unmoved == Circulated!vars' = Circulated!vars

LEMMA UnmovedIs ==
    ASSUME memo'.status = memo.status, memo'.stage = memo.stage, memo'.holder = memo.holder,
           memo'.approver = memo.approver, memo'.content = memo.content
    PROVE  Unmoved
BY DEF Unmoved, Circulated!vars

\* Where the cursor puts it: on a recommender's desk or the approver's.
LEMMA Reaching ==
    ASSUME TypeOK, NEW i \in Nat
    PROVE  LET m == PlaceAt(memo, i) IN
           \/ m.stage = "recommend" /\ m.holder \in Staff
           \/ m.stage = "approve" /\ m.holder = memo.approver
<1> DEFINE m == PlaceAt(memo, i)
<1>1. /\ m \in Memo
      /\ \/ /\ m.stage = "recommend" /\ m.current_index < Len(chain)
            /\ m.holder = chain[m.current_index + 1]
         \/ m.stage = "approve" /\ m.holder = memo.approver
  BY Placed DEF TypeOK
<1>2. m.current_index \in Nat
  BY <1>1 DEF Memo
<1> HIDE DEF m
<1>3. CASE m.stage = "recommend" /\ m.current_index < Len(chain) /\ m.holder = chain[m.current_index + 1]
  <2>1. m.current_index + 1 \in DOMAIN chain
    BY <1>2, <1>3, ChainTyped DEF TypeOK
  <2>2. m.holder \in Staff
    BY <1>3, <2>1, ChainTyped DEF TypeOK
  <2> QED
    BY <1>3, <2>2 DEF m
<1> QED
  BY <1>1, <1>3 DEF m

\* A transition that sets the cursor moves it to another desk, or leaves it with the
\* approver.
LEMMA MovedCirculates ==
    ASSUME Inv, memo.status = "in_progress", NEW m \in Memo, Moved(m),
           \/ m.stage = "recommend" /\ m.holder \in Staff \cup {Initiator}
           \/ m.stage = "approve" /\ m.holder = memo.approver
    PROVE  Circulated!Move \/ Unmoved
<1>1. /\ memo'.status = memo.status /\ memo'.approver = memo.approver
      /\ memo'.stage = m.stage /\ memo'.holder = m.holder
  BY MovedTyped DEF Inv
<1>2. memo'.content = memo.content
  BY DEF Moved, Inv, TypeOK, Memo
<1>3. CASE memo.stage = "approve" /\ m.stage = "approve"
  <2>1. memo.holder = memo.approver
    BY <1>3 DEF Inv, OnOneDesk
  <2> QED
    BY <1>1, <1>2, <1>3, <2>1, UnmovedIs
<1>4. CASE memo.stage = "approve" => m.stage # "approve"
  <2>1. memo.stage = "approve" => memo'.stage = "recommend"
    BY <1>1, <1>4
  <2>2. Circulated!Reaches(m.holder)
    BY <1>1 DEF Circulated!Reaches
  <2> QED
    BY <1>1, <1>2, <2>1, <2>2 DEF Circulated!Move
<1> QED
  BY <1>3, <1>4

LEMMA TravelCirculates ==
    ASSUME OneUser, Inv, NEW s \in Sessions, Travel(s)
    PROVE  Circulated!Next \/ Unmoved
<1>1. th[s].row = memo /\ memo \in Memo /\ At(s, "open")
  BY DEF Inv, Faithful, TypeOK, At, Travel, Submit, Proceed, Skip, SendBack, Resubmit, Decide, Archive
<1>2. ASSUME NEW i \in Nat, memo.status = "in_progress", Moved(PlaceAt(memo, i))
      PROVE  Circulated!Next \/ Unmoved
  <2>1. PlaceAt(memo, i) \in Memo
    BY <1>1, Placed DEF Inv
  <2>2. Circulated!Move \/ Unmoved
    BY <1>2, <2>1, Reaching, MovedCirculates DEF Inv
  <2> QED
    BY <2>2 DEF Circulated!Next
<1>3. CASE Submit(s)
  <2> DEFINE m == PlaceAt(memo, 0)
  <2>1. /\ m \in Memo /\ m.status = memo.status /\ m.approver = memo.approver
        /\ \/ m.stage = "recommend" /\ m.holder \in Staff
           \/ m.stage = "approve" /\ m.holder = memo.approver
    BY <1>1, Placed, Reaching DEF Inv
  <2>2. m.content = memo.content
    BY <1>1 DEF PlaceAt, Memo
  <2>3. memo' = [m EXCEPT !.status = "in_progress"] /\ memo.status = "draft"
    BY <1>1, <1>3 DEF Submit, Submittable
  <2> HIDE DEF m
  <2>4. /\ memo'.status = "in_progress" /\ memo'.stage = m.stage /\ memo'.holder = m.holder
        /\ memo'.approver = memo.approver /\ memo'.content = memo.content
    BY <2>1, <2>2, <2>3 DEF Memo
  <2>5. Circulated!Reaches(m.holder)
    BY <2>1, <2>4 DEF Circulated!Reaches
  <2>6. Circulated!Submit
    BY <2>1, <2>3, <2>4, <2>5 DEF Circulated!Submit
  <2> QED
    BY <2>6 DEF Circulated!Next
<1>4. CASE Proceed(s) \/ Skip(s) \/ Resubmit(s)
  <2>1. memo.status = "in_progress" /\ 0 \in Nat /\ memo.current_index + 1 \in Nat
    BY <1>1, <1>4 DEF Proceed, Skip, Resubmit, Holds, Memo
  <2>2. PICK i \in Nat : Moved(PlaceAt(memo, i))
    BY <1>1, <1>4, <2>1 DEF Proceed, Skip, Resubmit
  <2> QED
    BY <1>2, <2>1, <2>2
<1>5. CASE SendBack(s)
  <2> DEFINE m == [memo EXCEPT !.stage = "recommend", !.current_index = 0, !.holder = Initiator]
  <2>1. memo.status = "in_progress"
    BY <1>1, <1>5 DEF SendBack, Holds
  <2>2. CASE Moved(m)
    <3>1. m \in Memo /\ m.stage = "recommend" /\ m.holder = Initiator
      BY <1>1 DEF Memo, Stage, People
    <3> HIDE DEF m
    <3>2. Circulated!Move \/ Unmoved
      BY <2>1, <2>2, <3>1, MovedCirculates
    <3> QED
      BY <3>2 DEF Circulated!Next
  <2>3. CASE \E i \in DOMAIN chain : Moved(PlaceAt(memo, i - 1))
    <3>1. PICK i \in DOMAIN chain : Moved(PlaceAt(memo, i - 1))
      BY <2>3
    <3>2. i - 1 \in Nat
      BY ChainTyped DEF Inv, TypeOK
    <3> QED
      BY <1>2, <2>1, <3>1, <3>2
  <2> QED
    BY <1>1, <1>5, <2>2, <2>3 DEF SendBack
<1>6. CASE Decide(s)
  <2>1. memo.status = "in_progress" /\ memo.stage = "approve" /\ memo.holder = th[s].who
    BY <1>1, <1>6 DEF Decide, Holds
  <2>2. memo.holder = memo.approver
    BY <2>1 DEF Inv, OnOneDesk
  <2>3. memo.approver # Nobody
    BY <2>1, <2>2, PeopleAssumption DEF Inv, TypeOK, Thread
  <2>4. PICK verdict \in {"approved", "rejected"} :
          memo' = [memo EXCEPT !.status = verdict, !.stage = "closed", !.holder = Nobody]
    BY <1>6 DEF Decide
  <2>5. Circulated!Decide
    BY <1>1, <2>1, <2>2, <2>3, <2>4 DEF Circulated!Decide, Memo
  <2> QED
    BY <2>5 DEF Circulated!Next
<1>7. CASE Archive(s)
  <2>1. memo.status \in {"draft", "approved", "rejected"}
    BY <1>1, <1>7 DEF Archive, Memo, Status
  <2>2. memo' = [memo EXCEPT !.status = "archived"]
    BY <1>7 DEF Archive
  <2>3. Circulated!Archive
    BY <1>1, <2>1, <2>2 DEF Circulated!Archive, Memo
  <2> QED
    BY <2>3 DEF Circulated!Next
<1> QED
  BY <1>3, <1>4, <1>5, <1>6, <1>7 DEF Travel

LEMMA PatchCirculates ==
    ASSUME OneUser, Inv, NEW s \in Sessions, Patch(s)
    PROVE  Circulated!Next \/ Unmoved
<1>1. memo \in Memo /\ (~At(s, "idle") => th[s].row = memo)
  BY DEF Inv, Faithful, TypeOK, At
<1>2. ASSUME NEW content \in 0 .. MaxEdits, NEW next \in {"chain", "approver", "idle"},
             PatchSave(s, content, next)
      PROVE  Circulated!Next \/ Unmoved
  <2>1. memo' = [memo EXCEPT !.content = content] /\ content \in {memo.content, memo.content + 1}
    BY <1>1, <1>2 DEF PatchSave, At
  <2>2. /\ memo'.status = memo.status /\ memo'.stage = memo.stage /\ memo'.holder = memo.holder
        /\ memo'.approver = memo.approver /\ memo'.content = content
    BY <1>1, <2>1 DEF Memo
  <2>3. CASE content = memo.content
    BY <2>2, <2>3, UnmovedIs
  <2>4. CASE content # memo.content
    <3>1. MayWrite(memo, Initiator)
      BY <1>1, <1>2, <2>4 DEF PatchSave, At
    <3>2. Circulated!InHand
      BY <1>1, <3>1 DEF MayWrite, Locked, Circulated!InHand, Memo, Status
    <3>3. Circulated!Write
      BY <2>1, <2>2, <2>4, <3>2 DEF Circulated!Write
    <3> QED
      BY <3>3 DEF Circulated!Next
  <2> QED
    BY <2>3, <2>4
<1>c. ASSUME NEW new \in Chains, ChainCheck(s, new) PROVE Unmoved
  BY <1>c, UnmovedIs DEF ChainCheck
<1>3. ASSUME NEW next \in {"approver", "idle"}, SetChain(s, next) PROVE Unmoved
  <2>1. PICK i : memo' = memo \/ memo' = [memo EXCEPT !.current_index = i]
    BY <1>3 DEF SetChain
  <2> QED
    BY <1>1, <2>1, UnmovedIs DEF Memo
<1>4. ASSUME NEW p \in Staff \cup {Nobody}, SetApprover(s, p) PROVE Circulated!Appoint
  <2>1. memo' = [memo EXCEPT !.approver = p] /\ Changeable(memo)
    BY <1>1, <1>4 DEF SetApprover, ApproverAccepted, At
  <2>2. memo.status \in {"draft", "in_progress"} /\ memo.stage # "approve"
    BY <1>1, <2>1 DEF Changeable, Locked, Memo, Status
  <2> QED
    BY <1>1, <2>1, <2>2 DEF Circulated!Appoint, Memo
<1> QED
  BY <1>2, <1>c, <1>3, <1>4 DEF Patch, Circulated!Next

\* With one user at a time, the memorandum lies on one desk at a time, is rewritten
\* only while it lies with its initiator, and is decided once, from the desk of the
\* approver it names (workflow.py, may_write, decide and set_approver).
THEOREM ImplementsCirculationCorrect == OneUser /\ Spec => ImplementsCirculation
<1>1. Init => Circulated!Init
  BY DEF Init, Draft, Circulated!Init, People
<1>2. ASSUME OneUser, Inv, [Next]_vars PROVE Circulated!Next \/ Unmoved
  <2>1. CASE UNCHANGED memo
    BY <2>1 DEF Unmoved, Circulated!vars
  <2> QED
    BY <1>2, <2>1, TravelCirculates, PatchCirculates DEF Next, vars, Open, Leave, Sign, Unsign
<1>3. OneUser /\ Inv /\ [Next]_vars => [Circulated!Next]_(Circulated!vars)
  BY <1>2 DEF Unmoved
<1>4. CASE OneUser
  BY <1>1, <1>3, <1>4, InvAlways, PTL DEF Spec, ImplementsCirculation, Circulated!Spec
<1> QED
  BY <1>4
=============================================================================
