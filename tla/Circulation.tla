------------------------------ MODULE Circulation ------------------------------
(***************************************************************************)
(* What a memorandum promises those it goes round to, whatever chain is    *)
(* drawn for it and however often it is sent back: it lies on one desk at  *)
(* a time, nobody but its initiator changes what it says and only while it *)
(* lies with him, the approver is settled before it reaches him, and it is *)
(* decided from his desk and nowhere else, once.  Memorandum implements it *)
(* for one user at a time (ImplementsCirculation).                         *)
(***************************************************************************)
EXTENDS Naturals

CONSTANTS Initiator, Staff, Nobody

VARIABLES status,     \* "draft", "in_progress", "approved", "rejected" or "archived"
          stage,      \* how far it is: "draft", "recommend", "approve" or "closed"
          desk,       \* on whose desk it lies
          approver,   \* who is to decide it
          content     \* what it says

vars == <<status, stage, desk, approver, content>>

Init ==
    /\ status = "draft" /\ stage = "draft" /\ desk = Nobody
    /\ approver \in Staff \cup {Initiator, Nobody}
    /\ content = 0

\* It lies with its initiator.
InHand == status = "draft" \/ (status = "in_progress" /\ desk = Initiator)

Reaches(p) ==
    \/ stage' = "recommend" /\ p \in Staff \cup {Initiator}
    \/ stage' = "approve" /\ p = approver

Submit ==
    /\ status = "draft"
    /\ status' = "in_progress"
    /\ \E p \in Staff \cup {approver} : Reaches(p) /\ desk' = p
    /\ UNCHANGED <<approver, content>>

\* To the next desk, back to one it has been on, or past one.
Move ==
    /\ status = "in_progress"
    /\ \E p \in Staff \cup {Initiator, approver} : Reaches(p) /\ desk' = p
    /\ stage = "approve" => stage' = "recommend"
    /\ UNCHANGED <<status, approver, content>>

Decide ==
    /\ status = "in_progress" /\ stage = "approve"
    /\ desk = approver /\ approver # Nobody
    /\ status' \in {"approved", "rejected"} /\ stage' = "closed" /\ desk' = Nobody
    /\ UNCHANGED <<approver, content>>

Write ==
    /\ InHand
    /\ content' = content + 1
    /\ UNCHANGED <<status, stage, desk, approver>>

Appoint ==
    /\ status \in {"draft", "in_progress"} /\ stage # "approve"
    /\ approver' \in Staff \cup {Nobody}
    /\ UNCHANGED <<status, stage, desk, content>>

Archive ==
    /\ status \in {"draft", "approved", "rejected"}
    /\ status' = "archived"
    /\ UNCHANGED <<stage, desk, approver, content>>

Next == Submit \/ Move \/ Decide \/ Write \/ Appoint \/ Archive

Spec == Init /\ [][Next]_vars
=============================================================================
