----------------------------- MODULE Conversation -----------------------------
(***************************************************************************)
(* What a conversation is to the people in it, whatever their browsers,    *)
(* sockets and requests do: a log of what was said, each message once and  *)
(* in an order that does not change, and a text per message that may be    *)
(* replaced until it is taken back and never comes back after that.        *)
(* Chat implements it (ImplementsConversation).                            *)
(***************************************************************************)
EXTENDS Sequences

CONSTANTS Messages,
          Earlier     \* what has been said already, oldest first

VARIABLES log,      \* the messages said, in order
          text      \* what each says: "unsaid", "first", "edited" or "none"

vars == <<log, text>>

Init ==
    /\ log = Earlier
    /\ text = [m \in Messages |-> IF \E i \in DOMAIN Earlier : Earlier[i] = m
                                 THEN "first" ELSE "unsaid"]

Say(m) ==
    /\ text[m] = "unsaid"
    /\ log' = Append(log, m)
    /\ text' = [text EXCEPT ![m] = "first"]

Edit(m) ==
    /\ text[m] \in {"first", "edited"}
    /\ text' = [text EXCEPT ![m] = "edited"]
    /\ UNCHANGED log

TakeBack(m) ==
    /\ text[m] \in {"first", "edited"}
    /\ text' = [text EXCEPT ![m] = "none"]
    /\ UNCHANGED log

Next == \E m \in Messages : Say(m) \/ Edit(m) \/ TakeBack(m)

Spec == Init /\ [][Next]_vars
=============================================================================
