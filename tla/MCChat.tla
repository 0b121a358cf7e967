------------------------------- MODULE MCChat -------------------------------
(* Model values for the runs of Chat: who sits at which tab, on what. *)
EXTENDS Chat, TLC

CONSTANTS a, b, m1, m2

\* One tab with the page open beside the widget, in a conversation that has a
\* message already.
Bob == (b :> "bob")
BobsPage == {<<b, "widget">>, <<b, "page">>}
OneBefore == <<m1>>
Asked == (m1 :> {"edit", "delete"}) @@ (m2 :> {"edit"})
BobMoves == (b :> 3)

\* A writer, and a reader who moves between the widget and the page.
TwoPeople == (a :> "ann") @@ (b :> "bob")
AnnsPage == {<<a, "widget">>, <<a, "page">>, <<b, "widget">>}
NoneBefore == <<>>
AnnMoves == (a :> 3) @@ (b :> 1)

ByBob == [m \in Messages |-> "bob"]
Anything == [m \in Messages |-> {"edit", "delete"}]
=============================================================================
