----------------------------- MODULE MCStanding -----------------------------
(* A small instance of Standing for TLC. *)
EXTENDS Standing

TwoSuspensions == 1 .. 2
OneEvent == {1}
=============================================================================
