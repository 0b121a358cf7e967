------------------------------ MODULE MCHiring ------------------------------
(* A small instance of Hiring for TLC. *)
EXTENDS Hiring, TLC

\* Sound for the safety properties: the server's requests are alike.
Symmetry == Permutations(Requests)
=============================================================================
