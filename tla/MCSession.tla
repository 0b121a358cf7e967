----------------------------- MODULE MCSession -----------------------------
(* Model values for the runs of Session. *)
EXTENDS Session, TLC

Symmetry == Permutations(Requests)
=============================================================================
