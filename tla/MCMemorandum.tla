---------------------------- MODULE MCMemorandum ----------------------------
(* Chains of at most two recommenders, from three people who are alike. *)
EXTENDS MemorandumDialog, TLC

CONSTANTS a, b, c

MCChains == {<<>>} \cup {<<p>> : p \in Staff}
                   \cup {pair \in Staff \X Staff : pair[1] # pair[2]}

Alike == Permutations(Staff)
=============================================================================
