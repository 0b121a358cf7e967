--------------------------- MODULE MCDisbursement ---------------------------
(* Small instances of Disbursement for TLC. *)
EXTENDS Disbursement, TLC

\* Sound for the safety properties: payslips with the same net pay, banks and
\* sessions are interchangeable.
Symmetry == Permutations(Payslips \ ZeroNet) \cup Permutations(Banks)
            \cup Permutations(Sessions)
=============================================================================
