---------------------------- MODULE MCPayrollRun ----------------------------
(* Small instances of PayrollRun for TLC. *)
EXTENDS PayrollRun, TLC

\* Sound for the safety properties: no employee, session or worker is special.
Symmetry == Permutations(Employees) \cup Permutations(Workers)
            \cup Permutations(Sessions)
=============================================================================
