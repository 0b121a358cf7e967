-------------------------- MODULE MCLeaveApproval --------------------------
(* Small instances of LeaveApproval for TLC. *)
EXTENDS LeaveApproval, TLC

CONSTANTS r1, r2

\* Two requests of different cost, one in each fiscal year.
BothYears == r1 :> "new" @@ r2 :> "old"
\* The second one exceeds the quota of 2: it is flagged and may still be approved.
Costs     == r1 :> 1 @@ r2 :> 3

\* The seeded chain, one with a supervisor step, one with both.
Configured == {<<"manager", "hr_admin">>, <<"supervisor", "hr_admin">>,
               <<"supervisor", "manager", "hr_admin">>}
\* Chains a company can configure although they may resolve to nobody.
Unmanned   == Configured \cup {<<"manager">>, <<"supervisor">>}
=============================================================================
