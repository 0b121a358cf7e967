------------------------------- MODULE MCLoans -------------------------------
(* Small instances of Loans for TLC: a loan that its monthly deduction divides, *)
(* or not, and periods that end on the second, third and last day.             *)
EXTENDS Loans

CONSTANTS car, house, jan, feb, mar

MCPrincipal == [l \in Advances |-> IF l = car THEN 3 ELSE 2]
MCMonthly == [l \in Advances |-> IF l = car THEN 2 ELSE 1]
MCPeriodEnd == [p \in Periods |-> CASE p = jan -> 1 [] p = feb -> 2 [] p = mar -> 4]
=============================================================================
