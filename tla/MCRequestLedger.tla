-------------------------- MODULE MCRequestLedger --------------------------
(***************************************************************************)
(* RequestLedger on two branches; the configurations choose how many       *)
(* requests run at a time and which.                                       *)
(***************************************************************************)
EXTENDS RequestLedger, TLC

CONSTANTS b1, b2, usd, eur, s1, s2, d1, d2

\* b1 holds some money in each currency, b2 has no row before its first credit.
OpeningMC == [x \in Cells |-> IF x = <<b1, usd>> THEN 4 ELSE IF x = <<b1, eur>> THEN 1 ELSE 0]

\* Here b1 has no row for eur either, so that two requests may create it.
OneRowMC == [x \in Cells |-> IF x = <<b1, usd>> THEN 4 ELSE 0]

\* Where no liveness is checked.
Symmetry == Permutations({s1, s2}) \cup Permutations({d1, d2})
=============================================================================
