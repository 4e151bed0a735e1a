--------------------------- MODULE MCBranchLedger ---------------------------
(***************************************************************************)
(* Two branches and two currencies, a few cents, rates and commissions     *)
(* whose products need rounding.                                           *)
(***************************************************************************)
EXTENDS Reports, TLC

CONSTANTS b1, b2, usd, eur

\* b1 holds both currencies, b2 has no row at all before its first credit.
OpeningMC ==
  (<<b1, usd>> :> 3) @@ (<<b1, eur>> :> 1) @@ (<<b2, usd>> :> 0) @@ (<<b2, eur>> :> 0)

=============================================================================
