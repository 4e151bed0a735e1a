-------------------------- MODULE MCVaultTransfers --------------------------
(***************************************************************************)
(* VaultTransfers on a main vault that holds money, the vault of a branch  *)
(* that has no row yet, and that branch.                                   *)
(***************************************************************************)
EXTENDS VaultTransfers, TLC

CONSTANTS main, vault, branch, s1, s2

BranchVaultMC == branch :> vault
BranchFundsMC == branch :> 1
OpeningMC     == main :> 2

\* The handlers do not look at who runs them, and no property is temporal.
Symmetry == Permutations(Sessions)
=============================================================================
