SPECIFICATION Spec
CONSTANTS
  main = main
  vault = vault
  branch = branch
  s1 = s1
  s2 = s2
  Vaults = {main, vault}
  Branches = {branch}
  BranchVault <- BranchVaultMC
  BranchFunds <- BranchFundsMC
  Opening <- OpeningMC
  Amounts = {1, 2}
  Counts = {1}
  Threshold = 2
  Sessions = {s1, s2}
  Kinds = {"vault", "toBranch", "fromBranch", "approve", "reject", "complete", "cancel", "adjust", "close"}
  MaxRequests = 4
INVARIANTS
  TypeOK
  PendingMovedNothing
  UndisturbedTransferIsWhole
  UncontendedVaultAddsUp
SYMMETRY
  Symmetry
CHECK_DEADLOCK FALSE
