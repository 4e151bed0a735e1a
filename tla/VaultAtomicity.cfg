SPECIFICATION Spec
CONSTANTS
  main = main
  vault = vault
  branch = branch
  s1 = s1
  s2 = s2
  Vaults = {main, vault}
  Branches = {branch}
  BranchVault <- BranchVaultMC
  BranchFunds <- BranchFundsMC
  Opening <- OpeningMC
  Amounts = {1, 2}
  Counts = {1}
  Threshold = 2
  Sessions = {s1}
  Kinds = {"toBranch", "approve", "complete"}
  MaxRequests = 3
INVARIANTS
  TransfersAreAtomic
CHECK_DEADLOCK FALSE
