SPECIFICATION Spec
CONSTANTS
  b1 = b1
  b2 = b2
  usd = usd
  eur = eur
  s1 = s1
  s2 = s2
  d1 = d1
  d2 = d2
  Branches = {b1, b2}
  Currencies = {usd}
  MainBranches = {b1}
  Amounts = {1}
  Counts = {3}
  Rates = {15}
  RateScale = 10
  Commissions = {5000}
  ExpenseLimit = 1
  Opening <- OpeningMC
  MaxTransactions = 3
  MaxEntries = 9
  Days = {d1}
  Sessions = {s1, s2}
  Kinds = {"income", "transfer", "receive"}
  Overlapping = {"income", "transfer", "receive"}
  MaxRequests = 3
INVARIANTS
  NoLostUpdate
CHECK_DEADLOCK FALSE
