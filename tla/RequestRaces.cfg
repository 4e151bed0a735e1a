SPECIFICATION Spec
CONSTANTS
  b1 = b1
  b2 = b2
  usd = usd
  eur = eur
  s1 = s1
  s2 = s2
  d1 = d1
  d2 = d2
  Branches = {b1, b2}
  Currencies = {usd, eur}
  MainBranches = {b1}
  Amounts = {1}
  Counts = {3}
  Rates = {15}
  RateScale = 10
  Commissions = {5000}
  ExpenseLimit = 1
  Opening <- OneRowMC
  MaxTransactions = 3
  MaxEntries = 9
  Days = {d1}
  Sessions = {s1, s2}
  Kinds = {"income", "expense", "exchange", "transfer", "receive", "approve", "cancel", "reconcile"}
  Overlapping = {"income", "expense", "exchange", "transfer", "receive", "approve", "cancel", "reconcile"}
  MaxRequests = 3
INVARIANTS
  TypeOK
  UncontendedBooks
  NothingHalfDone
PROPERTIES
  EveryRequestEnds
CHECK_DEADLOCK FALSE
