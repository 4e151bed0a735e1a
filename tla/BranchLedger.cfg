SPECIFICATION Spec
CONSTANTS
  b1 = b1
  b2 = b2
  usd = usd
  eur = eur
  Branches = {b1, b2}
  Currencies = {usd, eur}
  MainBranches = {b1}
  Amounts = {1, 2}
  Counts = {1}
  Rates = {5, 15}
  RateScale = 10
  Commissions = {7500}
  ExpenseLimit = 1
  Opening <- OpeningMC
  MaxTransactions = 3
  MaxEntries = 1
INVARIANTS
  TypeOK
  BooksSound
  ReservationsMatchTransfers
  HistoryExplainsBalance
  EffectsMatchStatus
  PendingIsCancellable
  EachTransactionReportedOnce
  MovementsMissTheRest
  SnapshotsAddUp
  QuietDashboard
PROPERTIES
  ReportedRevenueNeverFalls
  SettledIsFinal
