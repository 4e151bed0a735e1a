SPECIFICATION Spec
CONSTANTS
  usd = usd
  eur = eur
  lira = lira
  s1 = s1
  s2 = s2
  Currencies = {usd, eur, lira}
  Usd = usd
  ByCode <- ByCodeMC
  Seeded <- SeededMC
  Feeds <- FeedsMC
  ByHand <- ByHandMC
  Manual <- ManualMC
  Spreads = {2}
  Amounts = {1, 99999}
  Sessions = {s1, s2}
  Kinds = {"set", "fetch", "approve", "reject", "expire", "activate", "deactivate"}
  MaxRequests = 3
INVARIANTS
  TypeOK
  UncontendedPairHasOneRate
  HistoryTellsTheRateBefore
  UndisturbedSyncIsSettledOnce
  SpreadKept
  ConversionBothWays
PROPERTIES
  NoRateGap
SYMMETRY
  Symmetry
CHECK_DEADLOCK FALSE
