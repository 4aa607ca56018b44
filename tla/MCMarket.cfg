SPECIFICATION FairMarketSpec
CONSTANTS
  Users = {"u1", "u2"}
  MaxOffers = 3
  MaxTrades = 4
  Prices = {1, 2}
  Quantities = {1, 2}
  Matchers = {"m1"}
  Cancelers = {"c1"}
  MaxFailures = 1
INVARIANTS
  MarketTypeOK
  BookUncrossed
  RemainingIsUntraded
  LimitsRespected
PROPERTIES
  PriceTimePriority
  MatchingEnds
\* every placement may be answered and every row used: the system may stop
CHECK_DEADLOCK FALSE
