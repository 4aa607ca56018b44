SPECIFICATION MarketSpec
CONSTANTS
  Users = {"u1", "u2"}
  MaxOffers = 3
  MaxTrades = 4
  Prices = {1, 2}
  Quantities = {1, 2}
  Matchers = {"m1"}
  Cancelers = {}
  MaxFailures = 0
PROPERTIES
  CanceledBuyerIsNotMatched
CHECK_DEADLOCK FALSE
