SPECIFICATION MCSpec
CONSTANTS
  k1 = k1
  k2 = k2
  k3 = k3
  r1 = r1
  r2 = r2
  r3 = r3
  r4 = r4
  Keys = {k1, k2, k3}
  Service = service
  MaxUsers = 2
  Codes = {1}
  Requests = {r1, r2}
  MaxFaults = 1
  Purchases = {"p1", "p2"}
  Deliveries = {r1, r2, r3}
  MaxFiatFaults = 1
  Networks = {"n1", "n2"}
  Debits = {"a1"}
  CryptoRequests = {r1, r2, r3}
  MaxCryptoFaults = 1
  Boardings = {k2, k3}
  Onramps = {"o1"}
  MaxRailFaults = 1
  Levels = {1, 2}
  KycCalls = {r1, r2}
  Grades <- MCGrades
  PatronRequests = {r1, r2, r3}
  MaxDay = 3
  Readers = {r1, r2, r3}
  MaxHead = 4
  Epochs = {1, 2}
  Partners = {"l1"}
  Links = {"l1", "l2"}
  Approvals = {"a1"}
  Documents = {"d1"}
  LinkCalls = {r1, r2, r3, r4}
  MaxAttempts = 2
  MaxLinkFaults = 1
  Spendings = {k2, k3}
  PaymentKeys = {"key1"}
  Cap = 1
  SpendCalls = {r1, r2}
  MaxSpendFaults = 1
SYMMETRY Symmetry
\* every request may have been served: the system may stop
CHECK_DEADLOCK FALSE
INVARIANTS
  ServicesTypeOK
  GuardedWhileOwner
  SignerInStep
  EffectsAtMostOnce
  RecordsHold
  LevelIsEarned
  GrantsAreEarned
  CachedIsTracked
