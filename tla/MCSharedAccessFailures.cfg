SPECIFICATION Spec
CONSTANTS
  Members <- TwoMembers
  MaxActions = 1
  MaxTxs = 2
  PoolSize = 2
  Requests = {q1, q2}
  Sweeper = sweeper
  Proposals <- PaymentsOnly
  InitialRoles <- BothApprove
  InitialThreshold = 2
  MaxRotations = 1
  FaultKinds = {"timeout", "lost", "database", "restart"}
  MaxFaults = 2
SYMMETRY RequestSymmetry
\* every row may be terminal and every goroutine idle: the system may stop
CHECK_DEADLOCK FALSE
INVARIANTS
  LandsAtMostOnce
  ExecutedMeansLanded
  ExecutedHookAtMostOnce
PROPERTIES
  ImplementsGroupWallet
