SPECIFICATION FairSpec
CONSTANTS
  Members <- TwoMembers
  MaxActions = 1
  MaxTxs = 2
  PoolSize = 1
  Requests = {q1, q2}
  Sweeper = sweeper
  Proposals <- PaymentsOnly
  InitialRoles <- BothApprove
  InitialThreshold = 2
  MaxRotations = 0
  FaultKinds = {"timeout", "lost", "restart"}
  MaxFaults = 1
\* every row may be terminal and every goroutine idle: the system may stop
CHECK_DEADLOCK FALSE
PROPERTIES
  SubmittedResolves
  RelayerComesBack
