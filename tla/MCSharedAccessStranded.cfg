SPECIFICATION Spec
CONSTANTS
  Members <- TwoMembers
  MaxActions = 1
  MaxTxs = 1
  PoolSize = 1
  Requests = {q1}
  Sweeper = sweeper
  Proposals <- PaymentsOnly
  InitialRoles <- BothApprove
  InitialThreshold = 2
  MaxRotations = 0
  FaultKinds = {"timeout"}
  MaxFaults = 1
\* every row may be terminal and every goroutine idle: the system may stop
CHECK_DEADLOCK FALSE
INVARIANTS
  RetryCanSucceed
