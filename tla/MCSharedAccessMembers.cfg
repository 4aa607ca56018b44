SPECIFICATION Spec
CONSTANTS
  Members <- ThreeMembers
  MaxActions = 3
  MaxTxs = 2
  PoolSize = 1
  Requests = {q1}
  Sweeper = sweeper
  Proposals <- ManagementProposals
  InitialRoles <- TwoOfThree
  InitialThreshold = 2
  MaxRotations = 0
  FaultKinds = {}
  MaxFaults = 0
\* every row may be terminal and every goroutine idle: the system may stop
CHECK_DEADLOCK FALSE
INVARIANTS
  MembershipSynced
  ApprovalsReachable
