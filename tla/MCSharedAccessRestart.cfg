SPECIFICATION Spec
CONSTANTS
  Members <- ThreeMembers
  MaxActions = 1
  MaxTxs = 2
  PoolSize = 2
  Requests = {q1}
  Sweeper = sweeper
  Proposals <- ManagementProposals
  InitialRoles <- TwoOfThree
  InitialThreshold = 2
  MaxRotations = 0
  FaultKinds = {"restart"}
  MaxFaults = 1
\* every row may be terminal and every goroutine idle: the system may stop
CHECK_DEADLOCK FALSE
PROPERTIES
  ResumedIsApplied
