SPECIFICATION Spec
CONSTANTS
  Members <- ThreeMembers
  MaxActions = 2
  MaxTxs = 2
  PoolSize = 2
  Requests = {q1, q2}
  Sweeper = sweeper
  Proposals <- AddTwice
  InitialRoles <- TwoOfThree
  InitialThreshold = 2
  MaxRotations = 0
  FaultKinds = {"restart"}
  MaxFaults = 1
SYMMETRY RequestSymmetry
\* every row may be terminal and every goroutine idle: the system may stop
CHECK_DEADLOCK FALSE
INVARIANTS
  TypeOK
  RelayerExclusive
  SubmittedIsAwaited
PROPERTIES
  ChangesAreApproved
