SPECIFICATION MCSpec
CONSTANTS
  Approvers = {"a1", "a2", "a3", "a4"}
  Tasks = {"t1", "t2"}
  Worker = "worker"
  Windows <- OneWindow
  MaxTime = 2
  MaxTokens = 2
  MaxCalls = 3
  MaxSettled = 1
  MaxFaults = 1
\* every task may be idle at the end of time
CHECK_DEADLOCK FALSE
INVARIANTS
  TokenizationTypeOK
  RecordedMintIsSubmitted
  SecondaryPauseIsSent
  FeeStageIsVetted
PROPERTIES
  SalesOpenAndClose
