SPECIFICATION Spec
CONSTANTS
  OrdinaryReasons <- MCReasons
  status = status
  Answers <- MCAnswers
  MaxFaults = 0
  MaxRetries = 1
INVARIANTS
  ActiveAgentUnmuted
CHECK_DEADLOCK FALSE
