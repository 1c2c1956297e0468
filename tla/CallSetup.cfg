SPECIFICATION Spec
CONSTANTS
  OrdinaryReasons <- MCReasons
  status = status
  Answers <- MCAnswers
  MaxFaults = 2
  MaxRetries = 1
INVARIANTS
  TypeOK
  NoOrphanLeg
  GateNotMissed
  ActiveIsMonitored
  SetupSupervised
PROPERTIES
  RefinesCallRow
CHECK_DEADLOCK FALSE
