CONSTANT OrdinaryReasons <- MCReasons
SPECIFICATION Spec
INVARIANTS
  TypeOK
  TransferredMeansHandedOff
  ClaimConsistent
PROPERTIES
  TerminalIsFinal
  OneTransferAttempt
  FirstClaimWins
