SPECIFICATION FairSpec
CONSTANTS
  OrdinaryReasons <- MCReasons
  MaxDbFaults = 2
  MaxTwFaults = 2
  MaxRestarts = 2
INVARIANTS
  TypeOK
  EndedCallIsSilent
  TransferredKeepsOwner
  StrandedOnlyByDbFault
PROPERTIES
  RefinesCallRow
  ClaimedCallEnds
  ConferenceReleased
CHECK_DEADLOCK FALSE
