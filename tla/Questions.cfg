SPECIFICATION Spec
CONSTANTS
  MaxAsked = 2
  MaxQuestions = 2
  a1 = a1
  a2 = a2
  Agents <- MCAgents
  MaxFaults = 1
  MaxRestarts = 1
SYMMETRY MCSymmetry
INVARIANTS
  TypeOK
  ToldWhatWasDecided
  PendingLookedAfter
  OneDelivery
  NoLostWakeup
