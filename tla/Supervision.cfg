SPECIFICATION FairSpec
CONSTANTS
  w1 = w1
  Windows = {w1}
  MaxFaults = 1
INVARIANTS
  TypeOK
  DeadCallStaysDead
PROPERTIES
  EndsForCause
  DeadLineReaped
