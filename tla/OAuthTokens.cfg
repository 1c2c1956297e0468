SPECIFICATION Spec
CONSTANTS
  r1 = r1
  r2 = r2
  Requests = {r1, r2}
  Boot = Boot
  MaxTxns = 1
  MaxCodes = 2
  MaxFams = 2
  MaxPairs = 3
  TxnQuota = 1
  AttemptLimit = 1
  MaxFaults = 1
  MaxRestarts = 2
SYMMETRY MCSymmetry
INVARIANTS
  GrantsUsedOnce
  RevokedStaysDead
