SPECIFICATION Spec
CONSTANTS
  c1 = c1
  c2 = c2
  p1 = p1
  p2 = p2
  r1 = r1
  r2 = r2
  Calls <- MCCalls
  Plans <- MCPlans
  Requests <- MCRequests
  None = None
  PlanTtl = 2
  LeaseTtl = 2
  MaxTime = 4
SYMMETRY MCSymmetry
INVARIANTS
  TypeOK
  OneLiveCall
  PlanSingleUse
  LeaseExcludesCalls
  ClaimantOwnsCall
PROPERTIES
  ImplementsPhoneLine
CHECK_DEADLOCK FALSE
