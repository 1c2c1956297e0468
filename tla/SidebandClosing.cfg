SPECIFICATION FairSpec
CONSTANTS
  r1 = r1
  r2 = r2
  t1 = t1
  t2 = t2
  t3 = t3
  Responses = {r1}
  Tools = {t1}
  ResponseOf <- MCResponseOf
  Inline = {t1}
  QueueMax = 1
  Drainers = {"open", "other"}
  MaxFaults = 1
INVARIANT
  EndsNoticed
PROPERTY
  CloseFinishes
CHECK_DEADLOCK FALSE
