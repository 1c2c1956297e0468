SPECIFICATION Spec
CONSTANTS
  r1 = r1
  r2 = r2
  t1 = t1
  t2 = t2
  t3 = t3
  Responses = {r1, r2}
  Tools = {t1, t2, t3}
  ResponseOf <- MCResponseOf
  Inline = {t1}
  QueueMax = 2
  Drainers = {}
  MaxFaults = 0
INVARIANTS
  TypeOK
  BatchContinued
CHECK_DEADLOCK FALSE
