SPECIFICATION PayrollFairSpec
CONSTANTS
  Recipients <- MCRecipients
  BatchOf <- MCBatchOf
  Batches <- MCBatches
  Routes <- MCRoutes
  NoOne = nobody
  q1 = q1
  q2 = q2
  s1 = s1
  s2 = s2
  Long = b1
  Short = b2
  MCSize = 2
  Servers = {s1, s2}
  Requests = {q1, q2}
  TopUps = {t1}
  Funds = 7
  Amount = 3
  Gas = 1
  GasBuffer = 2
  MaxExecutes = 2
  MaxThrows = 1
  MaxCrashes = 1
INVARIANTS PayrollTypeOK PaidOnce GateHolds CompletedWasSent
PROPERTIES StartedBatchIsWorkedOff
CHECK_DEADLOCK FALSE
