SPECIFICATION RampSpec
CONSTANTS
  Tasks = {t1, t2}
  PayoutOnArc = FALSE
  Reversals = TRUE
  Ticks = TRUE
  MaxLost = 1
  MaxFaults = 1
INVARIANTS RampTypeOK UnskippedLegsInOrder CompletedWasDelivered PaidOutOnce
ACTION_CONSTRAINT MCTroubles
SYMMETRY MCSymmetry
CHECK_DEADLOCK FALSE
