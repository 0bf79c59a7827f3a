SPECIFICATION RampSpec
CONSTANTS
  Tasks = {t1}
  PayoutOnArc = FALSE
  Reversals = FALSE
  Ticks = TRUE
  MaxLost = 0
  MaxFaults = 0
INVARIANTS LegsStartInOrder
CHECK_DEADLOCK FALSE
