SPECIFICATION BridgeSpec
CONSTANTS
  Bridges = {b1, b2}
  NoTx = null
  ListLags = FALSE
  MaxLost = 1
  MaxLate = 1
  MaxDropped = 1
SYMMETRY MCSymmetry
INVARIANTS BridgeTypeOK CancelledMeansNothingMoved OwedMintIsOffered CompletedHasMint
CHECK_DEADLOCK FALSE
