SPECIFICATION RecordsFairSpec
CONSTANTS
  Transfers = {t1, t2}
  Blank = blank
  Nothing = nothing
  Sections = {"convert", "invoices"}
  Limit = 3
  ListLags = TRUE
  MaxFaults = 1
  MaxActs = 1
  Together <- MCTogether
CHECK_DEADLOCK FALSE
INVARIANTS RecordsTypeOK SettledIsMined LegsInOrder
PROPERTIES HistoryIsHonest RecordSettles
