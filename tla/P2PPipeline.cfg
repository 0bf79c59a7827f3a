SPECIFICATION FairSpec
CONSTANTS
  Users = {u1, u2, u3}
  Owner = owner
  VaultAddress = vault
  NoAddress = nobody
  OfferIds = {o1}
  Amounts = {100}
  Withdrawals = {}
  Recipients = {}
  BpsInputs = {}
  Endowment = 100
  MaxBlock = 0
  Jobs = {"Job1", "Job2", "Job3", "Job4"}
  Limit = 5
  ChatLimit = 20
  Makers = {u1}
  Chatters = {u3}
  MaxFaults = 1
  MaxDrops = 1
CHECK_DEADLOCK FALSE
INVARIANTS TradeTypeOK RecordsAreBacked
PROPERTIES KeepsPromise RecordedTradeSettles ReleaseIsRecorded ChatIsDeleted
