SPECIFICATION CourtFairSpec
CONSTANTS
  Users = {u1, u2}
  Owner = owner
  VaultAddress = vault
  NoAddress = nobody
  OfferIds = {o1}
  Amounts = {100}
  Withdrawals = {}
  Recipients = {}
  BpsInputs = {}
  Endowment = 100
  MaxBlock = 0
  Jobs = {"Job1"}
  Limit = 5
  ChatLimit = 20
  Makers = {u1, u2}
  Chatters = {}
  MaxFaults = 0
  MaxDrops = 0
  Admins = {a1}
  DisputeIds = {d1}
  NoOffer = nooffer
  MaxCalls = 2
CHECK_DEADLOCK FALSE
PROPERTIES RefundVerdictIsExecuted
