SPECIFICATION CourtSpec
CONSTANTS
  Users = {u1, u2}
  Owner = owner
  VaultAddress = vault
  NoAddress = nobody
  OfferIds = {o1}
  Amounts = {100}
  Withdrawals = {}
  Recipients = {}
  BpsInputs = {}
  Endowment = 100
  MaxBlock = 0
  Jobs = {"Job1", "Job3"}
  Limit = 5
  ChatLimit = 20
  Makers = {u1, u2}
  Chatters = {}
  MaxFaults = 1
  MaxDrops = 0
  Admins = {a1}
  DisputeIds = {d1}
  NoOffer = nooffer
  MaxCalls = 2
SYMMETRY MCSymmetry
CHECK_DEADLOCK FALSE
INVARIANTS CourtTypeOK DisputeHasStanding
PROPERTIES CourtKeepsPromise
