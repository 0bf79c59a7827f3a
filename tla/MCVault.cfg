SPECIFICATION VaultSpec
CONSTANTS
  Users = {u1, u2}
  Owner = owner
  VaultAddress = vault
  NoAddress = nobody
  OfferIds = {o1, o2}
  Amounts = {100, 200}
  Withdrawals = {201}
  Recipients = {owner}
  BpsInputs = {50, 201}
  Endowment = 200
  MaxBlock = 1
SYMMETRY MCSymmetry
INVARIANTS VaultTypeOK EscrowCovered
PROPERTIES SettledIsFinal PaidInFull
CHECK_DEADLOCK FALSE
