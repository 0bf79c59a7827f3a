SPECIFICATION FiatFairSpec
CONSTANTS
  Tasks = {k1, k2}
  Banks = {b1, b2}
  Deposits = {d1}
  Scopes <- MCScopes
  MaxFaults = 1
CHECK_DEADLOCK FALSE
INVARIANTS FiatTypeOK RailsAgree MailedOnce
PROPERTIES VerificationIsSeen MirrorCatchesUp
