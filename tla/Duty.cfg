SPECIFICATION DutyFairSpec
CONSTANTS
  a = a
  b = b
  s = s
  Admins = {a, b, s}
  Supers = {s}
  d = d
  e = e
  k1 = k1
  Disputes = {d, e}
  Requests = {r1, r2}
  Ticks = {k1}
  Proposals <- MCProposals
  Day = 3
  MaxDuty = 1
  Lead = 1
  Recent = 2
  LookAhead = 2
  NoHours = NoHours
  NoAdmin = NoAdmin
  Idle = Idle
  Scopes <- MCScopes
CHECK_DEADLOCK FALSE
INVARIANTS DutyTypeOK AcceptedOnDuty OneJudgeRules
PROPERTIES ElapsedIsClosed
