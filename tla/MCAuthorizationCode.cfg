CONSTANTS
  u1 = u1
  Users <- MCUsers
  SessionIds = {s1, s2}
  CodeIds = {a1}
  Requests = {r1, r2}
  Nobody = Nobody
  NoCode = NoCode
  NoSession = NoSession
  RefreshExpiry = 1
  RevokedRetention = 0
  MaxResets = 1
  MaxTokens = 3

SPECIFICATION Spec

SYMMETRY MCSymmetry

INVARIANTS
  TypeOK
  OneSessionPerCode
  ReuseKillsRecordedSession
  MarkedAccountsHoldEarlyCodes
