CONSTANTS
  u1 = u1
  Users <- MCUsers
  ServiceAccounts <- MCUsers
  SessionIds = {s1}
  Requests = {r1, r2}
  Nobody = Nobody
  RefreshExpiry = 1
  RevokedRetention = 0
  MaxResets = 1
  MaxDeactivations = 1

SPECIFICATION Spec

INVARIANTS
  TypeOK
  MarkedAccountsHoldEarlySessions
  InactiveAccountsHoldEarlySessions
  FirstFactorOpensNothing
