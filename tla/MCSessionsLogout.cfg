CONSTANTS
  u1 = u1
  c1 = c1
  Users <- MCUsers
  Clients <- MCClients
  Owner <- MCOwner
  SessionIds = {s1, s2}
  Requests = {r1, r2}
  Nobody = Nobody
  NoSession = NoSession
  RefreshExpiry = 2
  RevokedRetention = 2
  AccessExpiry = 1
  MaxRequestTicks = 1
  MaxTokens = 3

SPECIFICATION Spec

INVARIANT
  LogoutClosesTheSession
