SPECIFICATION Spec
CONSTANTS
  Calls = {t1, t2}
  CodesPerEnrolment = 3
  MaxSecrets = 2
  MaxEnrolments = 2
  Keys = {passkey}
  Uncounted = {}
  Names = {ana, discoverable}
  Handlers = {t1, t2}
  MaxChallenges = 3
  MaxRestarts = 1
  Apps = {x1, x2}
  Ranks = {admin}
  Issuers = {i1}
  ClientIds = {formnext, portal}
  SeedClients = {formnext}
  CodeIds = {x1, x2}
  Grants = {t1, t2}
  MaxClientSecrets = 2
  MaxBirths = 2
  ServiceKeys = {syncmsc, forms}
  PadronWriters = {syncmsc}
  Usernames = {inspector, ana}
  LoginUsernames = {inspector}
  KeyIds = {x1, x2}
  ServiceCalls = {c1}
  MaxServices = 2
  Affected = {x1, x2}
  Runs = {t1, t2}
  MaxTemporaries = 3
SYMMETRY Symmetry
INVARIANTS
  FactorsTypeOK
  EnabledAsConfirmed
  UsesBounded
  ChallengeServesOnce
  CounterIsHighestUnlessOverlap
  LateSessionsWereCounted
  ClaimsWereHeld
  RemovalEndsExchanges
  OnlySeedSecretReturns
  DeadKeysOpenNothing
  StrandedOnlyByStop
  RerunsCancelNothing
PROPERTIES
  StuckStaysStuck
CHECK_DEADLOCK FALSE
