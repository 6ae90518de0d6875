CONSTANTS
  Requests = {r1, r2, r3}
  MaxFailedAttempts = 4
  LockoutTicks = 2
  MaxPasswords = 2

SPECIFICATION FairSpec

INVARIANTS
  TypeOK
  GuessesBounded
  OnlyImportedPasswordReturns

PROPERTY
  LockEnds
