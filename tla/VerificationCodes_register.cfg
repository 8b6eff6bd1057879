\* Registrations, resends, verifications, social logins and the purge of one address.
SPECIFICATION FairSpec
CONSTANTS
  t1 = t1  t2 = t2  t3 = t3  u1 = u1  u2 = u2  e1 = e1  e2 = e2  i1 = i1  i2 = i2
  None = None
  Users = {u1, u2}
  Emails = {e1}
  Identities = {i1}
  Txs = {t1, t2}
  Established <- NoAccounts
  MaxAttempts = 2
  MaxCodes = 2
  MaxClock = 1
  MaxFaults = 1
INVARIANTS TypeOK CodeVerifiesItsPassword
PROPERTIES VerifiedAccountsStay OwnersLink ExpiredCodesGo
CHECK_DEADLOCK FALSE
