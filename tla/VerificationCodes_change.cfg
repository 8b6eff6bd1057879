\* One address is wanted by an e-mail change, registrations and social logins; codes are
\* presented by several requests at once, and cleaned up by two workers: lock cycles.
SPECIFICATION Spec
CONSTANTS
  t1 = t1  t2 = t2  t3 = t3  u1 = u1  u2 = u2  e1 = e1  e2 = e2  i1 = i1  i2 = i2
  None = None
  Users = {u1, u2}
  Emails = {e1, e2}
  Identities = {i1}
  Txs = {t1, t2, t3}
  Established <- OneAccount
  MaxAttempts = 2
  MaxCodes = 2
  MaxClock = 2
  MaxFaults = 0
SYMMETRY TxSymmetry
INVARIANTS AccountsAreUnique AttemptsAreLimited
PROPERTY DeletedCodesStayDead
