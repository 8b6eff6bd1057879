\* Two requests at a time over the tokens of one user.
SPECIFICATION FairSpec
CONSTANTS
  t1 = t1  t2 = t2  t3 = t3  u1 = u1  u2 = u2
  None = None
  Users = {u1}
  Txs = {t1, t2}
  MaxTokens = 3
  MaxChanges = 1
  MaxExpired = 1
  MaxFaults = 1
INVARIANTS TypeOK InsertNeverConflicts OneAnswer PasswordEndsSessions
PROPERTIES SessionsStayEnded RequestsEnd
CHECK_DEADLOCK FALSE
