\* A token presented again while the latest of its family is being rotated.
SPECIFICATION Spec
CONSTANTS
  t1 = t1  t2 = t2  t3 = t3  u1 = u1  u2 = u2
  None = None
  Users = {u1}
  Txs = {t1, t2}
  MaxTokens = 4
  MaxChanges = 0
  MaxExpired = 0
  MaxFaults = 0
SYMMETRY TxSymmetry
PROPERTY ReuseEndsSession
