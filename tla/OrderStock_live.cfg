\* Two products ordered in opposite orders, stock edits and the worker: every transaction
\* ends, stale orders are handled while there is room for what they return.
SPECIFICATION FairSpec
CONSTANTS
  p1 = p1  p2 = p2  t1 = t1  t2 = t2  t3 = t3  u1 = u1  u2 = u2  c1 = c1
  None = None
  Products = {p1, p2}
  Users = {u1}
  Handlers = {t1, t2}
  Cleaners = {c1}
  Requests <- OppositeRequests
  Prices = {1}
  StockEdits = {2}
  Editable = {p1}
  MaxCartRows = 0
  AdminTargets = {"PAYMENT_FAILED", "CANCELLED"}
  TimedStatuses = {"PENDING", "PAYMENT_FAILED"}
  BatchSize = 1
  MaxInt = 2
  MaxLines = 2
  MaxOrders = 2
  MaxFaults = 0
INVARIANT StockConserved
PROPERTIES EveryTransactionEnds StaleOrdersAreHandled
CHECK_DEADLOCK FALSE
