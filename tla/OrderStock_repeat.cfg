\* An admin cancels an order that lists a product twice.
SPECIFICATION Spec
CONSTANTS
  p1 = p1  p2 = p2  t1 = t1  t2 = t2  t3 = t3  u1 = u1  u2 = u2  c1 = c1
  None = None
  Products = {p1, p2}
  Users = {u1}
  Handlers = {t1, t2}
  Cleaners = {c1}
  Requests <- RepeatRequests
  Prices = {1}
  Editable = {p1}
  MaxCartRows = 0
  AdminTargets = {"PAYMENT_FAILED", "CANCELLED"}
  StockEdits = {3}
  TimedStatuses = {"PENDING", "PAYMENT_FAILED"}
  BatchSize = 1
  MaxInt = 3
  MaxLines = 2
  MaxOrders = 2
  MaxFaults = 1
SYMMETRY HandlerSymmetry
INVARIANT StockConserved
