\* Two checkouts of item lists that repeat a product, against price and stock
\* edits, carts, cancellations and a worker that takes two orders in a pass.
SPECIFICATION Spec
CONSTANTS
  p1 = p1  p2 = p2  t1 = t1  t2 = t2  t3 = t3  u1 = u1  u2 = u2  c1 = c1
  None = None
  Products = {p1}
  Users = {u1}
  Handlers = {t1, t2}
  Cleaners = {c1}
  Requests <- RepeatRequests
  Prices = {1, 2}
  StockEdits = {3}
  Editable = {p1}
  MaxCartRows = 1
  AdminTargets = {"PENDING", "PAYMENT_FAILED", "PAID", "SHIPPED", "DELIVERED", "CANCELLED"}
  TimedStatuses = {"PENDING", "PAYMENT_FAILED"}
  BatchSize = 2
  MaxInt = 4
  MaxLines = 2
  MaxOrders = 2
  MaxFaults = 1
SYMMETRY HandlerSymmetry
INVARIANTS TypeOK ShippedIsTracked NoOversell LockedStockSuffices
PROPERTIES OnlyDocumentedMoves AutoCancelOnlyStale CheckoutIsAtomic
