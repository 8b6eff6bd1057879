\* Two requests at a time, of five.
SPECIFICATION Spec
CONSTANTS
  a1 = a1  a2 = a2  a3 = a3  o1 = o1  x = x  y = y  f1 = f1  f2 = f2  t1 = t1  t2 = t2
  None = None
  Addresses = {a1, a2, a3}
  Orders = {o1}
  Contents = {x, y}
  Files = {f1, f2}
  Txs = {t1, t2}
  MaxStock = 2
  MaxRequests = 5
  MaxFaults = 1
SYMMETRY Symmetry
INVARIANTS TypeOK OneDefault PicturesExist NoFileIsForgotten CartIsCovered
PROPERTY ShippedAsAddressed
