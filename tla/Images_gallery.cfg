\* Two requests and the worker over the images of two products.
SPECIFICATION Spec
CONSTANTS
  p1 = p1  p2 = p2  t1 = t1  t2 = t2  w1 = w1  i1 = i1  i2 = i2  i3 = i3
  None = None
  Products = {p1, p2}
  Existing = {}
  Editable = {p1}
  Handlers = {t1, t2}
  Workers = {w1}
  MaxPerProduct = 2
  Images = {i1, i2, i3}
  MaxFaults = 1
SYMMETRY Symmetry
INVARIANTS TypeOK GalleryAgrees UploadsAreUsedOnce GalleriesExist NothingLeaks
