\* A product is given a category while the category is being deleted.
SPECIFICATION Spec
CONSTANTS
  c1 = c1  c2 = c2  p1 = p1  p2 = p2  t1 = t1  t2 = t2
  None = None
  Categories = {c1}
  Products = {p1}
  Names = {"A", "A 2"}
  Slugs <- AllSlugs
  SlugOf <- SlugsOfNames
  Txs = {t1, t2}
  MaxRequests = 4
PROPERTY OnlyEmptyCategoriesGo
