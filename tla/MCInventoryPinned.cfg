\* The calls as the pinned gorm runs them; zero and negative quantities too.
CONSTANTS
  o1 = o1
  o2 = o2
  s1 = s1
  s2 = s2
  Sku = {s1, s2}
  Order = {o1, o2}
  Items <- AnyItems
  Tx = {t1, t2}
  StockValues <- AnyStock
  ModelIsKeyed = FALSE
SPECIFICATION Spec
INVARIANT ReservedIsLocked
PROPERTY KeepsPromise
