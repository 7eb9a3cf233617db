\* The calls as they would run if gorm knew the keys; positive quantities.
CONSTANTS
  o1 = o1
  o2 = o2
  s1 = s1
  s2 = s2
  Sku = {s1, s2}
  Order = {o1, o2}
  Items <- PositiveItems
  Tx = {t1, t2}
  StockValues <- AnyStock
  ModelIsKeyed = TRUE
SPECIFICATION Spec
INVARIANTS
  TypeOK
  ReservedIsLocked
