\* Stock adjusted, orders released and deducted for ever, against the pinned gorm.
CONSTANTS
  o1 = o1
  o2 = o2
  s1 = s1
  s2 = s2
  Sku = {s1, s2}
  Order = {o1, o2}
  Items <- PositiveItems
  Tx = {t1}
  StockValues = {3}
  ModelIsKeyed = FALSE
SPECIFICATION CallingSpec
PROPERTY SomeCallTakesEffect
