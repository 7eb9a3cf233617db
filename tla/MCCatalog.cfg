\* The listing of one of two sellers, written with up to two products, read with three.
CONSTANTS
  Seller = {s1, s2}
  Listed = {s1}
  MaxProduct = 3
  MinProduct = 0
  FirstStatus = {"active", "offline"}
  MaxWritten = 0
  Skus <- MCSkus
  Page = {2}
  Asked = {"unspecified"}
  Other = other
  Reader = {r1, r2}
  Writer = {w1}
  MaxWrites = 2
  MaxFails = 1
SPECIFICATION Spec
SYMMETRY Symmetry
INVARIANTS
  CatalogTypeOK
  FreshUnlessOverlapped
  OnlyActiveIsPublic
  PagesVisitEveryProduct
CHECK_DEADLOCK FALSE
