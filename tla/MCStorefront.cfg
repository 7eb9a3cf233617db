\* Three requests of one customer over two SKUs; two registrations.
CONSTANTS
  k1 = k1
  k2 = k2
  u1 = u1
  User = {u1}
  Key = {k1, k2}
  Wanted <- MCWanted
  MaxCalls = 3
  MaxSku = 2
  Price = {150, 250}
  TextAttrs = {1, 2}
  MaxPage = 1
  MaxUpdates = 1
  Visitor = {v1, v2}
  Name = {n1, n2}
  Password = {p1, p2}
SPECIFICATION FairSpec
INVARIANTS
  TypeOK
  OneOrderPerKey
  DuplicateWasMade
  RefusedForAReason
  RetryRecordsNoSecondRow
  AmountIsTotal
  RegisteredCanLogIn
PROPERTIES
  RequestsEnd
CHECK_DEADLOCK FALSE
