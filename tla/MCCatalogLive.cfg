\* One offline product, updated while it is listed, also by who clears other keys.
CONSTANTS
  Seller = {s1, s2}
  Listed = {s1}
  MaxProduct = 1
  MinProduct = 1
  FirstStatus = {"offline"}
  MaxWritten = 1
  Skus <- OneSku
  Page = {2}
  Asked = {"unspecified"}
  Other = other
  Reader = {r1, r2}
  Writer = {w1}
  MaxWrites = 1
  MaxFails = 1
SPECIFICATION FairSpec
PROPERTY StaleListingsExpire
CHECK_DEADLOCK FALSE
