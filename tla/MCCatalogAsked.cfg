\* Two listings of one seller that ask for different statuses.
CONSTANTS
  Seller = {s1, s2}
  Listed = {s1}
  MaxProduct = 1
  MinProduct = 1
  FirstStatus = {"offline"}
  MaxWritten = 1
  Skus <- OneSku
  Page = {2}
  Asked = {"unspecified"}
  Other = other
  Reader = {r1, r2}
  Writer = {w1}
  MaxWrites = 0
  MaxFails = 0
SPECIFICATION Spec
SYMMETRY Symmetry
INVARIANT ShowsWhatIsAsked
CHECK_DEADLOCK FALSE
