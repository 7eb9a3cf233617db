\* One order with two sessions, cancelled or timed out at any time, or with losses.
CONSTANTS
  Order = {o1}
  Session = {p1, p2}
  TimeoutMessages = {o1}
  MaxDropped = 2
SPECIFICATION BoundedSpec
INVARIANTS
  TypeOK
  PaidRowsWereCharged
  DeductionsWereCharged
  ConfirmedWasReported
PROPERTIES
  ChargeReachesInventory
  OrderReservesStock
CHECK_DEADLOCK FALSE
