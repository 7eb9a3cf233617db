\* A customer pays nothing; Stripe reports the expired session.
CONSTANTS
  Order = {o1}
  Session = {p1, p2}
  TimeoutMessages = {}
  MaxDropped = 0
SPECIFICATION Spec
INVARIANT ConfirmedMeansPaid
CHECK_DEADLOCK FALSE
