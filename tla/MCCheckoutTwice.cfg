\* A customer opens two sessions of one order and pays both.
CONSTANTS
  Order = {o1}
  Session = {p1, p2}
  TimeoutMessages = {}
  MaxDropped = 0
SPECIFICATION Spec
INVARIANT ChargedOnce
CHECK_DEADLOCK FALSE
