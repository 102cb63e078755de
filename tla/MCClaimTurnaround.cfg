SPECIFICATION Spec
CONSTANTS
  o1 = o1
  o2 = o2
  u1 = u1
  u2 = u2
  Units = {u1}
  Orders = {o1, o2}
  Lines <- MCTouchingLines
  Bags <- MCTouchingBags
  CustomerOf <- MCCustomerOf
  Buffer = 1
  MaxDay = 2
  NoOrder = NoOrder
  NoLine = NoLine
INVARIANT TurnaroundKept
CHECK_DEADLOCK FALSE
