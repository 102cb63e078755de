SPECIFICATION Spec
CONSTANTS
  o1 = o1
  o2 = o2
  u1 = u1
  u2 = u2
  Units = {u1, u2}
  Orders = {o1, o2}
  Lines <- MCStockLines
  Bags <- MCStockBags
  CustomerOf <- MCCustomerOf
  Buffer = 1
  MaxDay = 2
  NoOrder = NoOrder
  NoLine = NoLine
SYMMETRY MCUnitSymmetry
INVARIANTS TypeOK NoDoubleBooking HoldsAreLive SoldToOneBuyer
PROPERTIES AtomicBooking HoldEndsWithItsOrder
CHECK_DEADLOCK FALSE
