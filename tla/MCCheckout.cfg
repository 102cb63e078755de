SPECIFICATION Spec
CONSTANTS
  l1 = l1
  l2 = l2
  w1 = w1
  w2 = w2
  k1 = k1
  k2 = k2
  o1 = o1
  o2 = o2
  Customers = {ana}
  LineIds = {l1, l2}
  Orders = {o1, o2}
  Keys = {k1, k2}
  Workers = {w1, w2}
  Prices = {2, 3}
  Deposit = 1
  Stock = 2
  MaxQty = 2
  MaxLines = 2
  TheCoupon <- MCCoupon
  TheMethod <- MCMethod
  ListPrice <- MCListPrice
  MaxEdits = 1
  MaxMoves = 3
  NoRow = NoRow
CONSTRAINT MCFocus
SYMMETRY MCSymmetry
INVARIANTS TypeOK ChargedAsReviewed OrderAddsUp AbandonedKeepsCoupon
PROPERTIES BagKeptUntilPaid
CHECK_DEADLOCK FALSE
