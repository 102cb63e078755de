SPECIFICATION Spec
CONSTANTS
  o1 = o1
  p1 = p1
  p2 = p2
  r1 = r1
  r2 = r2
  r3 = r3
  w1 = w1
  w2 = w2
  Orders = {o1}
  Payments = {p1, p2}
  Refunds = {r1, r2, r3}
  OrderOf <- MCOrderOf
  Gateways = {"razorpay"}
  Workers = {w1, w2}
  AmountPaid = 2
  Deposit = 1
  MaxDeposits = 2
  MaxFaults = 2
  None = None
CONSTRAINT MCFocus
SYMMETRY MCSymmetry
INVARIANTS TypeOK KeptOrdersArePaid RefundedOnce RefundsAreOwed
PROPERTIES Lifecycle MoneyIsAccounted
CHECK_DEADLOCK FALSE
