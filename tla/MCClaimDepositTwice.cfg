SPECIFICATION Spec
CONSTANTS
  Items = {i1}
  ItemDeposit <- MCItemDeposit
  Grades = {100, 50, 0}
  AmountPaid = 7
  Refunds = {r1, r2}
  Clerks = {c1, c2}
  RefundFaults = 0
  NoRefund = NoRefund
INVARIANTS GivenByCondition
CHECK_DEADLOCK FALSE
