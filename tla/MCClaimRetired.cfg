SPECIFICATION Spec
CONSTANTS
  o1 = o1
  o2 = o2
  o3 = o3
  u1 = u1
  u2 = u2
  b1 = b1
  b2 = b2
  w1 = w1
  w2 = w2
  Units = {u1}
  Orders = {o1}
  Batches = {b1}
  Workers = {w1, w2}
  ItemsOf <- MCItemsOf
  Buys = {}
  None = None
PROPERTY RetiredIsTerminal
CHECK_DEADLOCK FALSE
