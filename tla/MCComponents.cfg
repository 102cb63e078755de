SPECIFICATION Spec
CONSTANTS
  Items = {r1, r2}
  ItemDeposit <- MCItemDeposit
  Grades = {0}
  AmountPaid = 6
  Refunds = {r1, r2}
  Clerks = {w1, w2}
  RefundFaults = 1
  NoRefund = NoRefund
  Emails = {r1, r2}
  Phones = {p1}
  Codes = {r1, r2}
  Requests = {w1, w2}
  Sessions = {s1}
  ResetLinks = {t1}
  MaxAttempts = 2
  NoOne = NoOne
  NoCode = NoCode
  Orders = {o1}
  Jobs = {r1, r2}
  Operators = {w1, w2}
  NoJob = NoJob
  Addresses = {a1, a2, a3}
  MaxAddresses = 3
  Texts = {good, bad}
  Deliverable = {good}
  Parcels = {b1}
  NoAddress = NoAddress
  Categories = {tops, gowns}
  Products = {dress}
  Colours = {r1, r2}
  Sizes = {S}
  Units = {u1}
  Lines = {r1, r2}
  Editors = {w1, w2}
  Missing = Missing
  Base = "INR"
  Foreign = {"USD"}
  Places = {"us", "in"}
  CurrencyOf <- MCCurrencyOf
  Scale = 2
  Rates = {1, 3}
  Totals = {3, 4}
  Bills = {b1}
  Payments = {q1, q2}
  PaySessions = {w1, w2}
  MaxRefreshes = 2
  Nothing = Nothing
SYMMETRY MCSymmetry
INVARIANTS TypeOK RecordedIsGiven StatusFollowsRefunds AttemptsBounded DispatchedOnce TimelineDated OneDefault SentWhereDeliverable NothingDangles ShownIsCharged
PROPERTIES AskingAgainGivesNothing CodeServesOnce
CHECK_DEADLOCK FALSE
