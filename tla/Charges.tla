------------------------------ MODULE Charges ------------------------------
(***************************************************************************)
(* What a foreign customer is shown and charged: lib/fx.ts,                *)
(* middleware/currency.ts, jobs/fxRates.ts, lib/pricing.ts, and the amounts*)
(* of orders/placement.ts, orders/service.ts, payments/session.ts and      *)
(* payments/refunds.ts.  Prices are in the base currency.  Every request   *)
(* settles its own currency and rate; an order keeps those it was placed   *)
(* with; the rates are refreshed at any time.  A rate r stands for r/Scale.*)
(* An order may have several payments: sessions race each other, the close *)
(* of the order and its payments, and a change of gateway retires what the *)
(* other one was asked for.  What decides between them is OrderPayments'   *)
(* business; here it is what each of them charges.                         *)
(***************************************************************************)
EXTENDS Integers, FiniteSets

CONSTANTS
  Base,         \* env.currency.base
  Foreign,      \* the other currencies of COUNTRY_CURRENCY
  Places,       \* countries
  CurrencyOf,   \* COUNTRY_CURRENCY: for some places a currency
  Scale, Rates, \* a rate of 1, and the rates a provider may publish
  Totals,       \* totalPaise + depositTotalPaise of an order
  Bills,        \* orders
  Payments,
  Sessions,     \* requests that open a payment session
  MaxRefreshes, \* bound: runs of the rates job
  Nothing

VARIABLES
  rate,         \* rate[c]: FxRate of a foreign currency, or Nothing
  visit,        \* currency and rate of the request under way, or Nothing
  bill,         \* bill[b]: Order, or Nothing
  payment,      \* payment[p]: Payment, or Nothing
  opening,      \* opening[s]: where such a request is, or Nothing
  razorpay,     \* isRazorpayConfigured
  seen,         \* seen[b]: what the customer was shown when placing the order
  refreshes

chargeVars == <<rate, visit, bill, payment, opening, razorpay, seen, refreshes>>

Currencies == Foreign \cup {Base}

Gateways == {"razorpay", "stripe"}

BillRow == [total : Totals, currency : Currencies, rate : Rates \cup {Scale}, payable : BOOLEAN]
PaymentRow == [bill : Bills, status : {"pending", "paid", "failed", "refunded"}, gateway : Gateways,
               minor : Nat, currency : Currencies, returned : Nat]

Init ==
  /\ rate = [c \in Foreign |-> Nothing]
  /\ visit = Nothing
  /\ bill = [b \in Bills |-> Nothing]
  /\ payment = [p \in Payments |-> Nothing]
  /\ opening = [s \in Sessions |-> Nothing]
  /\ razorpay = TRUE
  /\ seen = [b \in Bills |-> Nothing]
  /\ refreshes = 0

(* Math.round of the product.                                              *)
Convert(amount, r) == (2 * amount * r + Scale) \div (2 * Scale)

(* A rate that is missing counts as 1.                                     *)
RateOf(c) == IF c = Base \/ rate[c] = Nothing THEN Scale ELSE rate[c]

CurrencyForCountry(place) == IF place \in DOMAIN CurrencyOf THEN CurrencyOf[place] ELSE Base

(* The override, the saved currency, the saved country, the place of the   *)
(* address; what is not supported is passed over, what is missing, too.    *)
DisplayCurrency(query, preferred, country, place) ==
  CASE query \in Currencies -> query
    [] query \notin Currencies /\ preferred \in Currencies -> preferred
    [] query \notin Currencies /\ preferred \notin Currencies /\ country # Nothing -> CurrencyForCountry(country)
    [] OTHER -> CurrencyForCountry(place)

(* runFxRatesJob: the rates the provider answers with, or the fallback     *)
(* table, in one transaction; a currency it leaves out keeps its rate.     *)
Refresh ==
  /\ refreshes < MaxRefreshes /\ refreshes' = refreshes + 1
  /\ \E some \in (SUBSET Foreign) \ {{}} : \E published \in [some -> Rates] :
       rate' = [c \in Foreign |-> IF c \in some THEN published[c] ELSE rate[c]]
  /\ UNCHANGED <<visit, bill, payment, opening, razorpay, seen>>

(* resolveCurrency, before the handler runs.                               *)
Arrive(query, preferred, country, place) ==
  LET c == DisplayCurrency(query, preferred, country, place) IN
  /\ visit = Nothing
  /\ visit' = [currency |-> c, rate |-> RateOf(c)]
  /\ UNCHANGED <<rate, bill, payment, opening, razorpay, seen, refreshes>>

Leave ==
  /\ visit # Nothing /\ visit' = Nothing
  /\ UNCHANGED <<rate, bill, payment, opening, razorpay, seen, refreshes>>

(* presentPricing, and orderPricing with the order's own currency and rate.*)
Presented(amount, currency, r) == [currency |-> currency, amount |-> Convert(amount, r)]

PlaceOrder(b, total) ==
  /\ visit # Nothing /\ bill[b] = Nothing
  /\ bill' = [bill EXCEPT ![b] =
       [total |-> total, currency |-> visit.currency, rate |-> visit.rate, payable |-> TRUE]]
  /\ seen' = [seen EXCEPT ![b] = Presented(total, visit.currency, visit.rate)]
  /\ UNCHANGED <<rate, visit, payment, opening, razorpay, refreshes>>

Shown(b) == Presented(bill[b].total, bill[b].currency, bill[b].rate)

PaymentsOf(b) == {p \in Payments : payment[p] # Nothing /\ payment[p].bill = b}
PendingOf(b) == {p \in PaymentsOf(b) : payment[p].status = "pending"}

(* The partial unique index on Payment(orderId).                           *)
ActiveOf(b) == {p \in PaymentsOf(b) : payment[p].status \in {"pending", "paid"}}

(* Mutant of RateCharged: the rate of today.                               *)
RateOfToday(b) == RateOf(bill[b].currency)

RateCharged(b) == bill[b].rate

Charge(b) == Convert(bill[b].total, RateCharged(b))

LaneOf(b) == IF bill[b].currency = Base /\ razorpay THEN "razorpay" ELSE "stripe"

SessionGoes(s, to) == opening' = [opening EXCEPT ![s] = to]

Asking(b, gateway, minor) == [pc |-> "ask", bill |-> b, gateway |-> gateway, minor |-> minor]

(* createPaymentSession: the order and its pending payment.  One of this   *)
(* gateway and amount is used again; another one is to be retired.         *)
BeginSession(s, b) ==
  /\ opening[s] = Nothing
  /\ bill[b] # Nothing /\ bill[b].payable
  /\ \/ /\ PendingOf(b) = {}
        /\ SessionGoes(s, Asking(b, LaneOf(b), Charge(b)))
     \/ \E p \in PendingOf(b) :
          /\ payment[p].gateway # LaneOf(b) \/ payment[p].minor # Charge(b)
          /\ SessionGoes(s, [pc |-> "retire", bill |-> b, gateway |-> LaneOf(b), minor |-> Charge(b), stale |-> p])
  /\ UNCHANGED <<rate, visit, bill, payment, razorpay, seen, refreshes>>

(* By id, whatever became of it meanwhile.                                 *)
Retire(s) ==
  /\ opening[s] # Nothing /\ opening[s].pc = "retire"
  /\ payment' = [payment EXCEPT ![opening[s].stale].status = "failed"]
  /\ SessionGoes(s, Asking(opening[s].bill, opening[s].gateway, opening[s].minor))
  /\ UNCHANGED <<rate, visit, bill, razorpay, seen, refreshes>>

(* The gateway fails, or the insert meets the unique index: the request    *)
(* ends, with the winner's payment where there is one.                     *)
GiveUp(s) ==
  /\ opening[s] # Nothing /\ opening[s].pc = "ask"
  /\ SessionGoes(s, Nothing)
  /\ UNCHANGED <<rate, visit, bill, payment, razorpay, seen, refreshes>>

(* The gateway has an order of this amount, and the payment is inserted.   *)
InsertPayment(s, p) ==
  /\ opening[s] # Nothing /\ opening[s].pc = "ask"
  /\ ActiveOf(opening[s].bill) = {} /\ payment[p] = Nothing
  /\ payment' = [payment EXCEPT ![p] =
       [bill |-> opening[s].bill, status |-> "pending", gateway |-> opening[s].gateway,
        minor |-> opening[s].minor, currency |-> bill[opening[s].bill].currency, returned |-> 0]]
  /\ SessionGoes(s, Nothing)
  /\ UNCHANGED <<rate, visit, bill, razorpay, seen, refreshes>>

(* Razorpay is configured, or is not any more.                             *)
Reconfigure ==
  /\ razorpay' = ~razorpay
  /\ UNCHANGED <<rate, visit, bill, payment, opening, seen, refreshes>>

(* closeUnpaidOrder: the order expires or is cancelled, its open payment   *)
(* fails.                                                                  *)
Close(b) ==
  /\ bill[b] # Nothing /\ bill[b].payable
  /\ bill' = [bill EXCEPT ![b].payable = FALSE]
  /\ payment' = [p \in Payments |-> IF p \in PendingOf(b) THEN [payment[p] EXCEPT !.status = "failed"] ELSE payment[p]]
  /\ UNCHANGED <<rate, visit, opening, razorpay, seen, refreshes>>

(* finalizeOrderPayment: also of a payment that was retired or closed, as  *)
(* long as no other one is active.                                         *)
Pay(p) ==
  /\ payment[p] # Nothing /\ payment[p].status \in {"pending", "failed"}
  /\ ActiveOf(payment[p].bill) \subseteq {p}
  /\ payment' = [payment EXCEPT ![p].status = "paid"]
  /\ bill' = [bill EXCEPT ![payment[p].bill].payable = FALSE]
  /\ UNCHANGED <<rate, visit, opening, razorpay, seen, refreshes>>

(* refundPaymentFully: in the currency charged, proportionally.            *)
MinorOf(p, amount) ==
  LET total == bill[payment[p].bill].total IN (2 * amount * payment[p].minor + total) \div (2 * total)

GiveBack(p) ==
  /\ payment[p] # Nothing /\ payment[p].status = "paid"
  /\ payment' = [payment EXCEPT ![p].status = "refunded", ![p].returned = MinorOf(p, bill[payment[p].bill].total)]
  /\ UNCHANGED <<rate, visit, bill, opening, razorpay, seen, refreshes>>

Next ==
  \/ Refresh \/ Leave \/ Reconfigure
  \/ \E query, preferred \in Currencies \cup {Nothing} : \E country, place \in Places \cup {Nothing} :
       Arrive(query, preferred, country, place)
  \/ \E b \in Bills :
       \/ Close(b)
       \/ \E total \in Totals : PlaceOrder(b, total)
       \/ \E s \in Sessions : BeginSession(s, b)
  \/ \E s \in Sessions : Retire(s) \/ GiveUp(s) \/ \E p \in Payments : InsertPayment(s, p)
  \/ \E p \in Payments : Pay(p) \/ GiveBack(p)

Spec == Init /\ [][Next]_chargeVars

-----------------------------------------------------------------------------
(* Every row has a shape its table allows.                                 *)
TypeOK ==
  /\ \A c \in Foreign : rate[c] \in Rates \cup {Nothing}
  /\ \A b \in Bills : bill[b] # Nothing => bill[b] \in BillRow
  /\ \A p \in Payments : payment[p] # Nothing => payment[p] \in PaymentRow

(* What the customer was shown when the order was placed is what its page  *)
(* shows ever after, and what every payment of it charges: also the second *)
(* one, made after a change of gateway, a close or a lost race, and one    *)
(* that is retired and paid all the same, however the rates moved; and a   *)
(* refund returns exactly that (orders/service.ts: "Amounts are shown in   *)
(* the currency the order was charged in", session.ts: chargedAmountMinor, *)
(* refunds.ts: "in the currency actually charged").                        *)
ShownIsCharged ==
  /\ \A b \in Bills : bill[b] # Nothing => Shown(b) = seen[b]
  /\ \A p \in Payments : payment[p] # Nothing =>
       /\ payment[p].currency = seen[payment[p].bill].currency
       /\ payment[p].minor = seen[payment[p].bill].amount
       /\ payment[p].status = "refunded" => payment[p].returned = seen[payment[p].bill].amount
=============================================================================
