------------------------------- MODULE Quotes -------------------------------
(***************************************************************************)
(* The money of a checkout: pricing/quote.ts, coupons/evaluate.ts and      *)
(* shipping/methods.ts, which the bag, the review screen and placement all *)
(* call.  Amounts are whole paise.  A bag is a function from the modes of  *)
(* its lines ("rent", "buy") to the line's price, deposit and quantity.    *)
(* Dates, labels, PIN codes and reasons of refusal are left out: a coupon  *)
(* is open or not, an address is served or not.                            *)
(***************************************************************************)
EXTENDS Integers, FiniteSets, FiniteSetsExt

Modes == {"rent", "buy"}

QuoteRow == [subtotal : Nat, discount : Nat, fee : Nat, deposits : Nat, grand : Nat]

(* computeQuote throws on an amount that is no natural number.             *)
Lesser(a, b) == IF a < b THEN a ELSE b

Subtotal(lines, mode) ==
  IF mode \in DOMAIN lines THEN lines[mode].price * lines[mode].qty ELSE 0

DepositTotal(lines) ==
  IF "rent" \in DOMAIN lines THEN lines["rent"].deposit * lines["rent"].qty ELSE 0

GoodsTotal(lines) == Subtotal(lines, "rent") + Subtotal(lines, "buy")

(* The discount is cut to the goods; delivery and deposits stay owed.      *)
Quote(lines, discount, fee) ==
  LET off == Lesser(discount, GoodsTotal(lines)) IN
  [subtotal |-> GoodsTotal(lines), discount |-> off, fee |-> fee,
   deposits |-> DepositTotal(lines),
   grand |-> GoodsTotal(lines) - off + fee + DepositTotal(lines)]

Coupon == [kind : {"percent", "flat"}, value : Nat, cap : Nat, min : Nat,
           scope : Modes \cup {"any"},
           limit : Nat, perUser : Nat]

Eligible(coupon, lines) ==
  IF coupon.scope = "any" THEN GoodsTotal(lines) ELSE Subtotal(lines, coupon.scope)

(* open stands for isActive and the dates; total and used count the paid   *)
(* orders with the coupon, of everybody and of the customer.               *)
CouponApplies(coupon, lines, open, total, used) ==
  /\ open
  /\ total < coupon.limit
  /\ used < coupon.perUser
  /\ Eligible(coupon, lines) > 0
  /\ Eligible(coupon, lines) >= coupon.min

FaceValue(coupon, eligible) ==
  IF coupon.kind = "percent" THEN (eligible * coupon.value) \div 100 ELSE coupon.value

CouponDiscount(coupon, lines) ==
  LET eligible == Eligible(coupon, lines) IN
  Lesser(Lesser(FaceValue(coupon, eligible), coupon.cap), eligible)

Method == [fee : Nat, freeFrom : Nat]

(* The fee is waived on what the goods cost after the discount.            *)
DeliveryFee(method, goods) == IF goods >= method.freeFrom THEN 0 ELSE method.fee

(* What a bag costs: items only, then the coupon, then the delivery.       *)
BagQuote(lines, coupon, applied, method) ==
  LET off == IF applied THEN CouponDiscount(coupon, lines) ELSE 0
      items == Quote(lines, off, 0)
  IN Quote(lines, items.discount, DeliveryFee(method, items.subtotal - items.discount))

-----------------------------------------------------------------------------
(* The promise of coupons/evaluate.ts, stated without its arithmetic: the  *)
(* largest amount that is within the coupon's value, its cap and the price *)
(* of the goods it is for.                                                 *)
Allowed(coupon, lines) ==
  {d \in 0..Eligible(coupon, lines) :
     /\ d <= coupon.cap
     /\ IF coupon.kind = "percent"
        THEN d * 100 <= Eligible(coupon, lines) * coupon.value
        ELSE d <= coupon.value}

FairDiscount(coupon, lines) == Max(Allowed(coupon, lines))
=============================================================================
