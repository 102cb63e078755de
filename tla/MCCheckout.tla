----------------------------- MODULE MCCheckout -----------------------------
(***************************************************************************)
(* A small shop: one customer, two requests at a time, and a coupon of half*)
(* the rental, at most 2, for rentals from 3.                              *)
(***************************************************************************)
EXTENDS Checkout, TLC

CONSTANTS l1, l2, w1, w2, k1, k2, o1, o2

MCCoupon == [kind |-> "percent", value |-> 50, cap |-> 2, min |-> 3, scope |-> "rent", limit |-> 1, perUser |-> 1]
MCMethod == [fee |-> 1, freeFrom |-> 5]

MCListPrice == [rent |-> 3, buy |-> 2]

(* Three changes in all: to the bag, or one of them to the shop.           *)
MCFocus == moves + edits <= 3

MCSymmetry == Permutations(LineIds) \cup Permutations(Workers) \cup Permutations(Keys) \cup Permutations(Orders)
=============================================================================
