---------------------------- MODULE PaymentClaims ----------------------------
(***************************************************************************)
(* What a document says of payments, and the code does not do: checked     *)
(* alone and refuted by a run of its own.                                  *)
(***************************************************************************)
EXTENDS OrderPayments

(* CHECKOUT_ORDER_FLOW.md section I, "Late payment after hold": "Re-       *)
(* reserve or auto-refund".  A captured payment is confirmed or refunded,  *)
(* even when its order has another payment; the partial unique index makes *)
(* the claim fail for ever instead.                                        *)
LatePaymentIsHandled ==
  \A p \in Payments : (gateway[p] = "captured") ~> (payment[p] \in Taken)
=============================================================================
