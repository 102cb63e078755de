-------------------------- MODULE MCOrderPayments --------------------------
(***************************************************************************)
(* Small instances of OrderPayments: every payment is for the one order    *)
(* whose rows the requests fight over, because no step relates the rows    *)
(* of two orders.                                                          *)
(***************************************************************************)
EXTENDS PaymentClaims, TLC
CONSTANTS o1, p1, p2, r1, r2, r3, w1, w2
MCOrderOf == [p \in Payments |-> o1]

(* Two things in all that are out of the ordinary: faults and deposits.    *)
MCFocus == faults + Deposits <= 2

MCSymmetry == Permutations(Workers) \cup Permutations(Refunds)
=============================================================================
