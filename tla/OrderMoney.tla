----------------------------- MODULE OrderMoney -----------------------------
(***************************************************************************)
(* What payment handling promises, with no requests, no rows and no        *)
(* webhooks: an order is paid by a payment the shop keeps as long as the   *)
(* order stands, up to deposits given back; while a payment is kept in     *)
(* full no other is taken; a payment goes back once, and only when the     *)
(* order no longer stands or another payment keeps it.                     *)
(***************************************************************************)
EXTENDS Naturals

CONSTANTS Orders, Payments, OrderOf

VARIABLES
  account,  \* open (payable), paid, closed, refunded
  money     \* of a payment: out (not claimed), in (kept in full), part (kept,
            \* deposits given back), back (given back)

mvars == <<account, money>>

MInit ==
  /\ account = [o \in Orders |-> "open"]
  /\ money = [p \in Payments |-> "out"]

Rivals(p) == {q \in Payments \ {p} : OrderOf[q] = OrderOf[p]}

(* A payment pays its order, or is kept until it is given back.            *)
Take(p) ==
  /\ money[p] = "out" /\ \A q \in Rivals(p) : money[q] # "in"
  /\ money' = [money EXCEPT ![p] = "in"]
  /\ \/ account[OrderOf[p]] \in {"open", "closed"} /\ account' = [account EXCEPT ![OrderOf[p]] = "paid"]
     \/ account[OrderOf[p]] # "open" /\ UNCHANGED account

Shut(o) ==
  /\ account[o] \in {"open", "paid"}
  /\ account' = [account EXCEPT ![o] = "closed"]
  /\ UNCHANGED money

(* Deposits are given back of an order that stands.                        *)
GivePart(p) ==
  /\ money[p] = "in" /\ account[OrderOf[p]] = "paid"
  /\ money' = [money EXCEPT ![p] = "part"]
  /\ UNCHANGED account

GiveBack(p) ==
  /\ money[p] \in {"in", "part"}
  /\ account[OrderOf[p]] \in {"closed", "refunded"} \/ \E q \in Rivals(p) : money[q] \in {"in", "part"}
  /\ money' = [money EXCEPT ![p] = "back"]
  /\ UNCHANGED account

MarkRefunded(o) ==
  /\ account[o] = "closed" /\ \E p \in Payments : OrderOf[p] = o /\ money[p] = "back"
  /\ account' = [account EXCEPT ![o] = "refunded"]
  /\ UNCHANGED money

MNext ==
  \/ \E p \in Payments : Take(p) \/ GivePart(p) \/ GiveBack(p)
  \/ \E o \in Orders : Shut(o) \/ MarkRefunded(o)

MSpec == MInit /\ [][MNext]_mvars
=============================================================================
