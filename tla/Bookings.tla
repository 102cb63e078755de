------------------------------ MODULE Bookings ------------------------------
(***************************************************************************)
(* What stock allocation promises, with no locks and no transactions:      *)
(* an order takes all of its units in one step, from units no other live   *)
(* order excludes it from, possibly giving up older orders of the same     *)
(* customer in the same step; and an order lets go of everything at once.  *)
(***************************************************************************)
EXTENDS Calendar

VARIABLES
  now,   \* today
  held   \* held[o]: the bookings of o while o is live, {} otherwise

bvars == <<now, held>>

BTypeOK ==
  /\ now \in Nat
  /\ held \in [Orders -> SUBSET Booking]

BInit ==
  /\ now = 0
  /\ held = [o \in Orders |-> {}]

(* Order o books all its units at once; the orders D are given up in the   *)
(* same step.                                                              *)
Book(o, D) ==
  /\ held[o] = {}
  /\ held'[o] \in SUBSET Booking
  /\ OncePerUnit(held'[o])
  /\ \A b \in held'[o] : FreeOf(held, Orders \ (D \cup {o}), b.unit, b.line, now)
  /\ held' = [p \in Orders |-> IF p = o THEN held'[o] ELSE IF p \in D THEN {} ELSE held[p]]
  /\ UNCHANGED now

Release(o) ==
  /\ held' = [held EXCEPT ![o] = {}]
  /\ UNCHANGED now

NextDay ==
  /\ now' = now + 1
  /\ UNCHANGED held

BNext ==
  \/ \E o \in Orders : \E D \in SUBSET (Orders \ {o}) : Book(o, D)
  \/ \E o \in Orders : Release(o)
  \/ NextDay

BSpec == BInit /\ [][BNext]_bvars

(* No garment is ever promised twice: the "never oversold, never double-   *)
(* booked" promise of docs/CHECKOUT_ORDER_FLOW.md section L.               *)
NoDoubleBooking == NoClash(held, now)
=============================================================================
