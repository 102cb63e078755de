----------------------------- MODULE MCGarments -----------------------------
(* Finite instances of GarmentLifecycle for TLC: o1 and o3 rent, o2 buys.  *)
EXTENDS GarmentClaims, TLC

CONSTANTS o1, o2, o3, u1, u2, b1, b2, w1, w2

MCItemsOf == [o \in Orders |-> IF o = o1 THEN Units ELSE {u1}]

(* With one garment, what follows a lost update breaks no property.  The   *)
(* buyer meets one order that rents, and requests one after the other.     *)
MCFocus ==
  /\ lost = {}
  /\ \A o \in Buys : status[o] # "none" =>
       /\ \E p \in Orders \ Buys : status[p] = "none"
       /\ \A v, w \in Workers : Free(v) \/ Free(w) \/ v = w

(* With one garment, the orders that rent are alike.                       *)
MCSymmetry == Permutations(Workers) \cup Permutations(Orders \ Buys)
=============================================================================
