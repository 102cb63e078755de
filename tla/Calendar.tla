------------------------------ MODULE Calendar ------------------------------
(***************************************************************************)
(* The availability rules of modules/availability/service.ts, as           *)
(* predicates on order lines.  A line asks for qty units, either to buy    *)
(* them or to rent them over the window [start, end); days are numbers.    *)
(* A booking is one physical unit promised to one line of one order.       *)
(***************************************************************************)
EXTENDS Integers

CONSTANTS
  Units,    \* the physical garments of one colour and size
  Orders,   \* order ids
  Lines,    \* the lines a bag may contain
  Buffer    \* BUSINESS_RULES.turnaroundBufferDays

LineType == [mode : {"rent", "buy"}, start : Nat, end : Nat, qty : Nat \ {0}]

ASSUME LinesAssumption == Lines \subseteq LineType
ASSUME WindowAssumption == \A l \in Lines : l.mode = "rent" => l.start < l.end
ASSUME BufferAssumption == Buffer \in Nat

Booking == [unit : Units, line : Lines]

(* When a rented unit is counted on again: bufferedEnd. *)
BufferedEnd(k) == k.end + Buffer

(* Line l cannot have, on day t, a unit already promised to line k: the    *)
(* negation of isFreeForRental / isBuyable for one existing booking.       *)
Excludes(k, l, t) ==
  \/ k.mode = "buy"
  \/ k.mode = "rent" /\ l.mode = "rent" /\ k.start < l.end /\ BufferedEnd(k) > l.start
  \/ k.mode = "rent" /\ l.mode = "buy" /\ BufferedEnd(k) > t

(* What double booking means for two lines on one unit: both keep it, the  *)
(* rental days intersect, or it is sold while a rental is still to come.   *)
Clash(k, l, t) ==
  \/ k.mode = "buy" /\ l.mode = "buy"
  \/ k.mode = "rent" /\ l.mode = "rent" /\ k.start < l.end /\ l.start < k.end
  \/ k.mode = "rent" /\ l.mode = "buy" /\ BufferedEnd(k) > t
  \/ k.mode = "buy" /\ l.mode = "rent" /\ BufferedEnd(l) > t

(* No booking of an order in O stops line l from having unit u. *)
FreeOf(h, O, u, l, t) ==
  \A p \in O : \A b \in h[p] : b.unit = u => ~ Excludes(b.line, l, t)

(* Each unit appears once in a set of bookings: the "taken" set that the   *)
(* lines of one order share.                                               *)
OncePerUnit(S) == \A b, c \in S : b.unit = c.unit => b = c

(* The promise: whatever the bookings h of the live orders, no unit is     *)
(* promised twice.                                                         *)
NoClash(h, t) ==
  /\ \A o \in Orders : OncePerUnit(h[o])
  /\ \A o, p \in Orders : o # p =>
       \A b \in h[o], c \in h[p] : b.unit = c.unit => ~ Clash(b.line, c.line, t)
=============================================================================
