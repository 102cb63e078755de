-------------------------- MODULE AllocationClaims --------------------------
(***************************************************************************)
(* What a comment says of stock, and the code does not do: checked alone   *)
(* and refuted by a run of its own.                                        *)
(***************************************************************************)
EXTENDS Allocation

(* config/business.ts:35 "A returned unit isn't actually back on the rack  *)
(* the instant it's returned": between two rentals of a garment there are  *)
(* always Buffer days.  isFreeForRental looks for them after the rentals   *)
(* already booked, not after the one being booked.                         *)
TurnaroundKept ==
  \A o, p \in Orders : Active(o) /\ Active(p) =>
    \A b \in items[o], c \in items[p] :
      (b.unit = c.unit /\ b.line.mode = "rent" /\ c.line.mode = "rent" /\ b.line.start < c.line.start)
        => BufferedEnd(b.line) <= c.line.start
=============================================================================
