---------------------------- MODULE MCAllocation ----------------------------
(***************************************************************************)
(* Small instances of Allocation.  Rent(0, 2) and Rent(2, 4) touch, and    *)
(* overlap once the turnaround day is added; Rent(1, 3) overlaps both; the *)
(* bag of two garments competes with two bags of one.  Two attempts of one *)
(* customer: where they overlap they do not see each other, and compete    *)
(* like strangers; otherwise the second supersedes the first.              *)
(***************************************************************************)
EXTENDS AllocationClaims, TLC

CONSTANTS o1, o2, u1, u2

Rent(s, e, n) == [mode |-> "rent", start |-> s, end |-> e, qty |-> n]
Buy(n) == [mode |-> "buy", start |-> 0, end |-> 0, qty |-> n]

MCStockLines == {Rent(0, 2, 1), Rent(2, 4, 1), Rent(1, 3, 2), Buy(1)}
MCStockBags == {{l} : l \in MCStockLines} \cup {{Rent(0, 2, 1), Buy(1)}}

MCTouchingLines == {Rent(0, 2, 1), Rent(2, 4, 1), Buy(1)}
MCTouchingBags == {{l} : l \in MCTouchingLines}

MCCustomerOf == [o \in Orders |-> "ana"]

MCUnitSymmetry == Permutations(Units)
=============================================================================
