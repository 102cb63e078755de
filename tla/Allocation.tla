----------------------------- MODULE Allocation -----------------------------
(***************************************************************************)
(* Stock allocation: modules/orders/inventory.ts, and the transactions     *)
(* that call it (placement, closing, confirmation, cancellation, late      *)
(* payment, dispatch).  A placement and a late re-reservation are          *)
(* transactions of several steps, because they lock garments one by one    *)
(* with FOR UPDATE SKIP LOCKED; every other transaction takes all the row  *)
(* locks it needs or waits, so it is one step, enabled when those rows are *)
(* free.  What a transaction writes is seen by the others when it commits. *)
(* The garments a release or a dispatch finds, and an operator's check of  *)
(* a move, are read without locks; here they are current when written, and *)
(* GarmentLifecycle models them growing stale.                             *)
(*                                                                         *)
(* "cancelled" stands for cancelled and payment_failed, which every guard  *)
(* here treats alike; "shipped" for shipped to closed; "processing" for    *)
(* returned to ready.                                                      *)
(***************************************************************************)
EXTENDS Calendar, FiniteSets

CONSTANTS
  Bags,        \* the bags that may be checked out: sets of lines
  CustomerOf,  \* CustomerOf[o]: who places order o
  MaxDay,      \* bound on the days the model counts
  NoOrder, NoLine

ASSUME BagsAssumption == Bags \subseteq (SUBSET Lines) \ {{}}
ASSUME NullsAssumption == NoOrder \notin Orders /\ NoLine \notin Lines
ASSUME MaxDayAssumption == MaxDay \in Nat

VARIABLES
  now,     \* today
  status,  \* Order.status
  items,   \* OrderItem rows: the bookings of an order
  stage,   \* GarmentUnit.stage
  owner,   \* GarmentUnit.currentOrderId
  lock,    \* the transaction holding the garment's row lock
  tx       \* the open transaction of an order: placing it, or paying it late

vars == <<now, status, items, stage, owner, lock, tx>>

Statuses == {"none", "pending_payment", "confirmed", "packed", "shipped", "cancelled", "refunded"}
Inactive == {"none", "cancelled", "refunded"}
Stages == {"available", "reserved", "rented", "processing", "sold", "retired"}

(* pc: the transaction; todo: the lines still to allocate; line, cand: the *)
(* line being allocated and its candidates not tried yet; picked: the      *)
(* bookings won so far; closes: the older unpaid orders it supersedes.     *)
TxType == [pc : {"idle", "place", "late"}, todo : SUBSET Lines, line : Lines \cup {NoLine},
           cand : SUBSET Units, picked : SUBSET Booking, closes : SUBSET Orders]

NoTx == [pc |-> "idle", todo |-> {}, line |-> NoLine, cand |-> {}, picked |-> {}, closes |-> {}]

TypeOK ==
  /\ now \in Nat
  /\ status \in [Orders -> Statuses]
  /\ items \in [Orders -> SUBSET Booking]
  /\ stage \in [Units -> Stages]
  /\ owner \in [Units -> Orders \cup {NoOrder}]
  /\ lock \in [Units -> Orders \cup {NoOrder}]
  /\ tx \in [Orders -> TxType]

Init ==
  /\ now = 0
  /\ status = [o \in Orders |-> "none"]
  /\ items = [o \in Orders |-> {}]
  /\ stage = [u \in Units |-> "available"]
  /\ owner = [u \in Units |-> NoOrder]
  /\ lock = [u \in Units |-> NoOrder]
  /\ tx = [o \in Orders |-> NoTx]

-----------------------------------------------------------------------------
(* Reads inside the transaction of order o: it sees its own writes, that   *)
(* is, the orders it supersedes are closed and their garments released.    *)

Active(o) == status[o] \notin Inactive

(* Mutant of HeldBy: forgets whose hold it is.                             *)
HeldByAnyone(O) == {u \in Units : O # {} /\ stage[u] = "reserved"}

HeldBy(O) == {u \in Units : owner[u] \in O /\ stage[u] = "reserved"}

StageSeen(o, u) == IF u \in HeldBy(tx[o].closes) THEN "available" ELSE stage[u]

ActiveSeen(o) == {p \in Orders \ ({o} \cup tx[o].closes) : Active(p)}

AvailableFor(o, u, l) ==
  /\ StageSeen(o, u) \notin {"retired", "sold"}
  /\ l.mode = "buy" => StageSeen(o, u) = "available"
  /\ FreeOf(items, ActiveSeen(o), u, l, now)

(* Row locks: an order's row is locked by the placement that closes it and *)
(* by the late payment that re-reserves it.                                *)
OrderRowFree(o) == tx[o].pc # "late" /\ \A p \in Orders : o \notin tx[p].closes

UnitsFree(S) == \A u \in S : lock[u] = NoOrder

UnitsOf(B) == {b.unit : b \in B}

PickedFor(o, l) == {b \in tx[o].picked : b.line = l}

Unlocked(o) == [u \in Units |-> IF lock[u] = o THEN NoOrder ELSE lock[u]]

-----------------------------------------------------------------------------
(* Placing an order.                                                       *)

(* The transaction opens by closing the customer's older unpaid orders,    *)
(* which locks their rows and the garments they release.                   *)
BeginPlace(o, bag) ==
  LET older == {p \in Orders : CustomerOf[p] = CustomerOf[o] /\ status[p] = "pending_payment"}
  IN /\ status[o] = "none" /\ tx[o].pc = "idle"
     /\ \A p \in older : OrderRowFree(p)
     /\ UnitsFree(HeldBy(older))
     /\ tx' = [tx EXCEPT ![o] = [NoTx EXCEPT !.pc = "place", !.todo = bag, !.closes = older]]
     /\ lock' = [u \in Units |-> IF u \in HeldBy(older) THEN o ELSE lock[u]]
     /\ UNCHANGED <<now, status, items, stage, owner>>

(* allocateUnits: the candidates of the next line, read without locks.     *)
ReadCandidates(o, l) ==
  /\ tx[o].pc = "place" /\ tx[o].line = NoLine /\ l \in tx[o].todo
  /\ tx' = [tx EXCEPT ![o] = [tx[o] EXCEPT !.line = l, !.cand = {u \in Units : AvailableFor(o, u, l)}]]
  /\ UNCHANGED <<now, status, items, stage, owner, lock>>

Wanting(o) ==
  /\ tx[o].pc = "place" /\ tx[o].line # NoLine
  /\ Cardinality(PickedFor(o, tx[o].line)) < tx[o].line.qty

(* A candidate an earlier line took, another transaction has locked or an  *)
(* operator has retired is skipped.                                        *)
SkipUnit(o, u) ==
  /\ Wanting(o) /\ u \in tx[o].cand
  /\ \/ u \in UnitsOf(tx[o].picked)
     \/ lock[u] \notin {o, NoOrder}
     \/ StageSeen(o, u) \in {"retired", "sold"}
  /\ tx' = [tx EXCEPT ![o].cand = @ \ {u}]
  /\ UNCHANGED <<now, status, items, stage, owner, lock>>

(* Mutant of LockUnit: trusts the candidate list, read before the lock.    *)
LockUnitUnchecked(o, u) ==
  /\ Wanting(o) /\ u \in tx[o].cand
  /\ u \notin UnitsOf(tx[o].picked)
  /\ lock[u] \in {o, NoOrder}
  /\ StageSeen(o, u) \notin {"retired", "sold"}
  /\ lock' = [lock EXCEPT ![u] = o]
  /\ LET won == {[unit |-> u, line |-> tx[o].line]}
     IN tx' = [tx EXCEPT ![o] = [tx[o] EXCEPT !.cand = tx[o].cand \ {u}, !.picked = tx[o].picked \cup won]]
  /\ UNCHANGED <<now, status, items, stage, owner>>

(* Any other is locked, and kept only if it is still available under the   *)
(* lock; the lock stays until the transaction ends in either case.         *)
LockUnit(o, u) ==
  /\ Wanting(o) /\ u \in tx[o].cand
  /\ u \notin UnitsOf(tx[o].picked)
  /\ lock[u] \in {o, NoOrder}
  /\ StageSeen(o, u) \notin {"retired", "sold"}
  /\ lock' = [lock EXCEPT ![u] = o]
  /\ LET won == IF AvailableFor(o, u, tx[o].line) THEN {[unit |-> u, line |-> tx[o].line]} ELSE {}
     IN tx' = [tx EXCEPT ![o] = [tx[o] EXCEPT !.cand = tx[o].cand \ {u}, !.picked = tx[o].picked \cup won]]
  /\ UNCHANGED <<now, status, items, stage, owner>>

LineDone(o) ==
  /\ tx[o].pc = "place" /\ tx[o].line # NoLine /\ ~ Wanting(o)
  /\ tx' = [tx EXCEPT ![o] = [tx[o] EXCEPT !.todo = tx[o].todo \ {tx[o].line}, !.line = NoLine, !.cand = {}]]
  /\ UNCHANGED <<now, status, items, stage, owner, lock>>

EndTx(o) ==
  /\ tx' = [tx EXCEPT ![o] = NoTx]
  /\ lock' = Unlocked(o)

OutOfStock(o) ==
  /\ Wanting(o) /\ tx[o].cand = {}
  /\ EndTx(o)
  /\ UNCHANGED <<now, status, items, stage, owner>>

(* Commit: the older orders are cancelled, the order and its items exist,  *)
(* and reserveUnits takes the picked garments that are on the rack; one    *)
(* that is busy elsewhere keeps its stage and its owner.                   *)
CommitPlace(o) ==
  LET closes == tx[o].closes
      taken == {u \in UnitsOf(tx[o].picked) : StageSeen(o, u) = "available"}
  IN /\ tx[o].pc = "place" /\ tx[o].todo = {} /\ tx[o].line = NoLine
     /\ status' = [p \in Orders |-> IF p = o THEN "pending_payment"
                                    ELSE IF p \in closes THEN "cancelled" ELSE status[p]]
     /\ items' = [items EXCEPT ![o] = tx[o].picked]
     /\ stage' = [u \in Units |-> IF u \in taken THEN "reserved" ELSE StageSeen(o, u)]
     /\ owner' = [u \in Units |-> IF u \in taken THEN o
                                  ELSE IF u \in HeldBy(closes) THEN NoOrder ELSE owner[u]]
     /\ EndTx(o)
     /\ UNCHANGED now

(* The transaction times out or its process dies: nothing is persisted.    *)
Rollback(o) ==
  /\ tx[o].pc # "idle"
  /\ EndTx(o)
  /\ UNCHANGED <<now, status, items, stage, owner>>

-----------------------------------------------------------------------------
(* Paying and closing.                                                     *)

Bought(o) == {b.unit : b \in {c \in items[o] : c.line.mode = "buy"}}
Rented(o) == {b.unit : b \in {c \in items[o] : c.line.mode = "rent"}}

(* confirmPaidOrder in time: the garments bought leave circulation, those  *)
(* the order still holds at least (markBuyUnitsSold skips the others).     *)
Confirm(o) ==
  LET sold == Bought(o) \cap HeldBy({o})
  IN /\ status[o] = "pending_payment" /\ OrderRowFree(o) /\ UnitsFree(sold)
     /\ status' = [status EXCEPT ![o] = "confirmed"]
     /\ stage' = [u \in Units |-> IF u \in sold THEN "sold" ELSE stage[u]]
     /\ owner' = [u \in Units |-> IF u \in sold THEN NoOrder ELSE owner[u]]
     /\ UNCHANGED <<now, items, lock, tx>>

(* Mutant of CloseUnpaid: closes the order and forgets its stock.          *)
CloseUnpaidKeepingStock(o) ==
  /\ status[o] = "pending_payment" /\ OrderRowFree(o) /\ UnitsFree(HeldBy({o}))
  /\ status' = [status EXCEPT ![o] = "cancelled"]
  /\ UNCHANGED <<now, items, stage, owner, lock, tx>>

(* closeUnpaidOrder: customer cancel, expired hold, payment cancelled at   *)
(* the gateway.                                                            *)
CloseUnpaid(o) ==
  /\ status[o] = "pending_payment" /\ OrderRowFree(o) /\ UnitsFree(HeldBy({o}))
  /\ status' = [status EXCEPT ![o] = "cancelled"]
  /\ stage' = [u \in Units |-> IF u \in HeldBy({o}) THEN "available" ELSE stage[u]]
  /\ owner' = [u \in Units |-> IF u \in HeldBy({o}) THEN NoOrder ELSE owner[u]]
  /\ UNCHANGED <<now, items, lock, tx>>

(* Mutant of CancelConfirmed: what was bought stays sold.                  *)
CancelConfirmedKeepingSold(o) ==
  LET back == HeldBy({o})
  IN /\ status[o] = "confirmed" /\ OrderRowFree(o) /\ UnitsFree(back)
     /\ status' = [status EXCEPT ![o] = "cancelled"]
     /\ stage' = [u \in Units |-> IF u \in back THEN "available" ELSE stage[u]]
     /\ owner' = [u \in Units |-> IF u \in back THEN NoOrder ELSE owner[u]]
     /\ UNCHANGED <<now, items, lock, tx>>

(* cancelOrder of a confirmed order: its holds are released and what it    *)
(* bought goes back to stock.                                              *)
CancelConfirmed(o) ==
  LET back == HeldBy({o}) \cup {u \in Bought(o) : stage[u] = "sold"}
  IN /\ status[o] = "confirmed" /\ OrderRowFree(o) /\ UnitsFree(back)
     /\ status' = [status EXCEPT ![o] = "cancelled"]
     /\ stage' = [u \in Units |-> IF u \in back THEN "available" ELSE stage[u]]
     /\ owner' = [u \in Units |-> IF u \in back THEN NoOrder ELSE owner[u]]
     /\ UNCHANGED <<now, items, lock, tx>>

(* Mutant of MarkRefunded: a status the enum does not have.                *)
MarkRefundedUnknown(o) ==
  /\ status[o] = "cancelled" /\ OrderRowFree(o)
  /\ status' = [status EXCEPT ![o] = "refund_issued"]
  /\ UNCHANGED <<now, items, stage, owner, lock, tx>>

(* refundPaymentFully after a cancellation or an unusable late payment.    *)
MarkRefunded(o) ==
  /\ status[o] = "cancelled" /\ OrderRowFree(o)
  /\ status' = [status EXCEPT ![o] = "refunded"]
  /\ UNCHANGED <<now, items, stage, owner, lock, tx>>

-----------------------------------------------------------------------------
(* A payment for an order that is already closed: tryReReserveOrder-       *)
(* Inventory locks and re-checks exactly the garments the order had.       *)

BeginLate(o) ==
  /\ status[o] = "cancelled" /\ tx[o].pc = "idle" /\ OrderRowFree(o)
  /\ tx' = [tx EXCEPT ![o] = [NoTx EXCEPT !.pc = "late"]]
  /\ UNCHANGED <<now, status, items, stage, owner, lock>>

(* Mutant of Regainable: a garment nobody has locked is taken for free.    *)
RegainableIfUnlocked(o, b) == lock[b.unit] \in {o, NoOrder}

Regainable(o, b) ==
  /\ lock[b.unit] \in {o, NoOrder}
  /\ AvailableFor(o, b.unit, b.line)

Relock(o, b) ==
  /\ tx[o].pc = "late" /\ b \in items[o] \ tx[o].picked
  /\ Regainable(o, b)
  /\ lock' = [lock EXCEPT ![b.unit] = o]
  /\ tx' = [tx EXCEPT ![o] = [tx[o] EXCEPT !.picked = tx[o].picked \cup {b}]]
  /\ UNCHANGED <<now, status, items, stage, owner>>

(* All or nothing: one garment lost and the payment is refunded instead.   *)
GiveUpLate(o, b) ==
  /\ tx[o].pc = "late" /\ b \in items[o] \ tx[o].picked
  /\ ~ Regainable(o, b)
  /\ EndTx(o)
  /\ UNCHANGED <<now, status, items, stage, owner>>

(* reserveUnits, then confirmPaidOrder in the same transaction.            *)
CommitLate(o) ==
  LET back == {u \in UnitsOf(items[o]) : stage[u] = "available"}
      sold == back \cap Bought(o)
  IN /\ tx[o].pc = "late" /\ tx[o].picked = items[o]
     /\ status' = [status EXCEPT ![o] = "confirmed"]
     /\ stage' = [u \in Units |-> IF u \in sold THEN "sold" ELSE IF u \in back THEN "reserved" ELSE stage[u]]
     /\ owner' = [u \in Units |-> IF u \in sold THEN NoOrder ELSE IF u \in back THEN o ELSE owner[u]]
     /\ EndTx(o)
     /\ UNCHANGED <<now, items>>

-----------------------------------------------------------------------------
(* Fulfilment and the operators.                                           *)

Pack(o) ==
  /\ status[o] = "confirmed" /\ OrderRowFree(o)
  /\ status' = [status EXCEPT ![o] = "packed"]
  /\ UNCHANGED <<now, items, stage, owner, lock, tx>>

(* setOrderStatus("shipped"): each rented garment that is on the rack or   *)
(* reserved, whoever it is reserved for, leaves with this order.           *)
Ship(o) ==
  LET leaving == {u \in Rented(o) : stage[u] \in {"reserved", "available"}}
  IN /\ status[o] = "packed" /\ OrderRowFree(o) /\ UnitsFree(leaving)
     /\ status' = [status EXCEPT ![o] = "shipped"]
     /\ stage' = [u \in Units |-> IF u \in leaving THEN "rented" ELSE stage[u]]
     /\ owner' = [u \in Units |-> IF u \in leaving THEN o ELSE owner[u]]
     /\ UNCHANGED <<now, items, lock, tx>>

(* transitionGarmentUnit, with returned to ready as one stage.             *)
Moves ==
  {<<"available", "reserved">>, <<"available", "retired">>, <<"reserved", "rented">>,
   <<"rented", "processing">>, <<"processing", "available">>, <<"processing", "retired">>}

Operate(u, to) ==
  /\ lock[u] = NoOrder /\ <<stage[u], to>> \in Moves
  /\ stage' = [stage EXCEPT ![u] = to]
  /\ owner' = IF to = "available" THEN [owner EXCEPT ![u] = NoOrder] ELSE owner
  /\ UNCHANGED <<now, status, items, lock, tx>>

NextDay ==
  /\ now < MaxDay
  /\ now' = now + 1
  /\ UNCHANGED <<status, items, stage, owner, lock, tx>>

Place(o) ==
  \/ \E bag \in Bags : BeginPlace(o, bag)
  \/ \E l \in Lines : ReadCandidates(o, l)
  \/ \E u \in Units : SkipUnit(o, u) \/ LockUnit(o, u)
  \/ LineDone(o) \/ OutOfStock(o) \/ CommitPlace(o)

PayLate(o) ==
  \/ BeginLate(o)
  \/ \E b \in items[o] : Relock(o, b) \/ GiveUpLate(o, b)
  \/ CommitLate(o)

Settle(o) == Confirm(o) \/ CloseUnpaid(o) \/ CancelConfirmed(o) \/ MarkRefunded(o)

Next ==
  \/ \E o \in Orders : Place(o) \/ Rollback(o) \/ Settle(o) \/ PayLate(o) \/ Pack(o) \/ Ship(o)
  \/ \E u \in Units : \E to \in Stages : Operate(u, to)
  \/ NextDay

Spec == Init /\ [][Next]_vars

-----------------------------------------------------------------------------
(* Properties.                                                             *)

Held == [o \in Orders |-> IF Active(o) THEN items[o] ELSE {}]

(* Allocation implements the abstract booking calendar: locks, stale       *)
(* candidate lists, superseded orders and late payments never show.        *)
Calendared == INSTANCE Bookings WITH held <- Held
AtomicBooking == Calendared!BSpec

(* No garment is promised to two live orders over intersecting days, sold  *)
(* twice, or sold while a live rental of it is still to come.              *)
(* orders/inventory.ts: "Two concurrent orders for the last unit: one gets *)
(* it"; docs section L: "It can never double-book".                        *)
NoDoubleBooking == NoClash(Held, now)

(* A garment on hold for an order is on hold for a live order that booked  *)
(* it: no closed, superseded or refunded order keeps stock off the rack.   *)
HoldsAreLive ==
  \A u \in Units : stage[u] = "reserved" /\ owner[u] # NoOrder =>
    status[owner[u]] \in {"pending_payment", "confirmed", "packed"} /\ u \in UnitsOf(items[owner[u]])

(* A sold garment belongs to one paid order that bought it, so that a      *)
(* cancellation puts back its own garments and nobody else's.              *)
SoldToOneBuyer ==
  \A u \in Units : stage[u] = "sold" =>
    \E o \in Orders : /\ status[o] \in {"confirmed", "packed", "shipped"} /\ u \in Bought(o)
                      /\ \A p \in Orders \ {o} : Active(p) => u \notin Bought(p)

(* A garment on hold stays with its order until that order pays for what   *)
(* it buys, or is closed.  One way round is left, and only that one: the   *)
(* dispatch of a packed order that was allotted the garment too (console/  *)
(* orders/service.ts:148), which takes it whoever it is on hold for.       *)
HoldEndsWithItsOrder ==
  [][\A u \in Units : stage[u] = "reserved" /\ owner[u] # NoOrder =>
       \/ owner'[u] = owner[u] /\ stage'[u] \in {"reserved", "rented"}
       \/ stage'[u] = "sold" /\ status'[owner[u]] = "confirmed" /\ u \in Bought(owner[u])
       \/ stage'[u] \in {"available", "reserved"} /\ status'[owner[u]] = "cancelled"
       \/ \E o \in Orders \ {owner[u]} :
            /\ status[o] = "packed" /\ status'[o] = "shipped" /\ u \in Rented(o)
            /\ stage'[u] = "rented" /\ owner'[u] = o]_vars
=============================================================================
