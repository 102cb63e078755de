-------------------------- MODULE AllocationProofs --------------------------
(***************************************************************************)
(* Allocation under row locks implements the atomic booking calendar, for  *)
(* any garments, orders, bags, customers and turnaround buffer; hence no   *)
(* garment is ever promised twice.                                         *)
(*                                                                         *)
(* The invariant says what makes it work: whatever an open transaction has *)
(* picked is locked by it and is still free at this very moment, because   *)
(* a rival booking of the same garment needs the same row lock; and the    *)
(* orders it is about to supersede cannot be paid under it, because it     *)
(* holds their row locks.                                                  *)
(*                                                                         *)
(* From it follow the holds and the sales: a garment off the rack is held  *)
(* by a live order that booked it, leaves that hold only with the order,   *)
(* and is sold to one paid order.                                          *)
(***************************************************************************)
EXTENDS Allocation, TLAPS

Cal == INSTANCE BookingsProofs WITH held <- Held

(* An open transaction of o against the rest of the system.                *)
TxInv(o) ==
  /\ tx[o].pc = "idle" => tx[o] = NoTx
  /\ tx[o].pc = "place" => status[o] = "none"
  /\ tx[o].pc = "late" => status[o] = "cancelled" /\ tx[o].picked \subseteq items[o] /\ tx[o].closes = {}
  /\ tx[o].line # NoLine => tx[o].line \in Lines
  /\ \A p \in tx[o].closes : p # o /\ status[p] = "pending_payment"
  /\ OncePerUnit(tx[o].picked)
  /\ OncePerUnit(items[o])
  /\ \A b \in tx[o].picked :
       lock[b.unit] = o /\ FreeOf(items, ActiveSeen(o), b.unit, b.line, now)

ClosesDisjoint == \A o, p \in Orders : o # p => tx[o].closes \cap tx[p].closes = {}

Inv ==
  /\ TypeOK
  /\ \A o \in Orders : TxInv(o)
  /\ ClosesDisjoint

-----------------------------------------------------------------------------
(* Facts about the reads.                                                  *)

LEMMA FreeTomorrow ==
  ASSUME NEW k \in LineType, NEW l \in LineType, NEW t \in Nat, ~ Excludes(k, l, t)
  PROVE  ~ Excludes(k, l, t + 1)
BY BufferAssumption DEF Excludes, LineType, BufferedEnd

LEMMA LineOfBooking ==
  ASSUME NEW b \in Booking
  PROVE  b.line \in LineType /\ b.unit \in Units
BY LinesAssumption DEF Booking

LEMMA InitInv == Init => Inv
BY DEF Init, Inv, TypeOK, TxInv, ClosesDisjoint, NoTx, TxType, Statuses, Stages, OncePerUnit

-----------------------------------------------------------------------------
(* Type correctness, one action at a time.                                 *)

LEMMA TxEdits ==
  ASSUME NEW t \in TxType, NEW l \in Lines \cup {NoLine}, NEW c \in SUBSET Units,
         NEW D \in SUBSET Lines, NEW B \in SUBSET Booking
  PROVE  /\ [t EXCEPT !.line = l, !.cand = c] \in TxType
         /\ [t EXCEPT !.cand = c, !.picked = B] \in TxType
         /\ [t EXCEPT !.todo = D, !.line = l, !.cand = c] \in TxType
BY DEF TxType

LEMMA TypeStep == TypeOK /\ [Next]_vars => TypeOK'
<1> SUFFICES ASSUME TypeOK, [Next]_vars PROVE TypeOK'
  OBVIOUS
<1> USE DEF TypeOK, TxType, Statuses, Stages
<1>1. ASSUME NEW o \in Orders, NEW bag \in Bags, BeginPlace(o, bag) PROVE TypeOK'
  BY <1>1, BagsAssumption DEF BeginPlace, NoTx
<1>2. ASSUME NEW o \in Orders, NEW l \in Lines, ReadCandidates(o, l) PROVE TypeOK'
  <2> DEFINE c == {u \in Units : AvailableFor(o, u, l)}
             r == [tx[o] EXCEPT !.line = l, !.cand = c]
  <2>1. c \in SUBSET Units
    OBVIOUS
  <2>2. tx' = [tx EXCEPT ![o] = r]
    BY <1>2 DEF ReadCandidates
  <2> HIDE DEF c
  <2> HIDE DEF TxType
  <2>3. r \in TxType
    BY <2>1, TxEdits
  <2> HIDE DEF r
  <2>4. tx' \in [Orders -> TxType]
    BY <2>2, <2>3
  <2>5. QED
    BY <1>2, <2>4 DEF ReadCandidates
<1>3. ASSUME NEW o \in Orders, NEW u \in Units, SkipUnit(o, u) PROVE TypeOK'
  BY <1>3, ZenonT(30) DEF SkipUnit
<1>4. ASSUME NEW o \in Orders, NEW u \in Units, LockUnit(o, u) PROVE TypeOK'
  <2> DEFINE won == IF AvailableFor(o, u, tx[o].line) THEN {[unit |-> u, line |-> tx[o].line]} ELSE {}
             r == [tx[o] EXCEPT !.cand = tx[o].cand \ {u}, !.picked = tx[o].picked \cup won]
  <2>1. won \in SUBSET Booking
    BY <1>4 DEF LockUnit, Wanting, Booking
  <2>2. tx' = [tx EXCEPT ![o] = r]
    BY <1>4 DEF LockUnit
  <2>3. tx[o].cand \ {u} \in SUBSET Units /\ tx[o].picked \cup won \in SUBSET Booking
    BY <2>1
  <2> HIDE DEF won, TxType
  <2>5. r \in TxType
    BY <2>3, TxEdits
  <2> HIDE DEF r
  <2>6. tx' \in [Orders -> TxType]
    BY <2>2, <2>5
  <2>7. QED
    BY <1>4, <2>6 DEF LockUnit
<1>5. ASSUME NEW o \in Orders, LineDone(o) PROVE TypeOK'
  <2> DEFINE r == [tx[o] EXCEPT !.todo = tx[o].todo \ {tx[o].line}, !.line = NoLine, !.cand = {}]
  <2>1. tx' = [tx EXCEPT ![o] = r]
    BY <1>5 DEF LineDone
  <2>2. tx[o].todo \ {tx[o].line} \in SUBSET Lines
    OBVIOUS
  <2> HIDE DEF TxType
  <2>5. r \in TxType
    BY <2>2, TxEdits
  <2> HIDE DEF r
  <2>6. tx' \in [Orders -> TxType]
    BY <2>1, <2>5
  <2>7. QED
    BY <1>5, <2>6 DEF LineDone
<1>6. ASSUME NEW o \in Orders, OutOfStock(o) PROVE TypeOK'
  BY <1>6 DEF OutOfStock, EndTx, NoTx, Unlocked
<1>7. ASSUME NEW o \in Orders, CommitPlace(o) PROVE TypeOK'
  BY <1>7 DEF CommitPlace, EndTx, NoTx, Unlocked, StageSeen
<1>8. ASSUME NEW o \in Orders, Rollback(o) PROVE TypeOK'
  BY <1>8 DEF Rollback, EndTx, NoTx, Unlocked
<1>9. ASSUME NEW o \in Orders, Confirm(o) PROVE TypeOK'
  BY <1>9 DEF Confirm
<1>10. ASSUME NEW o \in Orders, CloseUnpaid(o) PROVE TypeOK'
  BY <1>10 DEF CloseUnpaid
<1>11. ASSUME NEW o \in Orders, CancelConfirmed(o) PROVE TypeOK'
  BY <1>11 DEF CancelConfirmed
<1>12. ASSUME NEW o \in Orders, MarkRefunded(o) PROVE TypeOK'
  BY <1>12 DEF MarkRefunded
<1>13. ASSUME NEW o \in Orders, BeginLate(o) PROVE TypeOK'
  BY <1>13 DEF BeginLate, NoTx
<1>14. ASSUME NEW o \in Orders, NEW b \in items[o], Relock(o, b) PROVE TypeOK'
  <2>1. [tx[o] EXCEPT !.picked = tx[o].picked \cup {b}] \in TxType
    OBVIOUS
  <2>2. b.unit \in Units
    BY DEF Booking
  <2> HIDE DEF TxType
  <2>3. QED
    BY <1>14, <2>1, <2>2 DEF Relock
<1>15. ASSUME NEW o \in Orders, NEW b \in items[o], GiveUpLate(o, b) PROVE TypeOK'
  BY <1>15 DEF GiveUpLate, EndTx, NoTx, Unlocked
<1>16. ASSUME NEW o \in Orders, CommitLate(o) PROVE TypeOK'
  BY <1>16 DEF CommitLate, EndTx, NoTx, Unlocked
<1>17. ASSUME NEW o \in Orders, Pack(o) PROVE TypeOK'
  BY <1>17 DEF Pack
<1>18. ASSUME NEW o \in Orders, Ship(o) PROVE TypeOK'
  BY <1>18 DEF Ship
<1>19. ASSUME NEW u \in Units, NEW to \in Stages, Operate(u, to) PROVE TypeOK'
  BY <1>19 DEF Operate
<1>20. CASE NextDay
  BY <1>20 DEF NextDay
<1>21. CASE UNCHANGED vars
  BY <1>21 DEF vars
<1>22. QED
  BY <1>1, <1>2, <1>3, <1>4, <1>5, <1>6, <1>7, <1>8, <1>9, <1>10, <1>11, <1>12, <1>13, <1>14,
     <1>15, <1>16, <1>17, <1>18, <1>19, <1>20, <1>21 DEF Next, Place, PayLate, Settle

-----------------------------------------------------------------------------
(* What a step does to the open transaction of an order.                   *)

(* The order that steps is another one: nothing it commits touches a       *)
(* garment that o has locked, and the orders o supersedes stay as they are.*)
LEMMA Bystander ==
  ASSUME TypeOK, TypeOK', NEW o \in Orders, TxInv(o),
         tx'[o] = tx[o], items'[o] = items[o],
         tx[o].pc # "idle" => status'[o] = status[o],
         \A p \in tx[o].closes : status'[p] = status[p],
         \A u \in Units : lock[u] = o => lock'[u] = o,
         now' \in {now, now + 1},
         \A p \in Orders : Active(p)' =>
           \A c \in items'[p] : (Active(p) /\ c \in items[p]) \/ lock[c.unit] # o
  PROVE  TxInv(o)'
<1> USE DEF TypeOK, TxType
<1>1. \A b \in tx[o].picked : FreeOf(items, ActiveSeen(o), b.unit, b.line, now)'
  <2> SUFFICES ASSUME NEW b \in tx[o].picked, NEW p \in ActiveSeen(o)', NEW c \in items'[p], c.unit = b.unit
               PROVE  ~ Excludes(c.line, b.line, now')
    BY DEF FreeOf
  <2>1. b \in Booking /\ c \in Booking
    BY DEF ActiveSeen
  <2>2. lock[b.unit] = o
    BY DEF TxInv
  <2>3. Active(p) /\ c \in items[p] /\ p \in ActiveSeen(o)
    BY <2>2 DEF ActiveSeen
  <2>4. ~ Excludes(c.line, b.line, now)
    BY <2>3 DEF TxInv, FreeOf
  <2>5. QED
    BY <2>1, <2>4, LineOfBooking, FreeTomorrow
<1>2. \A b \in tx[o].picked : b.unit \in Units
  BY DEF Booking
<1>3. QED
  BY <1>1, <1>2 DEF TxInv, OncePerUnit

(* The order that steps is o, and its transaction goes on.                 *)
LEMMA Editing ==
  ASSUME TypeOK, NEW o \in Orders, TxInv(o),
         UNCHANGED <<now, status, items>>,
         tx[o].pc # "idle", tx'[o].pc = tx[o].pc, tx'[o].closes = tx[o].closes,
         tx'[o].line \in Lines \cup {NoLine},
         OncePerUnit(tx'[o].picked),
         tx[o].pc = "late" => tx'[o].picked \subseteq items[o],
         \A b \in tx'[o].picked : /\ lock'[b.unit] = o
                                  /\ b \in tx[o].picked \/ FreeOf(items, ActiveSeen(o), b.unit, b.line, now)
  PROVE  TxInv(o)'
<1>1. ActiveSeen(o)' = ActiveSeen(o)
  BY DEF ActiveSeen, Active
<1>2. \A b \in tx'[o].picked : FreeOf(items, ActiveSeen(o), b.unit, b.line, now)'
  BY <1>1 DEF TxInv, FreeOf
<1>3. QED
  BY <1>2 DEF TxInv, OncePerUnit

(* The order that steps is o, and its transaction is over.                 *)
LEMMA Ending ==
  ASSUME NEW o \in Orders, tx'[o] = NoTx, OncePerUnit(items'[o])
  PROVE  TxInv(o)'
BY DEF TxInv, NoTx, OncePerUnit

(* Ending a transaction, committed or not, keeps every other one's locks.  *)
LEMMA OthersKeepLocks ==
  ASSUME TypeOK, NEW o \in Orders, EndTx(o)
  PROVE  /\ tx'[o] = NoTx
         /\ \A p \in Orders \ {o} : tx'[p] = tx[p] /\ \A u \in Units : lock[u] = p => lock'[u] = p
BY DEF TypeOK, EndTx, Unlocked

LEMMA ClosesStep ==
  ASSUME TypeOK, ClosesDisjoint, NEW o \in Orders,
         \A p \in Orders \ {o} : tx'[p] = tx[p],
         tx'[o].closes = {} \/ \A p \in Orders \ {o} : tx'[o].closes \cap tx[p].closes = {}
  PROVE  ClosesDisjoint'
BY DEF ClosesDisjoint

-----------------------------------------------------------------------------
(* The invariant, one action at a time.                                    *)

LEMMA PlaceStep ==
  ASSUME Inv, TypeOK', NEW o \in Orders, Place(o)
  PROVE  Inv'
<1> USE DEF TypeOK, TxType
<1>0. TypeOK /\ \A p \in Orders : TxInv(p)
  BY DEF Inv
<1> USE <1>0
<1> DEFINE Rest == \A p \in Orders \ {o} : TxInv(p)'
<1>1. ASSUME NEW bag \in Bags, BeginPlace(o, bag) PROVE Inv'
  <2>1. tx'[o] = [NoTx EXCEPT !.pc = "place", !.todo = bag, !.closes = tx'[o].closes]
    BY <1>1 DEF BeginPlace, NoTx
  <2>2. \A p \in Orders \ {o} : tx'[p] = tx[p]
    BY <1>1 DEF BeginPlace
  <2>3. tx'[o].closes = {p \in Orders : CustomerOf[p] = CustomerOf[o] /\ status[p] = "pending_payment"}
    BY <1>1 DEF BeginPlace, NoTx
  <2>4. \A p \in tx'[o].closes : p # o /\ status[p] = "pending_payment"
    BY <1>1, <2>3 DEF BeginPlace
  <2>5. TxInv(o)'
    BY <1>1, <2>1, <2>4, ZenonT(30) DEF BeginPlace, TxInv, NoTx, Inv, OncePerUnit
  <2>6. Rest
    <3> SUFFICES ASSUME NEW p \in Orders \ {o} PROVE TxInv(p)'
      OBVIOUS
    <3>1. TxInv(p) /\ tx'[p] = tx[p]
      BY <2>2 DEF Inv
    <3>2. \A u \in Units : lock[u] = p => lock'[u] = p
      <4> DEFINE H == HeldBy({q \in Orders : CustomerOf[q] = CustomerOf[o] /\ status[q] = "pending_payment"})
      <4>1. lock' = [u \in Units |-> IF u \in H THEN o ELSE lock[u]] /\ \A u \in H : lock[u] = NoOrder
        BY <1>1 DEF BeginPlace, UnitsFree
      <4> HIDE DEF H
      <4>2. QED
        BY <4>1, NullsAssumption
    <3>3. QED
      BY <1>1, <3>1, <3>2, Bystander DEF BeginPlace, Inv, Active
  <2>7. \A p \in Orders \ {o} : tx'[o].closes \cap tx[p].closes = {}
    BY <1>1, <2>3 DEF BeginPlace, OrderRowFree
  <2>8. ClosesDisjoint'
    BY <2>2, <2>7, ClosesStep DEF Inv
  <2>9. QED
    BY <2>5, <2>6, <2>8 DEF Inv
<1>2. ASSUME NEW l \in Lines, ReadCandidates(o, l) PROVE Inv'
  <2> DEFINE c == {u \in Units : AvailableFor(o, u, l)}
  <2>1. /\ tx[o].pc = "place" /\ tx' = [tx EXCEPT ![o] = [tx[o] EXCEPT !.line = l, !.cand = c]]
        /\ UNCHANGED <<now, status, items, lock>>
    BY <1>2 DEF ReadCandidates
  <2> HIDE DEF c
  <2>2. /\ tx'[o].pc = "place" /\ tx[o].pc = "place" /\ tx'[o].closes = tx[o].closes
        /\ tx'[o].picked = tx[o].picked /\ tx'[o].line = l
        /\ \A p \in Orders \ {o} : tx'[p] = tx[p]
    BY <2>1
  <2>3. OncePerUnit(tx'[o].picked) /\ \A b \in tx'[o].picked : lock'[b.unit] = o /\ b \in tx[o].picked
    BY <2>2, <2>1 DEF TxInv
  <2>4. TxInv(o)'
    BY <2>2, <2>1, <2>3, Editing
  <2>5. Rest
    BY <1>2, <2>2, Bystander DEF ReadCandidates, Inv, Active
  <2>6. QED
    BY <2>2, <2>4, <2>5 DEF Inv, ClosesDisjoint
<1>3. ASSUME NEW u \in Units, SkipUnit(o, u) PROVE Inv'
  <2>1. /\ tx'[o].pc = "place" /\ tx[o].pc = "place" /\ tx'[o].closes = tx[o].closes
        /\ tx'[o].picked = tx[o].picked /\ tx'[o].line = tx[o].line
        /\ \A p \in Orders \ {o} : tx'[p] = tx[p]
    BY <1>3 DEF SkipUnit, Wanting
  <2>2. UNCHANGED <<now, status, items, lock>>
    BY <1>3 DEF SkipUnit
  <2>3. OncePerUnit(tx'[o].picked) /\ \A b \in tx'[o].picked : lock'[b.unit] = o /\ b \in tx[o].picked
    BY <2>1, <2>2 DEF TxInv
  <2>4. TxInv(o)'
    BY <2>1, <2>2, <2>3, Editing
  <2>5. Rest
    BY <1>3, <2>1, Bystander DEF SkipUnit, Inv, Active
  <2>6. QED
    BY <2>1, <2>4, <2>5 DEF Inv, ClosesDisjoint
<1>4. ASSUME NEW u \in Units, LockUnit(o, u) PROVE Inv'
  <2> DEFINE won == IF AvailableFor(o, u, tx[o].line) THEN {[unit |-> u, line |-> tx[o].line]} ELSE {}
  <2>1. /\ tx'[o].pc = "place" /\ tx[o].pc = "place" /\ tx'[o].closes = tx[o].closes
        /\ tx'[o].picked = tx[o].picked \cup won /\ tx'[o].line = tx[o].line
        /\ \A p \in Orders \ {o} : tx'[p] = tx[p]
    BY <1>4 DEF LockUnit, Wanting
  <2>2. \A b \in won : b.unit = u /\ b.line = tx[o].line /\ FreeOf(items, ActiveSeen(o), b.unit, b.line, now)
    BY DEF AvailableFor
  <2>3. \A b, c \in won : b = c
    OBVIOUS
  <2>4. \A b \in tx[o].picked : b.unit # u /\ b.unit \in Units
    BY <1>4 DEF LockUnit, UnitsOf, Booking
  <2> HIDE DEF won
  <2>5. OncePerUnit(tx'[o].picked)
    BY <2>1, <2>2, <2>3, <2>4 DEF OncePerUnit, Inv, TxInv
  <2>6. \A b \in tx'[o].picked : /\ lock'[b.unit] = o
                                 /\ b \in tx[o].picked \/ FreeOf(items, ActiveSeen(o), b.unit, b.line, now)
    BY <1>4, <2>1, <2>2, <2>4 DEF LockUnit, Inv, TxInv
  <2>7. TxInv(o)'
    <3>1. UNCHANGED <<now, status, items>>
      BY <1>4 DEF LockUnit
    <3>2. QED
      BY <2>1, <2>5, <2>6, <3>1, Editing
  <2>8. \A p \in Orders \ {o} : \A v \in Units : lock[v] = p => lock'[v] = p
    BY <1>4, NullsAssumption DEF LockUnit
  <2>9. Rest
    BY <1>4, <2>1, <2>8, Bystander DEF LockUnit, Inv, Active
  <2>10. QED
    BY <2>1, <2>7, <2>9 DEF Inv, ClosesDisjoint
<1>5. CASE LineDone(o)
  <2>1. /\ tx'[o].pc = "place" /\ tx[o].pc = "place" /\ tx'[o].closes = tx[o].closes
        /\ tx'[o].picked = tx[o].picked /\ tx'[o].line = NoLine
        /\ \A p \in Orders \ {o} : tx'[p] = tx[p]
    BY <1>5 DEF LineDone
  <2>2. TxInv(o)'
    BY <1>5, <2>1, Editing DEF LineDone, Inv, TxInv
  <2>3. Rest
    BY <1>5, <2>1, Bystander DEF LineDone, Inv, Active
  <2>4. QED
    BY <2>1, <2>2, <2>3 DEF Inv, ClosesDisjoint
<1>6. CASE OutOfStock(o)
  <2>1. /\ tx'[o] = NoTx
        /\ \A p \in Orders \ {o} : tx'[p] = tx[p] /\ \A u \in Units : lock[u] = p => lock'[u] = p
    BY <1>6, OthersKeepLocks DEF OutOfStock, Inv
  <2>2. TxInv(o)'
    BY <1>6, <2>1, Ending DEF OutOfStock, Inv, TxInv, OncePerUnit
  <2>3. Rest
    BY <1>6, <2>1, Bystander DEF OutOfStock, Inv, Active
  <2>4. QED
    BY <2>1, <2>2, <2>3, ClosesStep DEF Inv, NoTx
<1>7. CASE CommitPlace(o)
  <2>1. /\ tx'[o] = NoTx
        /\ \A p \in Orders \ {o} : tx'[p] = tx[p] /\ \A u \in Units : lock[u] = p => lock'[u] = p
    BY <1>7, OthersKeepLocks DEF CommitPlace, Inv
  <2>2. items'[o] = tx[o].picked /\ \A p \in Orders \ {o} : items'[p] = items[p]
    BY <1>7 DEF CommitPlace
  <2>3. TxInv(o)'
    BY <2>1, <2>2, Ending DEF Inv, TxInv, OncePerUnit
  <2>4. Rest
    <3> SUFFICES ASSUME NEW p \in Orders \ {o} PROVE TxInv(p)'
      OBVIOUS
    <3>1. TxInv(p) /\ TxInv(o)
      BY DEF Inv
    <3>2. tx[o].closes \cap tx[p].closes = {}
      BY DEF Inv, ClosesDisjoint
    <3>3. status[o] = "none" /\ \A q \in tx[o].closes : status[q] = "pending_payment"
      BY <1>7, <3>1 DEF CommitPlace, TxInv
    <3>4. tx[p].pc # "idle" => status'[p] = status[p]
      BY <1>7, <3>1, <3>3 DEF CommitPlace, TxInv
    <3>5. \A q \in tx[p].closes : status'[q] = status[q]
      BY <1>7, <3>1, <3>2, <3>3 DEF CommitPlace, TxInv
    <3>6. \A q \in Orders : Active(q)' =>
            \A c \in items'[q] : (Active(q) /\ c \in items[q]) \/ lock[c.unit] # p
      BY <1>7, <2>2, <3>1, <3>3 DEF CommitPlace, TxInv, Active, Inactive
    <3>7. QED
      BY <1>7, <2>1, <2>2, <3>1, <3>4, <3>5, <3>6, Bystander DEF CommitPlace, Inv
  <2>5. QED
    BY <2>1, <2>3, <2>4, ClosesStep DEF Inv, NoTx
<1>8. QED
  BY <1>1, <1>2, <1>3, <1>4, <1>5, <1>6, <1>7 DEF Place

LEMMA PayLateStep ==
  ASSUME Inv, TypeOK', NEW o \in Orders, PayLate(o) \/ Rollback(o)
  PROVE  Inv'
<1> USE DEF TypeOK, TxType
<1>0. TypeOK /\ \A p \in Orders : TxInv(p)
  BY DEF Inv
<1> USE <1>0
<1> DEFINE Rest == \A p \in Orders \ {o} : TxInv(p)'
<1>1. CASE BeginLate(o)
  <2>1. tx'[o] = [NoTx EXCEPT !.pc = "late"] /\ \A p \in Orders \ {o} : tx'[p] = tx[p]
    BY <1>1 DEF BeginLate
  <2>2. TxInv(o)'
    BY <1>1, <2>1 DEF BeginLate, TxInv, NoTx, Inv, OncePerUnit
  <2>3. Rest
    BY <1>1, <2>1, Bystander DEF BeginLate, Inv, Active
  <2>4. QED
    BY <2>1, <2>2, <2>3, ClosesStep DEF Inv, NoTx
<1>2. ASSUME NEW b \in items[o], Relock(o, b) PROVE Inv'
  <2>1. /\ tx'[o].pc = "late" /\ tx[o].pc = "late" /\ tx'[o].closes = tx[o].closes
        /\ tx'[o].picked = tx[o].picked \cup {b} /\ tx'[o].line = tx[o].line
        /\ \A p \in Orders \ {o} : tx'[p] = tx[p]
    BY <1>2 DEF Relock
  <2>2. TxInv(o) /\ b \in Booking
    BY DEF Inv
  <2>3. \A c \in tx[o].picked : c.unit \in Units
    BY DEF Booking
  <2>4. \A c \in tx'[o].picked : /\ lock'[c.unit] = o
                                 /\ c \in tx[o].picked \/ FreeOf(items, ActiveSeen(o), c.unit, c.line, now)
    BY <1>2, <2>1, <2>2, <2>3, LineOfBooking DEF Relock, Regainable, AvailableFor, TxInv
  <2>5. tx'[o].picked \subseteq items[o] /\ OncePerUnit(tx'[o].picked)
    BY <2>1, <2>2 DEF TxInv, OncePerUnit
  <2>6. TxInv(o)'
    <3>1. UNCHANGED <<now, status, items>>
      BY <1>2 DEF Relock
    <3>2. QED
      BY <2>1, <2>2, <2>4, <2>5, <3>1, Editing
  <2>7. \A p \in Orders \ {o} : \A v \in Units : lock[v] = p => lock'[v] = p
    BY <1>2, NullsAssumption DEF Relock, Regainable
  <2>8. Rest
    BY <1>2, <2>1, <2>7, Bystander DEF Relock, Inv, Active
  <2>9. QED
    BY <2>1, <2>6, <2>8 DEF Inv, ClosesDisjoint
<1>3. ASSUME EndTx(o), UNCHANGED <<now, status, items>> PROVE Inv'
  <2>1. /\ tx'[o] = NoTx
        /\ \A p \in Orders \ {o} : tx'[p] = tx[p] /\ \A u \in Units : lock[u] = p => lock'[u] = p
    BY <1>3, OthersKeepLocks DEF Inv
  <2>2. TxInv(o)'
    BY <1>3, <2>1, Ending DEF Inv, TxInv, OncePerUnit
  <2>3. Rest
    BY <1>3, <2>1, Bystander DEF Inv, Active
  <2>4. QED
    BY <2>1, <2>2, <2>3, ClosesStep DEF Inv, NoTx
<1>4. CASE CommitLate(o)
  <2>1. /\ tx'[o] = NoTx
        /\ \A p \in Orders \ {o} : tx'[p] = tx[p] /\ \A u \in Units : lock[u] = p => lock'[u] = p
    BY <1>4, OthersKeepLocks DEF CommitLate, Inv
  <2>2. TxInv(o)'
    BY <1>4, <2>1, Ending DEF CommitLate, Inv, TxInv, OncePerUnit
  <2>3. Rest
    <3> SUFFICES ASSUME NEW p \in Orders \ {o} PROVE TxInv(p)'
      OBVIOUS
    <3>1. TxInv(p) /\ TxInv(o) /\ status[o] = "cancelled" /\ tx[o].picked = items[o]
      BY <1>4 DEF CommitLate, Inv, TxInv
    <3>2. \A q \in tx[p].closes : status'[q] = status[q]
      BY <1>4, <3>1 DEF CommitLate, TxInv
    <3>3. \A q \in Orders : Active(q)' =>
            \A c \in items'[q] : (Active(q) /\ c \in items[q]) \/ lock[c.unit] # p
      BY <1>4, <3>1 DEF CommitLate, TxInv, Active, Inactive
    <3>4. QED
      BY <1>4, <2>1, <3>1, <3>2, <3>3, Bystander DEF CommitLate, Inv
  <2>4. QED
    BY <2>1, <2>2, <2>3, ClosesStep DEF Inv, NoTx
<1>5. QED
  BY <1>1, <1>2, <1>3, <1>4 DEF PayLate, Rollback, GiveUpLate

(* The other transactions are single steps: they need the row of the order *)
(* they settle, so they neither close nor reopen one that a placement or a *)
(* late payment is working on.                                             *)
LEMMA OneStep ==
  ASSUME Inv, TypeOK', UNCHANGED <<items, lock, tx>>, now' \in {now, now + 1},
         \A q \in Orders : (OrderRowFree(q) /\ status[q] # "none") \/ status'[q] = status[q],
         \A q \in Orders : Active(q)' => Active(q)
  PROVE  Inv'
<1>1. ASSUME NEW p \in Orders PROVE TxInv(p)'
  <2>1. TxInv(p) /\ tx[p].pc \in {"idle", "place", "late"}
    BY DEF Inv, TypeOK, TxType
  <2>2. tx[p].pc # "idle" => status'[p] = status[p]
    BY <2>1 DEF TxInv, OrderRowFree
  <2>3. \A q \in tx[p].closes : q \in Orders /\ status'[q] = status[q]
    BY DEF OrderRowFree, Inv, TypeOK, TxType
  <2>4. QED
    BY <2>1, <2>2, <2>3, Bystander DEF Inv
<1>2. QED
  BY <1>1 DEF Inv, ClosesDisjoint

LEMMA InvStep == Inv /\ [Next]_vars => Inv'
<1> SUFFICES ASSUME Inv, [Next]_vars PROVE Inv'
  OBVIOUS
<1>1. TypeOK /\ TypeOK'
  BY TypeStep DEF Inv
<1>2. ASSUME NEW o \in Orders, Place(o) PROVE Inv'
  BY <1>1, <1>2, PlaceStep
<1>3. ASSUME NEW o \in Orders, PayLate(o) \/ Rollback(o) PROVE Inv'
  BY <1>1, <1>3, PayLateStep
<1>4. ASSUME NEW o \in Orders, Settle(o) \/ Pack(o) \/ Ship(o) PROVE Inv'
  <2> USE <1>1, OneStep DEF TypeOK, Active, Inactive
  <2>1. CASE Confirm(o)
    BY <2>1 DEF Confirm
  <2>2. CASE CloseUnpaid(o)
    BY <2>2 DEF CloseUnpaid
  <2>3. CASE CancelConfirmed(o)
    BY <2>3 DEF CancelConfirmed
  <2>4. CASE MarkRefunded(o)
    BY <2>4 DEF MarkRefunded
  <2>5. CASE Pack(o)
    BY <2>5 DEF Pack
  <2>6. CASE Ship(o)
    BY <2>6 DEF Ship
  <2>7. QED
    BY <1>4, <2>1, <2>2, <2>3, <2>4, <2>5, <2>6 DEF Settle
<1>5. ASSUME NEW u \in Units, NEW to \in Stages, Operate(u, to) PROVE Inv'
  BY <1>1, <1>5, OneStep DEF Operate, Active
<1>6. CASE NextDay
  BY <1>1, <1>6, OneStep DEF NextDay, Active
<1>7. CASE UNCHANGED vars
  BY <1>1, <1>7, OneStep DEF vars, Active
<1>8. QED
  BY <1>2, <1>3, <1>4, <1>5, <1>6, <1>7 DEF Next

-----------------------------------------------------------------------------
(* Every step is one step of the calendar, or none.                        *)

(* Neither the bookings nor which orders are live: the calendar stutters.  *)
LEMMA Unseen ==
  ASSUME UNCHANGED <<now, items>>, \A q \in Orders : Active(q)' <=> Active(q)
  PROVE  UNCHANGED <<now, Held>>
BY DEF Held

(* The instance has the calendar's operators under names of its own.       *)
LEMMA SameCalendar ==
  /\ Calendared!Booking = Booking
  /\ \A S : Calendared!OncePerUnit(S) <=> OncePerUnit(S)
  /\ \A h, O, u, l, d : Calendared!FreeOf(h, O, u, l, d) <=> FreeOf(h, O, u, l, d)
BY DEF Calendared!Booking, Booking, Calendared!OncePerUnit, OncePerUnit, Calendared!FreeOf, FreeOf,
       Calendared!Excludes, Excludes, Calendared!BufferedEnd, BufferedEnd

(* A committing transaction books everything it picked in one step.        *)
LEMMA Books ==
  ASSUME Inv, NEW o \in Orders, ~ Active(o), Active(o)', items'[o] = tx[o].picked,
         \A q \in Orders \ {o} : items'[q] = items[q],
         \A q \in Orders \ {o} : Active(q)' <=> Active(q) /\ q \notin tx[o].closes,
         UNCHANGED now
  PROVE  \E D \in SUBSET (Orders \ {o}) : Calendared!Book(o, D)
<1> USE DEF Inv, TypeOK, TxType
<1>1. tx[o].closes \in SUBSET (Orders \ {o})
  BY DEF TxInv
<1>2. Held[o] = {} /\ Held'[o] = tx[o].picked
  BY DEF Held
<1>3. Held' = [q \in Orders |-> IF q = o THEN Held'[o] ELSE IF q \in tx[o].closes THEN {} ELSE Held[q]]
  BY DEF Held
<1>4. \A b \in tx[o].picked : FreeOf(Held, Orders \ (tx[o].closes \cup {o}), b.unit, b.line, now)
  <2> SUFFICES ASSUME NEW b \in tx[o].picked, NEW p \in Orders \ (tx[o].closes \cup {o}),
                      NEW c \in Held[p], c.unit = b.unit
               PROVE  ~ Excludes(c.line, b.line, now)
    BY DEF FreeOf
  <2>1. p \in ActiveSeen(o) /\ c \in items[p]
    BY DEF Held, ActiveSeen
  <2>2. QED
    BY <2>1 DEF TxInv, FreeOf
<1>5. OncePerUnit(Held'[o]) /\ Held'[o] \in SUBSET Booking
  BY <1>2 DEF TxInv
<1>6. Calendared!Book(o, tx[o].closes)
  BY <1>2, <1>3, <1>4, <1>5, SameCalendar DEF Calendared!Book
<1>7. QED
  BY <1>1, <1>6

LEMMA Releases ==
  ASSUME NEW o \in Orders, ~ Active(o)', UNCHANGED <<now, items>>,
         \A q \in Orders \ {o} : Active(q)' <=> Active(q)
  PROVE  Calendared!Release(o)
BY DEF Calendared!Release, Held

LEMMA StepRefines == Inv /\ [Next]_vars => [Calendared!BNext]_(Calendared!bvars)
<1> SUFFICES ASSUME Inv, [Next]_vars PROVE Calendared!BNext \/ UNCHANGED <<now, Held>>
  BY DEF Calendared!bvars
<1>0. TypeOK /\ \A p \in Orders : TxInv(p)
  BY DEF Inv
<1> USE <1>0 DEF TypeOK
<1>1. ASSUME NEW o \in Orders, Place(o) \/ PayLate(o) \/ Rollback(o), ~ CommitPlace(o), ~ CommitLate(o)
      PROVE  UNCHANGED <<now, Held>>
  <2>1. UNCHANGED <<now, status, items>>
    BY <1>1 DEF Place, PayLate, Rollback, BeginPlace, ReadCandidates, SkipUnit, LockUnit, LineDone,
                OutOfStock, BeginLate, Relock, GiveUpLate
  <2>2. QED
    BY <2>1, Unseen DEF Active
<1>2. ASSUME NEW o \in Orders, CommitPlace(o) PROVE Calendared!BNext
  <2>1. status[o] = "none" /\ \A q \in tx[o].closes : q # o /\ status[q] = "pending_payment"
    BY <1>2 DEF CommitPlace, TxInv
  <2>2. QED
    BY <1>2, <2>1, Books DEF CommitPlace, Active, Inactive, Calendared!BNext
<1>3. ASSUME NEW o \in Orders, CommitLate(o) PROVE Calendared!BNext
  <2>1. status[o] = "cancelled" /\ tx[o].closes = {} /\ tx[o].picked = items[o]
    BY <1>3 DEF CommitLate, TxInv
  <2>2. QED
    BY <1>3, <2>1, Books DEF CommitLate, Active, Inactive, Calendared!BNext
<1>4. ASSUME NEW o \in Orders, CloseUnpaid(o) \/ CancelConfirmed(o) PROVE Calendared!BNext
  <2>1. UNCHANGED <<now, items>> /\ status' = [status EXCEPT ![o] = "cancelled"]
    BY <1>4 DEF CloseUnpaid, CancelConfirmed
  <2>2. QED
    BY <2>1, Releases DEF Active, Inactive, Calendared!BNext
<1>5. ASSUME NEW o \in Orders, Confirm(o) \/ MarkRefunded(o) \/ Pack(o) \/ Ship(o)
      PROVE  UNCHANGED <<now, Held>>
  <2>1. UNCHANGED <<now, items>> /\ \A q \in Orders : Active(q)' <=> Active(q)
    BY <1>5 DEF Confirm, MarkRefunded, Pack, Ship, Active, Inactive
  <2>2. QED
    BY <2>1, Unseen
<1>6. ASSUME NEW u \in Units, NEW to \in Stages, Operate(u, to) PROVE UNCHANGED <<now, Held>>
  BY <1>6, Unseen DEF Operate, Active
<1>7. CASE NextDay
  <2>1. now' = now + 1 /\ UNCHANGED Held
    BY <1>7 DEF NextDay, Held, Active
  <2>2. QED
    BY <2>1 DEF Calendared!BNext, Calendared!NextDay
<1>8. CASE UNCHANGED vars
  BY <1>8, Unseen DEF vars, Active
<1>9. QED
  BY <1>1, <1>2, <1>3, <1>4, <1>5, <1>6, <1>7, <1>8 DEF Next, Settle

LEMMA InitRefines == Init => Calendared!BInit
BY DEF Init, Calendared!BInit, Held, Active, Inactive

-----------------------------------------------------------------------------
(* The theorems.                                                           *)

(* Whatever is placed, paid, closed, cancelled and dispatched in whatever  *)
(* order, the tables keep their types (orders/inventory.ts).               *)
THEOREM TypeCorrect == Spec => []TypeOK
<1>1. Init => TypeOK
  BY InitInv DEF Inv
<1>2. QED
  BY <1>1, TypeStep, PTL DEF Spec

(* An open transaction has locked everything it picked, and it is all      *)
(* still free (orders/inventory.ts allocateUnits).                         *)
THEOREM PickedStaysFree == Spec => []Inv
BY InitInv, InvStep, PTL DEF Spec

(* Placement by row locks is as good as placement in one step              *)
(* (placement.ts placeOrder, inventory.ts allocateUnits).                  *)
THEOREM Refinement == Spec => AtomicBooking
BY InitRefines, StepRefines, PickedStaysFree, PTL DEF Spec, AtomicBooking, Calendared!BSpec

(* No garment is promised twice, for any number of garments, orders and    *)
(* lines (docs section L: "It can never double-book").                     *)
THEOREM NeverDoubleBooked == Spec => []NoDoubleBooking
<1>1. Calendared!BInit <=> Cal!BInit
  BY DEF Calendared!BInit, Cal!BInit
<1>2. Calendared!BNext <=> Cal!BNext
  BY DEF Calendared!BNext, Cal!BNext, Calendared!Book, Cal!Book, Calendared!Release, Cal!Release,
     Calendared!NextDay, Cal!NextDay, Calendared!Booking, Cal!Booking, Calendared!OncePerUnit,
     Cal!OncePerUnit, Calendared!FreeOf, Cal!FreeOf, Calendared!Excludes, Cal!Excludes,
     Calendared!BufferedEnd, Cal!BufferedEnd
<1>3. Cal!NoDoubleBooking <=> NoDoubleBooking
  BY DEF Cal!NoDoubleBooking, NoDoubleBooking, NoClash, Cal!NoClash, OncePerUnit, Cal!OncePerUnit,
     Clash, Cal!Clash, BufferedEnd, Cal!BufferedEnd
<1>4. Cal!BInit => Cal!BInv
  BY Cal!BInitInv, LinesAssumption, WindowAssumption, BufferAssumption
     DEF Cal!LineType, LineType, Cal!LinesAssumption, Cal!WindowAssumption, Cal!BufferAssumption
<1>5. Cal!BInv /\ [Cal!BNext]_(Cal!bvars) => Cal!BInv'
  BY Cal!BNextInv, LinesAssumption, WindowAssumption, BufferAssumption
     DEF Cal!LineType, LineType, Cal!LinesAssumption, Cal!WindowAssumption, Cal!BufferAssumption
<1>6. Cal!BInv => Cal!NoDoubleBooking
  BY DEF Cal!BInv
<1>7. [Calendared!BNext]_(Calendared!bvars) => [Cal!BNext]_(Cal!bvars)
  BY <1>2 DEF Calendared!bvars, Cal!bvars
<1>8. QED
  BY <1>1, <1>3, <1>4, <1>5, <1>6, <1>7, Refinement, PTL DEF AtomicBooking, Calendared!BSpec

-----------------------------------------------------------------------------
(* Holds.                                                                  *)

(* What is on the rack is nobody's; what is on hold is held by a live order*)
(* that booked it, and once that order is paid, for a rental: what it buys *)
(* was sold to it.  Dispatch moves rentals only, so nothing is left behind.*)
HoldInv(u) ==
  /\ stage[u] = "available" => owner[u] = NoOrder
  /\ stage[u] = "reserved" /\ owner[u] # NoOrder =>
       /\ status[owner[u]] \in {"pending_payment", "confirmed", "packed"}
       /\ u \in UnitsOf(items[owner[u]])
       /\ status[owner[u]] # "pending_payment" => u \notin Bought(owner[u])

AllHolds == \A u \in Units : HoldInv(u)

LEMMA RentedOrBought ==
  ASSUME TypeOK, NEW o \in Orders, NEW u \in UnitsOf(items[o])
  PROVE  u \in Rented(o) \/ u \in Bought(o)
BY LinesAssumption DEF TypeOK, UnitsOf, Rented, Bought, Booking, LineType

(* Holds stay live, one action at a time.                                  *)
LEMMA HoldStep ==
  ASSUME Inv, AllHolds, [Next]_vars
  PROVE  AllHolds'
<1> USE DEF AllHolds, HoldInv
<1>0. TypeOK /\ TypeOK' /\ \A p \in Orders : TxInv(p)
  BY TypeStep DEF Inv
<1> USE <1>0 DEF TypeOK
<1>1. ASSUME UNCHANGED <<status, items, stage, owner>> PROVE AllHolds'
  BY <1>1 DEF UnitsOf, Bought
<1>2. ASSUME NEW o \in Orders, CommitPlace(o) PROVE AllHolds'
  <2> SUFFICES ASSUME NEW u \in Units PROVE HoldInv(u)'
    OBVIOUS
  <2> DEFINE closes == tx[o].closes
             taken == {v \in UnitsOf(tx[o].picked) : StageSeen(o, v) = "available"}
  <2>1. /\ status' = [p \in Orders |-> IF p = o THEN "pending_payment"
                                       ELSE IF p \in closes THEN "cancelled" ELSE status[p]]
        /\ items' = [items EXCEPT ![o] = tx[o].picked]
        /\ stage' = [v \in Units |-> IF v \in taken THEN "reserved" ELSE StageSeen(o, v)]
        /\ owner' = [v \in Units |-> IF v \in taken THEN o
                                     ELSE IF v \in HeldBy(closes) THEN NoOrder ELSE owner[v]]
        /\ status[o] = "none"
    BY <1>2 DEF CommitPlace, TxInv
  <2>2. CASE u \in taken
    BY <2>1, <2>2, NullsAssumption DEF UnitsOf
  <2>3. CASE u \notin taken /\ u \in HeldBy(closes)
    BY <2>1, <2>3 DEF StageSeen
  <2>4. CASE u \notin taken /\ u \notin HeldBy(closes)
    <3>1. stage'[u] = stage[u] /\ owner'[u] = owner[u]
      BY <2>1, <2>4 DEF StageSeen
    <3>2. ASSUME stage[u] = "reserved", owner[u] # NoOrder
          PROVE  status'[owner[u]] = status[owner[u]] /\ items'[owner[u]] = items[owner[u]]
      BY <2>1, <2>4, <3>2 DEF HeldBy
    <3>3. QED
      BY <3>1, <3>2 DEF Bought
  <2>5. QED
    BY <2>2, <2>3, <2>4
<1>3. ASSUME NEW o \in Orders, CommitLate(o) PROVE AllHolds'
  <2>1. status[o] = "cancelled"
    BY <1>3 DEF CommitLate, TxInv
  <2>2. QED
    BY <1>3, <2>1 DEF CommitLate, UnitsOf, Bought
<1>4. ASSUME NEW o \in Orders, Confirm(o) PROVE AllHolds'
  BY <1>4 DEF Confirm, HeldBy, Bought
<1>5. ASSUME NEW o \in Orders, CloseUnpaid(o) PROVE AllHolds'
  BY <1>5 DEF CloseUnpaid, HeldBy, Bought
<1>6. ASSUME NEW o \in Orders, CancelConfirmed(o) PROVE AllHolds'
  BY <1>6 DEF CancelConfirmed, HeldBy, Bought
<1>7. ASSUME NEW o \in Orders, MarkRefunded(o) PROVE AllHolds'
  BY <1>7 DEF MarkRefunded, Bought
<1>8. ASSUME NEW o \in Orders, Pack(o) PROVE AllHolds'
  BY <1>8 DEF Pack, Bought
<1>9. ASSUME NEW o \in Orders, Ship(o) PROVE AllHolds'
  <2>1. \A u \in Units : stage[u] = "reserved" /\ owner[u] = o => u \in Rented(o)
    BY <1>9, RentedOrBought, NullsAssumption DEF Ship
  <2>2. QED
    BY <1>9, <2>1 DEF Ship, Bought
<1>10. ASSUME NEW u \in Units, NEW to \in Stages, Operate(u, to) PROVE AllHolds'
  BY <1>10 DEF Operate, Moves, Bought
<1>11. CASE NextDay
  BY <1>1, <1>11 DEF NextDay
<1>12. ASSUME NEW o \in Orders, Place(o) \/ PayLate(o) \/ Rollback(o), ~ CommitPlace(o), ~ CommitLate(o)
       PROVE  AllHolds'
  BY <1>1, <1>12 DEF Place, PayLate, Rollback, BeginPlace, ReadCandidates, SkipUnit, LockUnit, LineDone,
                     OutOfStock, BeginLate, Relock, GiveUpLate
<1>13. CASE UNCHANGED vars
  BY <1>1, <1>13 DEF vars
<1>14. QED
  BY <1>2, <1>3, <1>4, <1>5, <1>6, <1>7, <1>8, <1>9, <1>10, <1>11, <1>12, <1>13 DEF Next, Settle

(* No closed, superseded or refunded order keeps a garment off the rack,   *)
(* whatever overtakes what (inventory.ts releaseOrderInventory,            *)
(* markBuyUnitsSold, tryReReserveOrderInventory).                          *)
THEOREM HoldsStayLive == Spec => []HoldsAreLive
<1>1. Init => AllHolds
  BY DEF Init, AllHolds, HoldInv
<1>2. Inv /\ AllHolds /\ [Next]_vars => AllHolds'
  BY HoldStep
<1>3. AllHolds => HoldsAreLive
  BY DEF AllHolds, HoldInv, HoldsAreLive
<1>4. QED
  BY <1>1, <1>2, <1>3, PickedStaysFree, PTL DEF Spec

(* What one step may make of a garment on hold.                            *)
HoldGoes(u) ==
  \/ owner'[u] = owner[u] /\ stage'[u] \in {"reserved", "rented"}
  \/ stage'[u] = "sold" /\ status'[owner[u]] = "confirmed" /\ u \in Bought(owner[u])
  \/ stage'[u] \in {"available", "reserved"} /\ status'[owner[u]] = "cancelled"
  \/ \E o \in Orders \ {owner[u]} :
       /\ status[o] = "packed" /\ status'[o] = "shipped" /\ u \in Rented(o)
       /\ stage'[u] = "rented" /\ owner'[u] = o

LEMMA HoldEnds ==
  ASSUME Inv, [Next]_vars, NEW u \in Units, stage[u] = "reserved", owner[u] # NoOrder
  PROVE  HoldGoes(u)
<1> USE DEF HoldGoes
<1>0. TypeOK /\ owner[u] \in Orders /\ \A p \in Orders : TxInv(p)
  BY DEF Inv, TypeOK
<1> USE <1>0 DEF TypeOK
<1>1. CASE UNCHANGED <<stage, owner>>
  BY <1>1
<1>2. ASSUME NEW o \in Orders, CommitPlace(o) PROVE HoldGoes(u)
  <2>1. CASE u \in HeldBy(tx[o].closes)
    <3>1. owner[u] \in tx[o].closes /\ owner[u] # o
      BY <2>1 DEF HeldBy, TxInv
    <3>2. status'[owner[u]] = "cancelled" /\ stage'[u] \in {"available", "reserved"}
      BY <1>2, <2>1, <3>1 DEF CommitPlace, StageSeen
    <3>3. QED
      BY <3>2
  <2>2. CASE u \notin HeldBy(tx[o].closes)
    BY <1>2, <2>2 DEF CommitPlace, StageSeen
  <2>3. QED
    BY <2>1, <2>2
<1>3. ASSUME NEW o \in Orders, CommitLate(o) PROVE HoldGoes(u)
  BY <1>3 DEF CommitLate
<1>4. ASSUME NEW o \in Orders, Confirm(o) PROVE HoldGoes(u)
  BY <1>4 DEF Confirm, HeldBy
<1>5. ASSUME NEW o \in Orders, CloseUnpaid(o) \/ CancelConfirmed(o) PROVE HoldGoes(u)
  BY <1>5 DEF CloseUnpaid, CancelConfirmed, HeldBy
<1>6. ASSUME NEW o \in Orders, Ship(o) PROVE HoldGoes(u)
  <2>1. status[o] = "packed" /\ status'[o] = "shipped"
    BY <1>6 DEF Ship
  <2>2. \/ stage'[u] = "rented" /\ owner'[u] = o /\ u \in Rented(o)
        \/ stage'[u] = stage[u] /\ owner'[u] = owner[u]
    BY <1>6 DEF Ship
  <2>3. QED
    BY <2>1, <2>2
<1>7. ASSUME NEW v \in Units, NEW to \in Stages, Operate(v, to) PROVE HoldGoes(u)
  BY <1>7 DEF Operate, Moves
<1>8. ASSUME NEW o \in Orders, Place(o) \/ PayLate(o) \/ Rollback(o), ~ CommitPlace(o), ~ CommitLate(o)
      PROVE  HoldGoes(u)
  BY <1>1, <1>8 DEF Place, PayLate, Rollback, BeginPlace, ReadCandidates, SkipUnit, LockUnit, LineDone,
                    OutOfStock, BeginLate, Relock, GiveUpLate
<1>9. CASE NextDay \/ UNCHANGED vars \/ \E o \in Orders : MarkRefunded(o) \/ Pack(o)
  BY <1>1, <1>9 DEF NextDay, vars, MarkRefunded, Pack
<1>10. QED
  BY <1>2, <1>3, <1>4, <1>5, <1>6, <1>7, <1>8, <1>9 DEF Next, Settle

(* A garment on hold stays with its order until it is paid for or closed   *)
(* (inventory.ts releaseOrderInventory, markBuyUnitsSold); what else takes *)
(* it is the dispatch of another order it was allotted to (console/orders/ *)
(* service.ts:148).                                                        *)
THEOREM HoldsEndWithTheirOrder == Spec => HoldEndsWithItsOrder
<1>1. Inv /\ [Next]_vars => [\A u \in Units : stage[u] = "reserved" /\ owner[u] # NoOrder => HoldGoes(u)]_vars
  BY HoldEnds
<1>2. QED
  BY <1>1, PickedStaysFree, PTL DEF Spec, HoldEndsWithItsOrder, HoldGoes

-----------------------------------------------------------------------------
(* Sales.                                                                  *)

(* A paid order that bought the garment while no other live order buys it. *)
Buyer(o, u) ==
  /\ status[o] \in {"confirmed", "packed", "shipped"} /\ u \in Bought(o)
  /\ \A p \in Orders \ {o} : Active(p) => u \notin Bought(p)

(* A purchase excludes every other line from its garment, for good.        *)
LEMMA SoldExcludes ==
  ASSUME TypeOK, NEW o \in Orders, NEW u \in Bought(o), NEW O, o \in O, NEW l
  PROVE  ~ FreeOf(items, O, u, l, now)
BY DEF Bought, FreeOf, Excludes

(* Two live orders that buy one garment would be a double booking.         *)
LEMMA OneBuyer ==
  ASSUME TypeOK, NoDoubleBooking, NEW o \in Orders, NEW p \in Orders, o # p,
         Active(o), Active(p), NEW u, u \in Bought(o), u \in Bought(p)
  PROVE  FALSE
<1>1. PICK b \in items[o] : b.unit = u /\ b.line.mode = "buy"
  BY DEF Bought
<1>2. PICK c \in items[p] : c.unit = u /\ c.line.mode = "buy"
  BY DEF Bought
<1>3. Held[o] = items[o] /\ Held[p] = items[p]
  BY DEF Held
<1>4. ~ Clash(b.line, c.line, now)
  BY <1>1, <1>2, <1>3 DEF NoDoubleBooking, NoClash
<1>5. QED
  BY <1>1, <1>2, <1>4 DEF Clash

(* A sale stands while neither the garment nor its buyer moves and no      *)
(* rival buyer becomes live.                                               *)
LEMMA SaleStands ==
  ASSUME TypeOK, SoldToOneBuyer, NEW u \in Units, stage[u] = "sold",
         \A o \in Orders : Buyer(o, u) =>
           /\ status'[o] \in {"confirmed", "packed", "shipped"} /\ items'[o] = items[o]
           /\ \A p \in Orders \ {o} : Active(p)' /\ u \in Bought(p)' => Active(p) /\ u \in Bought(p)
  PROVE  \E o \in Orders : Buyer(o, u)'
<1>1. PICK o \in Orders : Buyer(o, u)
  BY DEF SoldToOneBuyer, Buyer
<1>2. QED
  BY <1>1 DEF Buyer, Bought

(* SoldToOneBuyer, order by order.                                         *)
Sold == \A u \in Units : stage[u] = "sold" => \E o \in Orders : Buyer(o, u)

(* A commit cannot bring in a second buyer, because what it picked is free *)
(* of every live order it does not supersede.                              *)
LEMMA SoldStep ==
  ASSUME Inv, NoDoubleBooking, SoldToOneBuyer, [Next]_vars
  PROVE  Sold'
<1>0. TypeOK /\ TypeOK' /\ \A p \in Orders : TxInv(p)
  BY TypeStep DEF Inv
<1> USE <1>0 DEF TypeOK
<1>1. ASSUME \A u \in Units : stage'[u] = "sold" => stage[u] = "sold",
             UNCHANGED items,
             \A o \in Orders :
               /\ status'[o] = status[o]
                  \/ status[o] \in {"pending_payment", "cancelled", "confirmed", "packed"}
               /\ Active(o)' => Active(o)
               /\ status[o] \in {"confirmed", "packed"} =>
                    status'[o] \in {"confirmed", "packed", "shipped"}
      PROVE  Sold'
  BY <1>1, SaleStands DEF Sold, Buyer, Bought
<1>2. ASSUME NEW o \in Orders, CommitPlace(o) \/ CommitLate(o)
      PROVE  \A u \in Units : stage[u] = "sold" => \E b \in Orders : Buyer(b, u)'
  <2> SUFFICES ASSUME NEW u \in Units, stage[u] = "sold" PROVE \E b \in Orders : Buyer(b, u)'
    OBVIOUS
  <2>1. /\ status[o] \in {"none", "cancelled"} /\ items'[o] = tx[o].picked
        /\ \A p \in Orders \ {o} : items'[p] = items[p]
        /\ \A p \in Orders \ {o} :
             status'[p] = status[p] \/ (p \in tx[o].closes /\ status'[p] = "cancelled")
        /\ \A p \in tx[o].closes : status[p] = "pending_payment"
    BY <1>2 DEF CommitPlace, CommitLate, TxInv
  <2> SUFFICES ASSUME NEW b \in Orders, Buyer(b, u)
               PROVE  /\ status'[b] \in {"confirmed", "packed", "shipped"} /\ items'[b] = items[b]
                      /\ \A p \in Orders \ {b} : Active(p)' /\ u \in Bought(p)' => Active(p) /\ u \in Bought(p)
    BY SaleStands
  <2>2. b # o /\ b \notin tx[o].closes /\ status'[b] = status[b]
    BY <2>1 DEF Buyer
  <2>3. b \in ActiveSeen(o)
    BY <2>2 DEF ActiveSeen, Active, Inactive, Buyer
  <2>4. ASSUME u \in Bought(o)' PROVE FALSE
    <3>1. PICK c \in tx[o].picked : c.unit = u
      BY <2>1, <2>4 DEF Bought
    <3>2. FreeOf(items, ActiveSeen(o), u, c.line, now)
      BY <3>1 DEF TxInv
    <3>3. QED
      BY <2>3, <3>2, SoldExcludes DEF Buyer
  <2>5. ASSUME NEW p \in Orders \ {b}, Active(p)', u \in Bought(p)' PROVE Active(p) /\ u \in Bought(p)
    BY <2>1, <2>4, <2>5 DEF Active, Inactive, Bought
  <2>6. QED
    BY <2>1, <2>2, <2>5 DEF Buyer
<1>3. ASSUME NEW o \in Orders, CommitPlace(o) PROVE Sold'
  <2>1. \A u \in Units : stage'[u] = "sold" => stage[u] = "sold"
    BY <1>3 DEF CommitPlace, StageSeen
  <2>2. QED
    BY <1>2, <1>3, <2>1 DEF Sold
<1>4. ASSUME NEW o \in Orders, CommitLate(o) PROVE Sold'
  <2> SUFFICES ASSUME NEW u \in Units, stage'[u] = "sold", stage[u] # "sold" PROVE Buyer(o, u)'
    BY <1>2, <1>4 DEF Sold
  <2>1. /\ u \in Bought(o) /\ status'[o] = "confirmed" /\ UNCHANGED items
        /\ tx[o].picked = items[o] /\ tx[o].closes = {}
    BY <1>4 DEF CommitLate, TxInv
  <2>2. PICK c \in tx[o].picked : c.unit = u
    BY <2>1 DEF Bought
  <2>3. FreeOf(items, ActiveSeen(o), u, c.line, now)
    BY <2>2 DEF TxInv
  <2>4. ASSUME NEW p \in Orders \ {o}, Active(p)' PROVE u \notin Bought(p)'
    <3>1. p \in ActiveSeen(o)
      BY <1>4, <2>1, <2>4 DEF CommitLate, Active, ActiveSeen
    <3>2. u \notin Bought(p)
      BY <2>3, <3>1, SoldExcludes
    <3>3. QED
      BY <2>1, <3>2 DEF Bought
  <2>5. QED
    BY <2>1, <2>4 DEF Buyer, Bought
<1>5. ASSUME NEW o \in Orders, Confirm(o) PROVE Sold'
  <2>1. /\ status[o] = "pending_payment" /\ status' = [status EXCEPT ![o] = "confirmed"] /\ UNCHANGED items
    BY <1>5 DEF Confirm
  <2>2. \A p \in Orders : (Active(p)' <=> Active(p)) /\ Bought(p)' = Bought(p)
    BY <2>1 DEF Active, Inactive, Bought
  <2>3. ASSUME NEW u \in Units, stage[u] = "sold" PROVE \E b \in Orders : Buyer(b, u)'
    BY <2>1, <2>2, <2>3, SaleStands DEF Buyer
  <2>4. ASSUME NEW u \in Units, stage'[u] = "sold", stage[u] # "sold" PROVE Buyer(o, u)'
    <3>1. u \in Bought(o)
      BY <1>5, <2>4 DEF Confirm
    <3>2. \A p \in Orders \ {o} : Active(p) => u \notin Bought(p)
      BY <2>1, <3>1, OneBuyer DEF Active, Inactive
    <3>3. QED
      BY <2>1, <2>2, <3>1, <3>2 DEF Buyer
  <2>5. QED
    BY <2>3, <2>4 DEF Sold
<1>6. ASSUME NEW o \in Orders, CancelConfirmed(o) PROVE Sold'
  <2>1. /\ status[o] = "confirmed" /\ status' = [status EXCEPT ![o] = "cancelled"] /\ UNCHANGED items
    BY <1>6 DEF CancelConfirmed
  <2>2. \A p \in Orders : (Active(p)' => Active(p)) /\ Bought(p)' = Bought(p)
    BY <2>1 DEF Active, Inactive, Bought
  <2>3. ASSUME NEW u \in Units, stage'[u] = "sold" PROVE stage[u] = "sold" /\ u \notin Bought(o)
    BY <1>6, <2>3 DEF CancelConfirmed, HeldBy
  <2>4. QED
    BY <2>1, <2>2, <2>3, SaleStands DEF Buyer, Sold
<1>7. ASSUME NEW o \in Orders, CloseUnpaid(o) \/ MarkRefunded(o) \/ Pack(o) \/ Ship(o) PROVE Sold'
  <2> USE DEF Active, Inactive
  <2>1. CASE CloseUnpaid(o)
    BY <1>1, <2>1 DEF CloseUnpaid
  <2>2. CASE MarkRefunded(o)
    BY <1>1, <2>2 DEF MarkRefunded
  <2>3. CASE Pack(o)
    BY <1>1, <2>3 DEF Pack
  <2>4. CASE Ship(o)
    BY <1>1, <2>4 DEF Ship
  <2>5. QED
    BY <1>7, <2>1, <2>2, <2>3, <2>4
<1>8. ASSUME NEW u \in Units, NEW to \in Stages, Operate(u, to) PROVE Sold'
  BY <1>1, <1>8 DEF Operate, Moves, Active
<1>9. ASSUME NEW o \in Orders, Place(o) \/ PayLate(o) \/ Rollback(o), ~ CommitPlace(o), ~ CommitLate(o)
      PROVE  Sold'
  <2>1. UNCHANGED <<status, items, stage>>
    BY <1>9 DEF Place, PayLate, Rollback, BeginPlace, ReadCandidates, SkipUnit, LockUnit, LineDone,
                OutOfStock, BeginLate, Relock, GiveUpLate
  <2>2. QED
    BY <1>1, <2>1 DEF Active
<1>10. CASE NextDay \/ UNCHANGED vars
  BY <1>1, <1>10 DEF NextDay, vars, Active
<1>11. QED
  BY <1>3, <1>4, <1>5, <1>6, <1>7, <1>8, <1>9, <1>10 DEF Next, Settle

(* What is sold belongs to one paid order, so that a cancellation puts back*)
(* its own garments and nobody else's (inventory.ts markBuyUnitsSold,      *)
(* returnSoldUnitsToStock).                                                *)
THEOREM OneBuyerEach == Spec => []SoldToOneBuyer
<1>1. Init => SoldToOneBuyer
  BY DEF Init, SoldToOneBuyer
<1>2. Sold <=> SoldToOneBuyer
  BY DEF Sold, SoldToOneBuyer, Buyer
<1>3. Inv /\ NoDoubleBooking /\ SoldToOneBuyer /\ [Next]_vars => SoldToOneBuyer'
  <2>1. Inv /\ NoDoubleBooking /\ SoldToOneBuyer /\ [Next]_vars => Sold'
    BY SoldStep
  <2>2. Sold' => SoldToOneBuyer'
    BY DEF Sold, SoldToOneBuyer, Buyer
  <2>3. QED
    BY <2>1, <2>2
<1>4. QED
  BY <1>1, <1>3, PickedStaysFree, NeverDoubleBooked, PTL DEF Spec
=============================================================================
