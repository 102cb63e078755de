-------------------------- MODULE GarmentLifecycle --------------------------
(***************************************************************************)
(* The life of a garment: console/lifecycle/stateMachine.ts, laundry       *)
(* batches (console/laundry/service.ts), and the orders that reserve,      *)
(* release, sell and dispatch garments.  A request that reads rows without *)
(* locking them and later writes them back by id is two steps, and holds   *)
(* what it read in between; one whose UPDATE is guarded is one step.       *)
(*                                                                         *)
(* An order closes or ships in a transaction: its own row is locked from   *)
(* the guarded UPDATE to the commit, the garments it found are not.        *)
(* "shipped" stands for shipped to closed, "cancelled" for all the ways an *)
(* order is closed; calendars and allocation are in Allocation.            *)
(*                                                                         *)
(* Nothing stops two requests from moving the same garment: one then       *)
(* writes over what the other has written since it read, and that update   *)
(* is lost.  missed and lost remember it, and guard no action.             *)
(***************************************************************************)
EXTENDS Naturals, Sequences, FiniteSets

CONSTANTS
  Units,     \* garments
  Orders,
  Batches,   \* laundry batches
  Workers,   \* requests that may be in progress at once
  ItemsOf,   \* ItemsOf[o]: the garments allocated to order o
  Buys,      \* the orders that buy; the others rent
  None

ASSUME ItemsAssumption == ItemsOf \in [Orders -> SUBSET Units]
ASSUME NoneAssumption == None \notin Units \cup Orders \cup Batches

VARIABLES
  stage,      \* GarmentUnit.stage
  condition,  \* GarmentUnit.condition
  owner,      \* GarmentUnit.currentOrderId
  status,     \* Order.status
  back,       \* back[o]: the items of o whose actualReturnDate is set
  batch,      \* laundry batches: how far, and which garments
  job,        \* what each worker is doing
  due,        \* history: the checks a worn garment still owes
  left,       \* history: the garments that left with an order
  missed,     \* history: the garments moved by others since a worker read
  lost        \* history: the garments an update was lost on

rows == <<stage, condition, owner, status, back, batch, due, left>>
overlaps == <<missed, lost>>
vars == <<rows, job, overlaps>>

Stages == {"available", "reserved", "rented", "returned", "inspection", "laundry",
           "quality", "ready", "retired", "sold"}
Conditions == {"fit", "needs_review"}
Statuses == {"none", "unpaid", "confirmed", "packed", "shipped", "cancelled"}
Checks == {"inspection", "quality"}
BatchSequence == <<"received", "washing", "drying", "pressing", "quality", "ready">>

(* at: index in BatchSequence, 0 for a batch that does not exist.          *)
BatchType == [at : 0..Len(BatchSequence), items : SUBSET Units]
JobType == [pc : {"idle", "transition", "create", "advance", "advance_units", "close", "ship"},
            unit : Units \cup {None}, to : Stages, condition : Conditions, order : Orders \cup {None},
            batch : Batches \cup {None}, at : 0..Len(BatchSequence), units : SUBSET Units]

NoBatch == [at |-> 0, items |-> {}]
Idle == [pc |-> "idle", unit |-> None, to |-> "available", condition |-> "fit", order |-> None,
         batch |-> None, at |-> 0, units |-> {}]

TypeOK ==
  /\ stage \in [Units -> Stages \ {"returned"}]
  /\ condition \in [Units -> Conditions]
  /\ owner \in [Units -> Orders \cup {None}]
  /\ status \in [Orders -> Statuses]
  /\ back \in [Orders -> SUBSET Units]
  /\ batch \in [Batches -> BatchType]
  /\ job \in [Workers -> JobType]
  /\ due \in [Units -> SUBSET Checks]
  /\ left \in [Orders -> SUBSET Units]
  /\ missed \in [Workers -> SUBSET Units]
  /\ lost \subseteq Units

Init ==
  /\ stage = [u \in Units |-> "available"]
  /\ condition = [u \in Units |-> "fit"]
  /\ owner = [u \in Units |-> None]
  /\ status = [o \in Orders |-> "none"]
  /\ back = [o \in Orders |-> {}]
  /\ batch = [b \in Batches |-> NoBatch]
  /\ job = [w \in Workers |-> Idle]
  /\ due = [u \in Units |-> {}]
  /\ left = [o \in Orders |-> {}]
  /\ missed = [w \in Workers |-> {}]
  /\ lost = {}

Free(w) == job[w].pc = "idle"
At(w, pc) == job[w].pc = pc
Do(w, task) == job' = [job EXCEPT ![w] = task]
Done(w) == Do(w, Idle)

(* A request that reads garments, or is over, has missed nothing.          *)
Fresh(w) ==
  /\ missed' = [missed EXCEPT ![w] = {}]
  /\ lost' = lost

(* A request that writes S, of which it had read T, is over: what others   *)
(* moved of T in the meantime is undone, and those in progress miss S.     *)
Overwrites(w, S, T) ==
  /\ lost' = lost \cup (T \cap missed[w])
  /\ missed' = [v \in Workers |-> IF v = w \/ Free(v) THEN {} ELSE missed[v] \cup S]

(* The garments S reach stage s: the one write of GarmentUnit.stage.       *)
Reach(S, s) ==
  /\ stage' = [u \in Units |-> IF u \in S THEN s ELSE stage[u]]
  /\ due' = [u \in Units |-> IF u \notin S THEN due[u]
                             ELSE IF s = "rented" THEN Checks ELSE due[u] \ {s}]

OwnedBy(S, o) == owner' = [u \in Units |-> IF u \in S THEN o ELSE owner[u]]

-----------------------------------------------------------------------------
(* transitionGarmentUnit.                                                  *)

Moves ==
  [available |-> {"reserved", "retired"}, reserved |-> {"rented"}, rented |-> {"returned"},
   returned |-> {"inspection"}, inspection |-> {"laundry", "quality", "retired"},
   laundry |-> {"quality"}, quality |-> {"ready", "retired"}, ready |-> {"available"},
   retired |-> {}, sold |-> {}]

(* Mutant of OnRack: forgets the last step to the rack.                    *)
OnlyReady == {"ready"}

OnRack == {"ready", "available"}

(* The move is checked against what the garment is now ...                 *)
TransitionRead(w, u, to, c) ==
  /\ Free(w) /\ to \in Moves[stage[u]]
  /\ ~ (to \in OnRack /\ c = "needs_review")
  /\ Do(w, [Idle EXCEPT !.pc = "transition", !.unit = u, !.to = to, !.condition = c, !.order = owner[u]])
  /\ Fresh(w)
  /\ UNCHANGED rows

(* Mutant of Arrival: a garment received waits to be inspected.            *)
ArrivalWaiting(to) == to

(* A garment received goes straight on to inspection.                      *)
Arrival(to) == IF to = "returned" THEN "inspection" ELSE to

(* ... and written, with the owner read then, whatever it is by now.  A    *)
(* garment received is stamped on the order it was out with.               *)
TransitionWrite(w) ==
  LET u == job[w].unit
      to == job[w].to
      o == job[w].order
  IN /\ At(w, "transition")
     /\ Reach({u}, Arrival(to))
     /\ condition' = [condition EXCEPT ![u] = job[w].condition]
     /\ OwnedBy({u}, IF to = "available" THEN None ELSE o)
     /\ back' = IF to = "returned" /\ o # None
                THEN [back EXCEPT ![o] = back[o] \cup ({u} \cap ItemsOf[o])]
                ELSE back
     /\ Done(w) /\ Overwrites(w, {u}, {u})
     /\ UNCHANGED <<status, batch, left>>

-----------------------------------------------------------------------------
(* Laundry batches.                                                        *)

CreateRead(w, b, S) ==
  /\ Free(w) /\ batch[b] = NoBatch
  /\ S # {} /\ \A u \in S : stage[u] = "laundry"
  /\ Do(w, [Idle EXCEPT !.pc = "create", !.batch = b, !.units = S])
  /\ Fresh(w)
  /\ UNCHANGED rows

CreateWrite(w) ==
  /\ At(w, "create") /\ batch[job[w].batch] = NoBatch
  /\ batch' = [batch EXCEPT ![job[w].batch] = [at |-> 1, items |-> job[w].units]]
  /\ Done(w) /\ Fresh(w)
  /\ UNCHANGED <<stage, condition, owner, status, back, due, left>>

AdvanceRead(w, b) ==
  /\ Free(w) /\ batch[b].at \in 1..(Len(BatchSequence) - 1)
  /\ Do(w, [Idle EXCEPT !.pc = "advance", !.batch = b, !.at = batch[b].at + 1])
  /\ Fresh(w)
  /\ UNCHANGED rows

(* The stage a member of a batch must be in to move along with it.         *)
FromStage == [quality |-> "laundry", ready |-> "quality"]

(* Mutant of Members: moves every garment of the batch.                    *)
AllMembers(b, next) == IF next \in DOMAIN FromStage THEN batch[b].items ELSE {}

Members(b, next) ==
  IF next \in DOMAIN FromStage THEN {u \in batch[b].items : stage[u] = FromStage[next]} ELSE {}

(* The transaction locks the batch, and reads its garments without locks.  *)
AdvanceUnits(w) ==
  LET b == job[w].batch
  IN /\ At(w, "advance")
     /\ \A v \in Workers : ~ (At(v, "advance_units") /\ job[v].batch = b)
     /\ Do(w, [job[w] EXCEPT !.pc = "advance_units", !.units = Members(b, BatchSequence[job[w].at])])
     /\ Fresh(w)
  /\ UNCHANGED rows

AdvanceWrite(w) ==
  /\ At(w, "advance_units")
  /\ batch' = [batch EXCEPT ![job[w].batch].at = job[w].at]
  /\ Reach(job[w].units, BatchSequence[job[w].at])
  /\ Done(w) /\ Overwrites(w, job[w].units, job[w].units)
  /\ UNCHANGED <<condition, owner, status, back, left>>

-----------------------------------------------------------------------------
(* Orders.                                                                 *)

Held(o) == {u \in Units : owner[u] = o /\ stage[u] = "reserved"}
OrderRowFree(o) == \A w \in Workers : ~ (job[w].pc \in {"close", "ship"} /\ job[w].order = o)

Rack(o) == {u \in ItemsOf[o] : stage[u] = "available"}

(* What a buyer wants is on the rack; a rented garment may be busy.        *)
Allocatable(o) ==
  \A u \in ItemsOf[o] : stage[u] \notin {"retired", "sold"} /\ (o \in Buys => stage[u] = "available")

(* Placement locks its garments; a rented one that is busy elsewhere is    *)
(* booked and keeps its stage and its owner.                               *)
Place(o) ==
  /\ status[o] = "none" /\ Allocatable(o)
  /\ status' = [status EXCEPT ![o] = "unpaid"]
  /\ Reach(Rack(o), "reserved") /\ OwnedBy(Rack(o), o)
  /\ UNCHANGED <<condition, back, batch, job, left, overlaps>>

(* confirmPaidOrder with markBuyUnitsSold, whose UPDATE is guarded.        *)
Confirm(o) ==
  LET S == IF o \in Buys THEN Held(o) \cap ItemsOf[o] ELSE {}
  IN /\ status[o] = "unpaid" /\ OrderRowFree(o)
     /\ status' = [status EXCEPT ![o] = "confirmed"]
     /\ Reach(S, "sold") /\ OwnedBy(S, None)
     /\ UNCHANGED <<condition, back, batch, job, left, overlaps>>

(* The payment of a closed order arrives: tryReReserveOrderInventory locks *)
(* its garments, holds those on the rack, and the order is confirmed.      *)
ConfirmLate(o) ==
  /\ status[o] = "cancelled" /\ OrderRowFree(o) /\ Allocatable(o)
  /\ status' = [status EXCEPT ![o] = "confirmed"]
  /\ Reach(Rack(o), IF o \in Buys THEN "sold" ELSE "reserved")
  /\ OwnedBy(Rack(o), IF o \in Buys THEN None ELSE o)
  /\ UNCHANGED <<condition, back, batch, job, left, overlaps>>

(* closeUnpaidOrder and cancelOrder: releaseOrderInventory finds the       *)
(* garments on hold without locking them ...                               *)
CloseRead(w, o) ==
  /\ Free(w) /\ status[o] \in {"unpaid", "confirmed"} /\ OrderRowFree(o)
  /\ Do(w, [Idle EXCEPT !.pc = "close", !.order = o, !.units = Held(o)])
  /\ Fresh(w)
  /\ UNCHANGED rows

(* ... and puts them back by id; what the order bought goes back as well.  *)
CloseWrite(w) ==
  LET o == job[w].order
      sold == IF o \in Buys /\ status[o] = "confirmed" THEN {u \in ItemsOf[o] : stage[u] = "sold"} ELSE {}
      S == job[w].units \cup sold
  IN /\ At(w, "close")
     /\ status' = [status EXCEPT ![o] = "cancelled"]
     /\ Reach(S, "available") /\ OwnedBy(S, None)
     /\ Done(w) /\ Overwrites(w, S, job[w].units)
     /\ UNCHANGED <<condition, back, batch, left>>

Pack(o) ==
  /\ status[o] = "confirmed" /\ OrderRowFree(o)
  /\ status' = [status EXCEPT ![o] = "packed"]
  /\ UNCHANGED <<stage, condition, owner, back, batch, job, due, left, overlaps>>

(* Mutant of Shippable: takes a garment wherever it is.                    *)
AnyStage == Stages

(* What setOrderStatus("shipped") may take along.                          *)
Shippable == {"reserved", "available"}

ShipRead(w, o) ==
  /\ Free(w) /\ status[o] = "packed" /\ OrderRowFree(o)
  /\ Do(w, [Idle EXCEPT !.pc = "ship", !.order = o,
                        !.units = IF o \in Buys THEN {} ELSE {u \in ItemsOf[o] : stage[u] \in Shippable}])
  /\ Fresh(w)
  /\ UNCHANGED rows

ShipWrite(w) ==
  LET o == job[w].order
      S == job[w].units
  IN /\ At(w, "ship")
     /\ status' = [status EXCEPT ![o] = "shipped"]
     /\ Reach(S, "rented") /\ OwnedBy(S, o)
     /\ left' = [left EXCEPT ![o] = S]
     /\ Done(w) /\ Overwrites(w, S, S)
     /\ UNCHANGED <<condition, back, batch>>

(* A request dies, or its transaction fails, before it writes.             *)
Abort(w) ==
  /\ ~ Free(w)
  /\ Done(w)
  /\ Fresh(w)
  /\ UNCHANGED rows

-----------------------------------------------------------------------------
Operator(w) ==
  \/ \E u \in Units : \E to \in Stages : \E c \in Conditions : TransitionRead(w, u, to, c)
  \/ TransitionWrite(w)

Laundry(w) ==
  \/ \E b \in Batches : AdvanceRead(w, b) \/ \E S \in SUBSET Units : CreateRead(w, b, S)
  \/ CreateWrite(w) \/ AdvanceUnits(w) \/ AdvanceWrite(w)

Fulfil(w) ==
  \/ \E o \in Orders : CloseRead(w, o) \/ ShipRead(w, o)
  \/ CloseWrite(w) \/ ShipWrite(w)

Next ==
  \/ \E w \in Workers : Operator(w) \/ Laundry(w) \/ Fulfil(w) \/ Abort(w)
  \/ \E o \in Orders : Place(o) \/ Confirm(o) \/ ConfirmLate(o) \/ Pack(o)

Spec == Init /\ [][Next]_vars

-----------------------------------------------------------------------------
(* Properties, for any requests that overlap, of every garment on which no *)
(* update was lost.                                                        *)

(* A garment a customer has worn passes inspection and the quality check   *)
(* before it can be ready, on the rack, on hold or sold again, whatever    *)
(* old batches it still belongs to and whichever orders booked it.         *)
CheckedBeforeRack ==
  \A u \in Units \ lost : stage[u] \in {"ready", "available", "reserved", "sold"} => due[u] = {}

(* stateMachine.ts:45: a garment in need of review does not reach the      *)
(* rack, by an operator, a batch, a release or a sale undone.              *)
FitOnRack ==
  \A u \in Units \ lost : stage[u] = "available" => condition[u] = "fit"

(* A garment that left with an order is still out with that very order, or *)
(* its return is recorded on it: deposits are refunded from that date.     *)
ReturnsAreRecorded ==
  \A o \in Orders : \A u \in left[o] \ lost : u \in back[o] \/ (stage[u] = "rented" /\ owner[u] = o)
=============================================================================
