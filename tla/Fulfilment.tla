----------------------------- MODULE Fulfilment -----------------------------
(***************************************************************************)
(* A paid order on its way: the operators' status changes                  *)
(* (console/orders/service.ts), the delivery jobs (console/delivery, with  *)
(* jobs/delayedDeliveries.ts) and the timeline the customer sees           *)
(* (orders/timeline.ts), which is worked out from the order's events.      *)
(* Operators read an order and write later; every status change is guarded *)
(* by the status that was read.  Garments and money of the same steps are  *)
(* in Allocation, GarmentLifecycle and OrderPayments.                      *)
(***************************************************************************)
EXTENDS Integers, Sequences

CONSTANTS
  Orders,
  Jobs,         \* delivery jobs
  Operators,    \* operator requests and job runs under way
  NoJob

VARIABLES
  rentals,      \* orders with a rented item
  status,       \* status[o]: Order.status
  events,       \* events[o]: statuses an OrderEvent of the order carries
  dispatches,   \* history: how often the order's garments left
  delivery,     \* delivery[j]: DeliveryJob, or NoJob
  operator      \* operator[p]: what it has read

fulfilmentVars == <<rentals, status, events, dispatches, delivery, operator>>

Off == [pc |-> "off"]

OrderStatuses ==
  {"pending_payment", "confirmed", "packed", "shipped", "with_customer",
   "return_in_transit", "closed", "cancelled", "payment_failed", "refunded"}

DeliveryRow == [order : Orders, type : {"pickup", "dropoff"}, over : BOOLEAN,
                status : {"scheduled", "en_route", "delayed", "completed"}]

(* Mutant of Transitions: a confirmed order may be shipped without packing.*)
TransitionsSkipping(from) ==
  CASE from = "confirmed" -> {"packed", "shipped", "cancelled"}
    [] from = "packed" -> {"shipped"}
    [] from = "shipped" -> {"with_customer"}
    [] from = "with_customer" -> {"return_in_transit", "closed"}
    [] from = "return_in_transit" -> {"closed"}
    [] OTHER -> {}

(* ORDER_TRANSITIONS.                                                      *)
Transitions(from) ==
  CASE from = "pending_payment" -> {"cancelled"}
    [] from = "confirmed" -> {"packed", "cancelled"}
    [] from = "packed" -> {"shipped"}
    [] from = "shipped" -> {"with_customer"}
    [] from = "with_customer" -> {"return_in_transit", "closed"}
    [] from = "return_in_transit" -> {"closed"}
    [] OTHER -> {}

Init ==
  /\ rentals \in SUBSET Orders
  /\ status = [o \in Orders |-> "pending_payment"]
  /\ events = [o \in Orders |-> {}]
  /\ dispatches = [o \in Orders |-> 0]
  /\ delivery = [j \in Jobs |-> NoJob]
  /\ operator = [p \in Operators |-> Off]

Known == {j \in Jobs : delivery[j] # NoJob}

(* A change of status writes its event in the same transaction.            *)
Becomes(o, to) ==
  /\ status' = [status EXCEPT ![o] = to]
  /\ events' = [events EXCEPT ![o] = @ \cup {to}]

-----------------------------------------------------------------------------
(* The payment side and the customer: confirmation, also of a late payment,*)
(* the ends of an unpaid order, cancelOrder, and the refund that follows.  *)
Cancellable(o) == status[o] \in {"pending_payment", "confirmed"}

Settle(o) ==
  /\ \/ status[o] \in {"pending_payment", "cancelled", "payment_failed"} /\ Becomes(o, "confirmed")
     \/ status[o] = "pending_payment" /\ Becomes(o, "payment_failed")
     \/ Cancellable(o) /\ Becomes(o, "cancelled")
     \/ status[o] \in {"cancelled", "payment_failed"} /\ Becomes(o, "refunded")
  /\ UNCHANGED <<rentals, dispatches, delivery, operator>>

(* setOrderStatus: the order as read decides whether the move is allowed;  *)
(* a cancellation is left to cancelOrder, which reads the order again.     *)
ReadOrder(p, o, to) ==
  /\ operator[p] = Off
  /\ to \in Transitions(status[o])
  /\ operator' = [operator EXCEPT ![p] = [pc |-> IF to = "cancelled" THEN "cancel" ELSE "move", order |-> o, from |-> status[o], to |-> to]]
  /\ UNCHANGED <<rentals, status, events, dispatches, delivery>>

(* Mutant of Unchanged: the update is by id alone.                         *)
UnchangedOrNot(p) == TRUE

Unchanged(p) == status[operator[p].order] = operator[p].from

HasDropoff(o) == \E j \in Known : delivery[j].order = o /\ delivery[j].type = "dropoff"

NewJob(o, type) ==
  \E j \in Jobs \ Known :
    delivery' = [delivery EXCEPT ![j] = [order |-> o, type |-> type, over |-> FALSE, status |-> "scheduled"]]

MoveOrder(p) ==
  LET o == operator[p].order IN
  /\ operator[p].pc = "move"
  /\ IF Unchanged(p)
     THEN /\ Becomes(o, operator[p].to)
          /\ IF operator[p].to = "shipped"
             THEN /\ dispatches' = [dispatches EXCEPT ![o] = @ + 1]
                  /\ IF HasDropoff(o) THEN UNCHANGED delivery ELSE NewJob(o, "dropoff")
             ELSE UNCHANGED <<dispatches, delivery>>
     ELSE UNCHANGED <<status, events, dispatches, delivery>>
  /\ operator' = [operator EXCEPT ![p] = Off]
  /\ UNCHANGED rentals

CancelOrder(p) ==
  LET o == operator[p].order IN
  /\ operator[p].pc = "cancel"
  /\ IF Cancellable(o) THEN Becomes(o, "cancelled") ELSE UNCHANGED <<status, events>>
  /\ operator' = [operator EXCEPT ![p] = Off]
  /\ UNCHANGED <<rentals, dispatches, delivery>>

-----------------------------------------------------------------------------
(* createDeliveryJob asks only for an order; markComplete leaves a         *)
(* completed job alone.                                                    *)
CreateJob(o, type) ==
  /\ NewJob(o, type)
  /\ UNCHANGED <<rentals, status, events, dispatches, operator>>

(* Mutant of MarkComplete: the job takes the customer's word for it.       *)
MarkDelivered(j) ==
  /\ j \in Known /\ delivery[j].status # "completed"
  /\ delivery' = [delivery EXCEPT ![j].status = "delivered"]
  /\ UNCHANGED <<rentals, status, events, dispatches, operator>>

MarkComplete(j) ==
  /\ j \in Known /\ delivery[j].status # "completed"
  /\ delivery' = [delivery EXCEPT ![j].status = "completed"]
  /\ UNCHANGED <<rentals, status, events, dispatches, operator>>

WindowPasses(j) ==
  /\ j \in Known /\ ~delivery[j].over
  /\ delivery' = [delivery EXCEPT ![j].over = TRUE]
  /\ UNCHANGED <<rentals, status, events, dispatches, operator>>

(* runDelayedDeliveriesJob: the overdue jobs, written by id.               *)
FindOverdue(p) ==
  LET overdue == {j \in Known : delivery[j].over /\ delivery[j].status \in {"scheduled", "en_route"}} IN
  /\ operator[p] = Off
  /\ overdue # {}
  /\ operator' = [operator EXCEPT ![p] = [pc |-> "flag", jobs |-> overdue]]
  /\ UNCHANGED <<rentals, status, events, dispatches, delivery>>

FlagDelayed(p) ==
  /\ operator[p].pc = "flag"
  /\ delivery' = [j \in Jobs |-> IF j \in operator[p].jobs THEN [delivery[j] EXCEPT !.status = "delayed"]
                                                           ELSE delivery[j]]
  /\ operator' = [operator EXCEPT ![p] = Off]
  /\ UNCHANGED <<rentals, status, events, dispatches>>

Next ==
  \/ \E o \in Orders :
       \/ Settle(o)
       \/ \E type \in {"pickup", "dropoff"} : CreateJob(o, type)
       \/ \E p \in Operators, to \in OrderStatuses : ReadOrder(p, o, to)
  \/ \E p \in Operators : MoveOrder(p) \/ CancelOrder(p) \/ FindOverdue(p) \/ FlagDelayed(p)
  \/ \E j \in Jobs : MarkComplete(j) \/ WindowPasses(j)

Spec == Init /\ [][Next]_fulfilmentVars

-----------------------------------------------------------------------------
(* buildTimeline: rentals get the return leg; a purchase that was closed   *)
(* counts as delivered; the last step is done as soon as it is reached.    *)
Flow(o) ==
  <<"confirmed", "packed", "shipped", "with_customer">>
    \o IF o \in rentals THEN <<"return_in_transit", "closed">> ELSE <<>>

Effective(o) ==
  IF o \notin rentals /\ status[o] \in {"closed", "return_in_transit"} THEN "with_customer" ELSE status[o]

StepState(o, i) ==
  LET flow == Flow(o)
      current == {k \in DOMAIN flow : flow[k] = Effective(o)}
  IN IF current = {} THEN IF flow[i] \in events[o] THEN "done" ELSE "upcoming"
     ELSE IF \E k \in current : i < k \/ (i = k /\ k = Len(flow)) THEN "done"
     ELSE IF i \in current THEN "current" ELSE "upcoming"

-----------------------------------------------------------------------------
(* Every row has a shape its table allows.                                 *)
TypeOK ==
  /\ status \in [Orders -> OrderStatuses]
  /\ \A j \in Known : delivery[j] \in DeliveryRow

(* The garments of an order leave once, whoever presses and how often, and *)
(* with somebody to bring them, also when operators made other jobs for the*)
(* order before (setOrderStatus: "guarded transition", dropoff).           *)
DispatchedOnce ==
  \A o \in Orders :
    /\ dispatches[o] <= 1
    /\ dispatches[o] = 1 => \E j \in Known : delivery[j].order = o /\ delivery[j].type = "dropoff"

(* Every step the timeline shows as passed has its date, whichever way the *)
(* order went: paid late, cancelled, bought and closed.  The return leg is *)
(* the exception: an operator may close a rental that skipped it           *)
(* (orders/timeline.ts: buildTimeline).                                    *)
TimelineDated ==
  \A o \in Orders : \A i \in DOMAIN Flow(o) :
    StepState(o, i) # "upcoming" /\ Flow(o)[i] # "return_in_transit" => Flow(o)[i] \in events[o]
=============================================================================
