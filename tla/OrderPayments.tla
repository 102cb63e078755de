---------------------------- MODULE OrderPayments ----------------------------
(***************************************************************************)
(* Paying for an order: modules/payments (session, verify, finalize,       *)
(* refunds), webhooks/razorpay, the release job, and the cancellation of   *)
(* an order, as requests that interleave between their database calls and  *)
(* their calls to the gateway.                                             *)
(*                                                                         *)
(* A worker is a request, webhook delivery or job run in progress; one     *)
(* step is one database transaction, or one gateway call.  A transaction   *)
(* is one step because its first statement is a guarded UPDATE and the row *)
(* locks it takes serialise it with the others.  "cancelled" stands for    *)
(* cancelled and payment_failed, "packed" for packed to closed.  A deposit *)
(* is a part of what was paid; every item's is the same here.              *)
(***************************************************************************)
EXTENDS Integers, FiniteSets, Functions

CONSTANTS
  Orders, Payments, Refunds,
  OrderOf,     \* OrderOf[p]: the order payment p is for
  Gateways,    \* the lanes the deployed configuration may choose
  Workers,
  AmountPaid,  \* Payment.amountPaise
  Deposit,     \* what is given back of it when the item has been returned
  MaxDeposits, \* bound on deposit refunds
  MaxFaults,   \* bound on crashes, lost answers and gateway outages
  None

ASSUME OrderOfAssumption == OrderOf \in [Payments -> Orders]
ASSUME NoneAssumption == None \notin Orders \cup Payments \cup Refunds \cup Gateways
ASSUME MaxFaultsAssumption == MaxFaults \in Nat /\ MaxDeposits \in Nat
ASSUME AmountsAssumption == AmountPaid \in Nat /\ Deposit \in Nat /\ 0 < Deposit /\ Deposit < AmountPaid
ASSUME RefundsAssumption == IsFiniteSet(Refunds)

VARIABLES
  status,    \* Order.status
  expired,   \* the hold of the order has run out
  payment,   \* Payment.status
  lane,      \* Payment.gateway
  gateway,   \* what the gateway knows of the payment
  refund,    \* Refund rows
  returned,  \* what the gateway did with the refund
  told,      \* the refund's outcome event was acknowledged
  job,       \* what each worker is doing
  faults

vars == <<status, expired, payment, lane, gateway, refund, returned, told, job, faults>>

Statuses == {"pending_payment", "confirmed", "packed", "cancelled", "refunded"}
PaymentStatuses == {"none", "pending", "failed", "paid", "partially_refunded", "refunded"}
Taken == {"paid", "partially_refunded", "refunded"}
GatewayStates == {"none", "open", "authorized", "captured", "mismatched"}
RefundType == [pay : Payments \cup {None}, amount : 0..AmountPaid, item : BOOLEAN,
               status : {"none", "pending", "processed", "failed"}, ref : BOOLEAN]
Pcs == {"idle", "session_find", "session_retire", "session_insert", "finalize", "cancel_find",
        "refund_read", "refund_create", "refund_call", "refund_record", "refund_sync", "refund_catch",
        "deposit_create", "job_check"}
JobType == [pc : Pcs, order : Orders \cup {None}, pay : Payments \cup {None}, refund : Refunds \cup {None},
            lane : Gateways \cup {None}, todo : SUBSET Payments, amount : 0..AmountPaid,
            mark : BOOLEAN, settled : BOOLEAN]

NoRefund == [pay |-> None, amount |-> 0, item |-> FALSE, status |-> "none", ref |-> FALSE]
Idle == [pc |-> "idle", order |-> None, pay |-> None, refund |-> None, lane |-> None,
         todo |-> {}, amount |-> 0, mark |-> FALSE, settled |-> FALSE]

TypeOK ==
  /\ status \in [Orders -> Statuses]
  /\ expired \in [Orders -> BOOLEAN]
  /\ payment \in [Payments -> PaymentStatuses]
  /\ lane \in [Payments -> Gateways \cup {None}]
  /\ gateway \in [Payments -> GatewayStates]
  /\ refund \in [Refunds -> RefundType]
  /\ returned \in [Refunds -> {"none", "accepted", "processed", "failed"}]
  /\ told \in [Refunds -> BOOLEAN]
  /\ job \in [Workers -> JobType]
  /\ faults \in Nat

Init ==
  /\ status = [o \in Orders |-> "pending_payment"]
  /\ expired = [o \in Orders |-> FALSE]
  /\ payment = [p \in Payments |-> "none"]
  /\ lane = [p \in Payments |-> None]
  /\ gateway = [p \in Payments |-> "none"]
  /\ refund = [r \in Refunds |-> NoRefund]
  /\ returned = [r \in Refunds |-> "none"]
  /\ told = [r \in Refunds |-> FALSE]
  /\ job = [w \in Workers |-> Idle]
  /\ faults = 0

PaymentsOf(o) == {p \in Payments : OrderOf[p] = o}

(* The partial unique index on Payment(orderId).                           *)
ActiveOf(o) == {p \in PaymentsOf(o) : payment[p] \in {"pending", "paid"}}

RefundsOf(p) == {r \in Refunds : refund[r].pay = p}
LiveRefundsOf(p) == {r \in RefundsOf(p) : refund[r].status # "failed"}
AmountOf == [r \in Refunds |-> refund[r].amount]
Total(p) == SumFunctionOnSet(AmountOf, LiveRefundsOf(p))

Free(w) == job[w].pc = "idle"
At(w, pc) == job[w].pc = pc
Do(w, task) == job' = [job EXCEPT ![w] = task]
Done(w) == Do(w, Idle)
Fault == faults < MaxFaults /\ faults' = faults + 1

OrderIs(o, s) == status' = [status EXCEPT ![o] = s]
PaymentIs(p, s) == payment' = [payment EXCEPT ![p] = s]

-----------------------------------------------------------------------------
(* createPaymentSession.                                                   *)

SessionOpen(w, o, g) ==
  /\ Free(w) /\ status[o] = "pending_payment" /\ ~ expired[o]
  /\ Do(w, [Idle EXCEPT !.pc = "session_find", !.order = o, !.lane = g])
  /\ UNCHANGED <<status, expired, payment, lane, gateway, refund, returned, told, faults>>

(* A pending payment on this lane is reused; one on another lane is        *)
(* retired first; with none a gateway order is created.                    *)
SessionFind(w) ==
  LET pending == {p \in PaymentsOf(job[w].order) : payment[p] = "pending"}
  IN /\ At(w, "session_find")
     /\ \/ pending = {} /\ Do(w, [job[w] EXCEPT !.pc = "session_insert"])
        \/ \E p \in pending : lane[p] = job[w].lane /\ Done(w)
        \/ \E p \in pending : /\ lane[p] # job[w].lane
                              /\ Do(w, [job[w] EXCEPT !.pc = "session_retire", !.pay = p])
     /\ UNCHANGED <<status, expired, payment, lane, gateway, refund, returned, told, faults>>

SessionRetire(w) ==
  /\ At(w, "session_retire")
  /\ PaymentIs(job[w].pay, "failed")
  /\ Do(w, [job[w] EXCEPT !.pc = "session_insert", !.pay = None])
  /\ UNCHANGED <<status, expired, lane, gateway, refund, returned, told, faults>>

(* The gateway order exists; the row is refused when another session has   *)
(* inserted the active payment meanwhile.                                  *)
SessionInsert(w, p) ==
  /\ At(w, "session_insert") /\ p \in PaymentsOf(job[w].order)
  /\ payment[p] = "none" /\ ActiveOf(job[w].order) = {}
  /\ PaymentIs(p, "pending")
  /\ lane' = [lane EXCEPT ![p] = job[w].lane]
  /\ gateway' = [gateway EXCEPT ![p] = "open"]
  /\ Done(w)
  /\ UNCHANGED <<status, expired, refund, returned, told, faults>>

(* Refused by the index, or the gateway could not be reached.              *)
SessionEnd(w) ==
  /\ At(w, "session_insert")
  /\ Done(w)
  /\ UNCHANGED <<status, expired, payment, lane, gateway, refund, returned, told, faults>>

-----------------------------------------------------------------------------
(* The customer pays in the gateway's widget, whatever became of the order.*)
(* Money of another amount or currency is held for review: verification,   *)
(* webhook and job look at it and claim nothing.                           *)

Authorize(p) ==
  /\ payment[p] # "none" /\ gateway[p] = "open"
  /\ \E s \in {"authorized", "mismatched"} : gateway' = [gateway EXCEPT ![p] = s]
  /\ UNCHANGED <<status, expired, payment, lane, refund, returned, told, job, faults>>

Capture(p) ==
  /\ gateway[p] = "authorized"
  /\ gateway' = [gateway EXCEPT ![p] = "captured"]
  /\ UNCHANGED <<status, expired, payment, lane, refund, returned, told, job, faults>>

(* Mutant of Verify: believes the browser.                                 *)
VerifyTrusting(w, p) ==
  /\ Free(w) /\ payment[p] \notin {"none", "paid"}
  /\ Do(w, [Idle EXCEPT !.pc = "finalize", !.pay = p])
  /\ UNCHANGED <<status, expired, payment, lane, gateway, refund, returned, told, faults>>

(* verifyRazorpayCheckout, confirmPaymentIntent, the payment.authorized    *)
(* webhook: the payment is fetched, and captured if it still has to be.    *)
Verify(w, p) ==
  /\ Free(w) /\ payment[p] \notin {"none", "paid"} /\ gateway[p] \in {"authorized", "captured"}
  /\ gateway' = [gateway EXCEPT ![p] = "captured"]
  /\ Do(w, [Idle EXCEPT !.pc = "finalize", !.pay = p])
  /\ UNCHANGED <<status, expired, payment, lane, refund, returned, told, faults>>

(* payment.captured and order.paid, delivered at least once, at any time.  *)
Webhook(w, p) ==
  /\ Free(w) /\ payment[p] # "none" /\ gateway[p] = "captured"
  /\ Do(w, [Idle EXCEPT !.pc = "finalize", !.pay = p])
  /\ UNCHANGED <<status, expired, payment, lane, gateway, refund, returned, told, faults>>

-----------------------------------------------------------------------------
(* finalizeOrderPayment, one transaction: the claim, then what it means    *)
(* for the order.                                                          *)

(* Mutant of Claimed: a failed payment is not claimed any more.            *)
ClaimedUnlessPending(p) == payment[p] # "pending"

(* Mutant of Blocked: the table without its partial unique index.          *)
NeverBlocked(p) == FALSE

Claimed(p) == payment[p] \notin {"pending", "failed"}
Blocked(p) == ActiveOf(OrderOf[p]) \ {p} # {}

(* The claim finds nothing to claim, or the unique index refuses it and    *)
(* the transaction is rolled back.                                         *)
FinalizeNothing(w) ==
  /\ At(w, "finalize") /\ (Claimed(job[w].pay) \/ Blocked(job[w].pay))
  /\ Done(w)
  /\ UNCHANGED <<status, expired, payment, lane, gateway, refund, returned, told, faults>>

Claim(w) ==
  /\ At(w, "finalize") /\ ~ Claimed(job[w].pay) /\ ~ Blocked(job[w].pay)
  /\ PaymentIs(job[w].pay, "paid")
  /\ UNCHANGED <<expired, lane, gateway, refund, returned, told, faults>>

(* In time; or late, with the same garments still free to take back.       *)
FinalizeConfirm(w) ==
  LET o == OrderOf[job[w].pay]
  IN /\ Claim(w) /\ status[o] \in {"pending_payment", "cancelled"}
     /\ OrderIs(o, "confirmed")
     /\ Done(w)

ToRefund(p, mark) == [Idle EXCEPT !.pc = "refund_read", !.pay = p, !.mark = mark]

(* Mutant of FinalizeRefund: keeps the money.                              *)
FinalizeKeep(w) == Claim(w) /\ status[OrderOf[job[w].pay]] # "pending_payment" /\ Done(w) /\ UNCHANGED status

(* Late, and the garments are gone; or a payment the order does not need.  *)
FinalizeRefund(w) ==
  LET o == OrderOf[job[w].pay]
  IN /\ Claim(w) /\ status[o] # "pending_payment"
     /\ Do(w, ToRefund(job[w].pay, status[o] = "cancelled"))
     /\ UNCHANGED status

-----------------------------------------------------------------------------
(* refundPaymentFully.                                                     *)

RefundRead(w) ==
  LET p == job[w].pay
  IN /\ At(w, "refund_read")
     /\ IF payment[p] \in {"paid", "partially_refunded"} /\ AmountPaid - Total(p) > 0
        THEN Do(w, [job[w] EXCEPT !.pc = "refund_create", !.amount = AmountPaid - Total(p)])
        ELSE Done(w)
     /\ UNCHANGED <<status, expired, payment, lane, gateway, refund, returned, told, faults>>

RefundCreate(w, r) ==
  /\ At(w, "refund_create") /\ refund[r] = NoRefund
  /\ refund' = [refund EXCEPT ![r] = [pay |-> job[w].pay, amount |-> job[w].amount, item |-> FALSE,
                                       status |-> "pending", ref |-> FALSE]]
  /\ Do(w, [job[w] EXCEPT !.pc = "refund_call", !.refund = r])
  /\ UNCHANGED <<status, expired, payment, lane, gateway, returned, told, faults>>

Deposits == Cardinality({r \in Refunds : refund[r].item}) + Cardinality({w \in Workers : At(w, "deposit_create")})

(* refundDepositForOrderItem, for some item of the order that is back: the *)
(* deposit is taken from whichever payment of the order is found.  It is   *)
(* recorded as processed whatever the gateway says of it.  Which item, and *)
(* whether it was refunded before, is in Deposits; no lock keeps requests  *)
(* apart.                                                                  *)
DepositRead(w, o) ==
  /\ Free(w) /\ status[o] = "packed" /\ Deposits < MaxDeposits
  /\ \E p \in PaymentsOf(o) :
       /\ payment[p] \in {"paid", "partially_refunded"}
       /\ Do(w, [Idle EXCEPT !.pc = "deposit_create", !.pay = p, !.amount = Deposit])
  /\ UNCHANGED <<status, expired, payment, lane, gateway, refund, returned, told, faults>>

DepositCreate(w, r) ==
  /\ At(w, "deposit_create") /\ refund[r] = NoRefund
  /\ refund' = [refund EXCEPT ![r] = [pay |-> job[w].pay, amount |-> job[w].amount, item |-> TRUE,
                                       status |-> "pending", ref |-> FALSE]]
  /\ Do(w, [job[w] EXCEPT !.pc = "refund_call", !.refund = r])
  /\ UNCHANGED <<status, expired, payment, lane, gateway, returned, told, faults>>

(* The gateway settles it at once, or accepts it and settles it later.     *)
RefundCall(w) ==
  LET r == job[w].refund
  IN /\ At(w, "refund_call")
     /\ \E s \in {"accepted", "processed"} :
          /\ returned' = [returned EXCEPT ![r] = s]
          /\ Do(w, [job[w] EXCEPT !.pc = "refund_record", !.settled = (s = "processed" \/ refund[r].item)])
     /\ UNCHANGED <<status, expired, payment, lane, gateway, refund, told, faults>>

(* The gateway refuses, or accepts and its answer is lost.                 *)
RefundError(w) ==
  /\ At(w, "refund_call") /\ Fault
  /\ \E s \in {"none", "accepted"} : returned' = [returned EXCEPT ![job[w].refund] = s]
  /\ Do(w, [job[w] EXCEPT !.pc = "refund_catch"])
  /\ UNCHANGED <<status, expired, payment, lane, gateway, refund, told>>

RefundRecord(w) ==
  LET r == job[w].refund
      s == IF job[w].settled THEN "processed" ELSE "pending"
  IN /\ At(w, "refund_record")
     /\ refund' = [refund EXCEPT ![r] = [refund[r] EXCEPT !.status = s, !.ref = TRUE]]
     /\ IF job[w].mark THEN OrderIs(OrderOf[job[w].pay], "refunded") ELSE UNCHANGED status
     /\ Do(w, [job[w] EXCEPT !.pc = "refund_sync"])
     /\ UNCHANGED <<expired, payment, lane, gateway, returned, told, faults>>

(* syncPaymentRefundStatus; its read and its write are apart in Deposits.  *)
RefundSync(w) ==
  LET p == job[w].pay
  IN /\ At(w, "refund_sync")
     /\ IF Total(p) > 0
        THEN PaymentIs(p, IF Total(p) >= AmountPaid THEN "refunded" ELSE "partially_refunded")
        ELSE UNCHANGED payment
     /\ Done(w)
     /\ UNCHANGED <<status, expired, lane, gateway, refund, returned, told, faults>>

(* The transaction, or the synchronisation after it, fails: the refund     *)
(* ends in the same catch block as one the gateway refused.                *)
RefundAbort(w) ==
  /\ At(w, "refund_record") \/ (At(w, "refund_sync") /\ job[w].refund # None)
  /\ Fault
  /\ Do(w, [job[w] EXCEPT !.pc = "refund_catch"])
  /\ UNCHANGED <<status, expired, payment, lane, gateway, refund, returned, told>>

(* Mutant of RefundCatch: a status the enum does not have.                 *)
RefundCatchUnknown(w) ==
  /\ At(w, "refund_catch")
  /\ refund' = [refund EXCEPT ![job[w].refund] = [refund[job[w].refund] EXCEPT !.status = "error"]]
  /\ Done(w)
  /\ UNCHANGED <<status, expired, payment, lane, gateway, returned, told, faults>>

RefundCatch(w) ==
  /\ At(w, "refund_catch")
  /\ refund' = [refund EXCEPT ![job[w].refund] = [refund[job[w].refund] EXCEPT !.status = "failed"]]
  /\ Done(w)
  /\ UNCHANGED <<status, expired, payment, lane, gateway, returned, told, faults>>

(* Later, the gateway settles an accepted refund or gives it up ...        *)
Settle(r) ==
  /\ returned[r] = "accepted"
  /\ \E s \in {"processed", "failed"} : returned' = [returned EXCEPT ![r] = s]
  /\ UNCHANGED <<status, expired, payment, lane, gateway, refund, told, job, faults>>

(* ... and says so until it is acknowledged.  The row is looked up by the  *)
(* gateway's reference; without one the event is acknowledged and ignored. *)
RefundWebhook(w, r) ==
  /\ Free(w) /\ returned[r] \in {"processed", "failed"} /\ ~ told[r]
  /\ told' = [told EXCEPT ![r] = TRUE] \/ (refund[r].ref /\ UNCHANGED told)
  /\ IF refund[r].ref
     THEN /\ refund' = [refund EXCEPT ![r] = [refund[r] EXCEPT !.status = returned[r]]]
          /\ Do(w, [Idle EXCEPT !.pc = "refund_sync", !.pay = refund[r].pay])
     ELSE UNCHANGED <<refund, job>>
  /\ UNCHANGED <<status, expired, payment, lane, gateway, returned, faults>>

-----------------------------------------------------------------------------
(* Closing and cancelling.                                                 *)

(* closeUnpaidOrder: the open payment fails with its order.                *)
Close(o) ==
  /\ status[o] = "pending_payment"
  /\ OrderIs(o, "cancelled")
  /\ payment' = [p \in Payments |-> IF OrderOf[p] = o /\ payment[p] = "pending" THEN "failed" ELSE payment[p]]

(* Cancelled unpaid by the customer, superseded by a newer checkout, or    *)
(* its payment was cancelled at the gateway (Stripe).                      *)
CancelUnpaid(o) ==
  /\ Close(o)
  /\ UNCHANGED <<expired, lane, gateway, refund, returned, told, job, faults>>

(* Mutant of CancelPaid: refunds first and leaves the order as it is.      *)
CancelPaidRefundFirst(w, o) ==
  /\ Free(w) /\ status[o] = "confirmed"
  /\ Do(w, [Idle EXCEPT !.pc = "cancel_find", !.order = o])
  /\ UNCHANGED <<status, expired, payment, lane, gateway, refund, returned, told, faults>>

(* Mutant of CancelPaid: a second cancellation does not see the first.     *)
CancelPaidTwice(w, o) ==
  /\ Free(w) /\ status[o] \in {"confirmed", "cancelled"}
  /\ OrderIs(o, "cancelled")
  /\ Do(w, [Idle EXCEPT !.pc = "cancel_find", !.order = o])
  /\ UNCHANGED <<expired, payment, lane, gateway, refund, returned, told, faults>>

CancelPaid(w, o) ==
  /\ Free(w) /\ status[o] = "confirmed"
  /\ OrderIs(o, "cancelled")
  /\ Do(w, [Idle EXCEPT !.pc = "cancel_find", !.order = o])
  /\ UNCHANGED <<expired, payment, lane, gateway, refund, returned, told, faults>>

CancelFind(w) ==
  LET paid == {p \in PaymentsOf(job[w].order) : payment[p] \in {"paid", "partially_refunded"}}
  IN /\ At(w, "cancel_find")
     /\ \/ paid = {} /\ Done(w)
        \/ \E p \in paid : Do(w, ToRefund(p, TRUE))
     /\ UNCHANGED <<status, expired, payment, lane, gateway, refund, returned, told, faults>>

Pack(o) ==
  /\ status[o] = "confirmed"
  /\ OrderIs(o, "packed")
  /\ UNCHANGED <<expired, payment, lane, gateway, refund, returned, told, job, faults>>

Expire(o) ==
  /\ ~ expired[o]
  /\ expired' = [expired EXCEPT ![o] = TRUE]
  /\ UNCHANGED <<status, payment, lane, gateway, refund, returned, told, job, faults>>

-----------------------------------------------------------------------------
(* runReleaseAbandonedReservationsJob, for one order.                      *)

(* Mutant of JobRead: looks only at orders somebody tried to pay.          *)
JobReadPaying(w, o) ==
  /\ Free(w) /\ status[o] = "pending_payment" /\ expired[o] /\ ActiveOf(o) # {}
  /\ Do(w, [Idle EXCEPT !.pc = "job_check", !.order = o, !.todo = ActiveOf(o)])
  /\ UNCHANGED <<status, expired, payment, lane, gateway, refund, returned, told, faults>>

JobRead(w, o) ==
  /\ Free(w) /\ status[o] = "pending_payment" /\ expired[o]
  /\ Do(w, [Idle EXCEPT !.pc = "job_check", !.order = o,
                        !.todo = {p \in PaymentsOf(o) : payment[p] \in {"pending", "failed"}}])
  /\ UNCHANGED <<status, expired, payment, lane, gateway, refund, returned, told, faults>>

(* reconcile: the first payment found paid ends the run for this order.    *)
JobReconcile(w, p) ==
  /\ At(w, "job_check") /\ p \in job[w].todo
  /\ IF gateway[p] \in {"authorized", "captured"}
     THEN /\ gateway' = [gateway EXCEPT ![p] = "captured"]
          /\ Do(w, [Idle EXCEPT !.pc = "finalize", !.pay = p])
     ELSE /\ Do(w, [job[w] EXCEPT !.todo = job[w].todo \ {p}])
          /\ UNCHANGED gateway
  /\ UNCHANGED <<status, expired, payment, lane, refund, returned, told, faults>>

JobClose(w) ==
  /\ At(w, "job_check") /\ job[w].todo = {}
  /\ IF status[job[w].order] = "pending_payment" THEN Close(job[w].order) ELSE UNCHANGED <<status, payment>>
  /\ Done(w)
  /\ UNCHANGED <<expired, lane, gateway, refund, returned, told, faults>>

(* The process dies between two steps; or the gateway cannot be reached    *)
(* and the job leaves the order to its next run.                           *)
Crash(w) ==
  /\ ~ Free(w) /\ Fault
  /\ Done(w)
  /\ UNCHANGED <<status, expired, payment, lane, gateway, refund, returned, told>>

-----------------------------------------------------------------------------
Session(w) ==
  \/ \E o \in Orders : \E g \in Gateways : SessionOpen(w, o, g)
  \/ SessionFind(w) \/ SessionRetire(w) \/ SessionEnd(w)
  \/ \E p \in Payments : SessionInsert(w, p)

Finalize(w) == FinalizeNothing(w) \/ FinalizeConfirm(w) \/ FinalizeRefund(w)

Refund(w) ==
  \/ RefundRead(w) \/ RefundCall(w) \/ RefundError(w) \/ RefundRecord(w) \/ RefundSync(w) \/ RefundAbort(w)
  \/ RefundCatch(w)
  \/ \E r \in Refunds : RefundCreate(w, r) \/ DepositCreate(w, r) \/ RefundWebhook(w, r)
  \/ \E o \in Orders : DepositRead(w, o)

ReleaseJob(w) ==
  \/ \E o \in Orders : JobRead(w, o)
  \/ \E p \in Payments : JobReconcile(w, p)
  \/ JobClose(w)

Customer ==
  \/ \E p \in Payments : Authorize(p) \/ Capture(p)
  \/ \E o \in Orders : CancelUnpaid(o)

Next ==
  \/ \E w \in Workers : Session(w) \/ Finalize(w) \/ Refund(w) \/ ReleaseJob(w) \/ CancelFind(w) \/ Crash(w)
  \/ \E w \in Workers : \E p \in Payments : Verify(w, p) \/ Webhook(w, p)
  \/ \E w \in Workers : \E o \in Orders : CancelPaid(w, o)
  \/ Customer
  \/ \E o \in Orders : Pack(o) \/ Expire(o)
  \/ \E r \in Refunds : Settle(r)

Spec == Init /\ [][Next]_vars

(* A request in progress goes on; the gateway repeats what it has to say   *)
(* until it is heard; the hold runs out and the scheduler runs the job.    *)
(* The gateway and the scheduler find a free worker in the end.            *)
Progress(w) ==
  \/ SessionFind(w) \/ SessionRetire(w) \/ SessionEnd(w) \/ Finalize(w) \/ CancelFind(w)
  \/ RefundRead(w) \/ RefundCall(w) \/ RefundRecord(w) \/ RefundSync(w) \/ RefundCatch(w)
  \/ \E r \in Refunds : RefundCreate(w, r) \/ DepositCreate(w, r)
  \/ \E p \in Payments : JobReconcile(w, p)
  \/ JobClose(w)

Fairness ==
  /\ \A w \in Workers : WF_vars(Progress(w))
  /\ \A p \in Payments : SF_vars(\E w \in Workers : Webhook(w, p)) /\ WF_vars(Capture(p))
  /\ \A r \in Refunds : SF_vars(\E w \in Workers : RefundWebhook(w, r)) /\ WF_vars(Settle(r))
  /\ \A o \in Orders : WF_vars(Expire(o)) /\ SF_vars(\E w \in Workers : JobRead(w, o))

FairSpec == Spec /\ Fairness

-----------------------------------------------------------------------------
(* Properties.                                                             *)

(* The payment pays its order: recorded, captured, and nothing of it goes  *)
(* back but deposits.                                                      *)
Keeps(p) ==
  /\ payment[p] \in Taken /\ gateway[p] = "captured"
  /\ \A r \in RefundsOf(p) : refund[r].item

(* An order that is confirmed, packed or under way has been paid: some     *)
(* payment of it is recorded, the gateway has the money, and nobody is     *)
(* giving it back; deposits go back, and only once the order was packed.   *)
(* finalize.ts confirms, refunds.ts, orders/service.ts and payments/       *)
(* service.ts refund, in requests that overlap; a deposit refund frees the *)
(* payment's place in the unique index, and another payment may be claimed.*)
KeptOrdersArePaid ==
  \A o \in Orders : status[o] \in {"confirmed", "packed"} =>
    \E p \in PaymentsOf(o) : Keeps(p) /\ (status[o] = "confirmed" => payment[p] = "paid" /\ RefundsOf(p) = {})

(* Nothing is shipped or refunded on the client's word: what the tables    *)
(* call paid, and an order that stands, has money behind it, even when the *)
(* gateway configuration changes under open sessions (payments/service.ts  *)
(* "never a client claim").                                                *)
PaidMeansCaptured ==
  /\ \A p \in Payments : payment[p] \in Taken => gateway[p] = "captured"
  /\ \A o \in Orders : status[o] \in {"confirmed", "packed"} =>
       \E p \in PaymentsOf(o) : gateway[p] = "captured"

(* No payment is refunded as a whole twice at the gateway, through crashes,*)
(* lost answers and repeated webhooks (refunds.ts counts the rows it made).*)
RefundedOnce ==
  \A p \in Payments : Cardinality({r \in RefundsOf(p) : ~ refund[r].item /\ returned[r] # "none"}) <= 1

(* Money goes back only for a payment that was captured and claimed: a     *)
(* deposit of an order that was packed; otherwise the payment of an order  *)
(* that is closed, or a payment the order does not need because another    *)
(* one keeps it ("a second payment on an order that's already confirmed by *)
(* another one", refunds.ts).  refundPaymentFully never looks at the order.*)
RefundsAreOwed ==
  \A r \in Refunds : refund[r].pay # None =>
    LET p == refund[r].pay
        o == OrderOf[p]
    IN /\ gateway[p] = "captured" /\ payment[p] \in Taken
       /\ IF refund[r].item THEN status[o] = "packed"
          ELSE status[o] \in {"cancelled", "refunded"}
               \/ (status[o] = "packed" /\ \E q \in PaymentsOf(o) \ {p} : Keeps(q))

(* docs section H: the only moves an order makes; a closed order reopens   *)
(* only by being paid, a refunded one never, and only a closed one becomes *)
(* refunded, although refunds.ts writes that status without a guard.       *)
Lifecycle ==
  [][\A o \in Orders : status'[o] # status[o] =>
       <<status[o], status'[o]>> \in
         {<<"pending_payment", "confirmed">>, <<"pending_payment", "cancelled">>, <<"confirmed", "packed">>,
          <<"confirmed", "cancelled">>, <<"cancelled", "confirmed">>, <<"cancelled", "refunded">>}]_vars

(* A hold that has run out does not stay: the order is paid or its stock   *)
(* is released, whatever crashes.                                          *)
HoldsEnd == \A o \in Orders : (status[o] = "pending_payment" /\ expired[o]) ~> (status[o] # "pending_payment")

(* Money the gateway took is recorded by the shop, after whatever crash,   *)
(* unless another active payment of the order stands in the index's way:   *)
(* "Safe to call any number of times" (finalize.ts), "a customer who       *)
(* closes the tab right after paying waits for the next job run".          *)
CapturedIsClaimed ==
  \A p \in Payments : (gateway[p] = "captured")
    ~> (payment[p] \in Taken \/ ActiveOf(OrderOf[p]) \ {p} # {})

(* Money kept for a cancelled order is refunded, unless a request died, an *)
(* answer was lost or the gateway refused (refunds.ts, finalize.ts).       *)
RefundsComplete ==
  \A p \in Payments : (status[OrderOf[p]] = "cancelled" /\ payment[p] = "paid")
    ~> (status[OrderOf[p]] = "refunded" \/ faults > 0)

(* The requests, row by row, implement the ledger of OrderMoney: while one *)
(* payment is kept in full no other is taken, and money goes back once, of *)
(* orders that no longer stand or that another payment keeps.              *)
Account == [o \in Orders |-> IF status[o] = "pending_payment" THEN "open"
                             ELSE IF status[o] \in {"confirmed", "packed"} THEN "paid"
                             ELSE IF status[o] = "cancelled" THEN "closed" ELSE "refunded"]
Money == [p \in Payments |->
            IF \E r \in RefundsOf(p) : ~ refund[r].item /\ returned[r] # "none" THEN "back"
            ELSE IF payment[p] \in {"partially_refunded", "refunded"} THEN "part"
            ELSE IF payment[p] = "paid" THEN "in" ELSE "out"]
Ledger == INSTANCE OrderMoney WITH account <- Account, money <- Money
MoneyIsAccounted == Ledger!MSpec
=============================================================================
