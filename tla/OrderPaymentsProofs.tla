------------------------ MODULE OrderPaymentsProofs ------------------------
(***************************************************************************)
(* An order that stands is paid, and its money is not on the way back, for *)
(* any number of orders, payments, requests and faults, as long as the     *)
(* deployed configuration keeps to one gateway (with two, a session opened *)
(* before the change can undo a claim: PaymentClaims).  That what is       *)
(* called paid was captured holds with any number of gateways.             *)
(*                                                                         *)
(* The argument: until an order is packed, a payment of it that is being   *)
(* refunded stays recorded as paid until the order is marked refunded, and *)
(* the unique index lets no other payment be claimed meanwhile; so a       *)
(* closed order whose refund is under way cannot reopen.  Once it is       *)
(* packed, deposits free the index, another payment may be claimed and is  *)
(* given back; but the payment that was there when the order was packed is *)
(* never one that a full refund looks at.                                  *)
(***************************************************************************)
EXTENDS OrderPayments, SumTheorems

OneLane == \E g \in Gateways : Gateways = {g}

OneActivePayment ==
  \A p, q \in Payments :
    (OrderOf[p] = OrderOf[q] /\ payment[p] \in {"pending", "paid"} /\ payment[q] \in {"pending", "paid"}) => p = q

PaymentInv(p) ==
  /\ payment[p] \in Taken => gateway[p] = "captured"
  /\ payment[p] = "refunded" => status[OrderOf[p]] \in {"refunded", "packed"}
  /\ payment[p] = "partially_refunded" => status[OrderOf[p]] = "packed"
  /\ payment[p] # "none" => lane[p] \in Gateways
  /\ payment[p] = "none" => gateway[p] = "none"

OrderInv(o) ==
  status[o] = "confirmed" => \E p \in PaymentsOf(o) : payment[p] = "paid"

(* Whose refund it is and how much: until the order is packed every refund *)
(* is of the whole payment.                                                *)
RefundInv(r) ==
  /\ refund[r].ref => refund[r].pay # None
  /\ refund[r].pay # None =>
       /\ payment[refund[r].pay] \in Taken
       /\ status[OrderOf[refund[r].pay]] \in {"cancelled", "refunded", "packed"}
       /\ refund[r].ref => status[OrderOf[refund[r].pay]] \in {"refunded", "packed"}
       /\ \/ status[OrderOf[refund[r].pay]] = "packed"
          \/ ~ refund[r].item /\ refund[r].amount = AmountPaid

(* What a request that is refunding payment p may rely on.                 *)
Refunding(p, mark) ==
  /\ p \in Payments
  /\ payment[p] \in Taken
  /\ status[OrderOf[p]] \in (IF mark THEN {"cancelled", "refunded"} ELSE {"refunded", "packed"})

(* The request has a Refund row it may still have to mark as failed.       *)
OwesRefund(w) ==
  \/ job[w].pc \in {"refund_call", "refund_record", "refund_catch"}
  \/ At(w, "refund_sync") /\ job[w].refund # None

JobInv(w) ==
  /\ ~ At(w, "session_retire")
  /\ job[w].pc \in {"session_find", "session_insert"} => job[w].order \in Orders /\ job[w].lane \in Gateways
  /\ At(w, "finalize") => job[w].pay \in Payments /\ gateway[job[w].pay] = "captured"
  /\ At(w, "cancel_find") =>
       /\ job[w].order \in Orders
       /\ \/ status[job[w].order] = "refunded"
          \/ status[job[w].order] = "cancelled" /\ \E p \in PaymentsOf(job[w].order) : payment[p] = "paid"
  /\ job[w].pc \in {"refund_read", "refund_create", "deposit_create"} \/ OwesRefund(w) =>
       Refunding(job[w].pay, job[w].mark)
  /\ At(w, "deposit_create") => status[OrderOf[job[w].pay]] = "packed"
  /\ At(w, "refund_create") => status[OrderOf[job[w].pay]] = "packed" \/ job[w].amount = AmountPaid
  /\ OwesRefund(w) => job[w].refund \in Refunds /\ refund[job[w].refund].pay = job[w].pay
  /\ At(w, "refund_sync") => job[w].pay \in Payments /\ status[OrderOf[job[w].pay]] \in {"refunded", "packed"}
  /\ At(w, "job_check") => job[w].order \in Orders

TablesInv ==
  /\ OneActivePayment
  /\ \A p \in Payments : PaymentInv(p)
  /\ \A o \in Orders : OrderInv(o)

IInv ==
  /\ TypeOK
  /\ TablesInv
  /\ \A r \in Refunds : RefundInv(r)
  /\ \A w \in Workers : JobInv(w)

-----------------------------------------------------------------------------
(* Type correctness.                                                       *)

LEMMA Tasks ==
  /\ Idle \in JobType
  /\ \A o \in Orders, g \in Gateways :
       [Idle EXCEPT !.pc = "session_find", !.order = o, !.lane = g] \in JobType
  /\ \A p \in Payments : [Idle EXCEPT !.pc = "finalize", !.pay = p] \in JobType
  /\ \A p \in Payments \cup {None} : [Idle EXCEPT !.pc = "refund_sync", !.pay = p] \in JobType
  /\ \A p \in Payments \cup {None}, m \in BOOLEAN : ToRefund(p, m) \in JobType
  /\ \A p \in Payments : [Idle EXCEPT !.pc = "deposit_create", !.pay = p, !.amount = Deposit] \in JobType
  /\ \A o \in Orders : [Idle EXCEPT !.pc = "cancel_find", !.order = o] \in JobType
  /\ \A o \in Orders, S \in SUBSET Payments :
       [Idle EXCEPT !.pc = "job_check", !.order = o, !.todo = S] \in JobType
<1>1. 0 \in 0..AmountPaid /\ Deposit \in 0..AmountPaid
  BY AmountsAssumption
<1>. QED
  BY <1>1 DEF Idle, JobType, Pcs, ToRefund

LEMMA TaskEdits ==
  ASSUME NEW t \in JobType, NEW pc \in Pcs
  PROVE  /\ [t EXCEPT !.pc = pc] \in JobType
         /\ \A p \in Payments \cup {None} : [t EXCEPT !.pc = pc, !.pay = p] \in JobType
         /\ \A r \in Refunds : [t EXCEPT !.pc = pc, !.refund = r] \in JobType
         /\ \A b \in BOOLEAN : [t EXCEPT !.pc = pc, !.settled = b] \in JobType
         /\ \A a \in 0..AmountPaid : [t EXCEPT !.pc = pc, !.amount = a] \in JobType
         /\ \A S \in SUBSET Payments : [t EXCEPT !.todo = S] \in JobType
         /\ t.pay \in Payments \cup {None} /\ t.lane \in Gateways \cup {None} /\ t.todo \subseteq Payments
         /\ t.order \in Orders \cup {None} /\ t.refund \in Refunds \cup {None} /\ t.mark \in BOOLEAN
         /\ t.amount \in 0..AmountPaid
BY DEF JobType

LEMMA RefundEdits ==
  /\ \A p \in Payments \cup {None}, a \in 0..AmountPaid, i \in BOOLEAN :
       [pay |-> p, amount |-> a, item |-> i, status |-> "pending", ref |-> FALSE] \in RefundType
  /\ \A t \in RefundType, s \in {"none", "pending", "processed", "failed"} :
       /\ [t EXCEPT !.status = s] \in RefundType
       /\ [t EXCEPT !.status = s, !.ref = TRUE] \in RefundType
       /\ t.pay \in Payments \cup {None} /\ t.amount \in 0..AmountPaid /\ t.item \in BOOLEAN
BY DEF RefundType

(* What has been refunded of a payment: nothing without a row of it; and   *)
(* all of it as soon as one live row is for all of it.                     *)
LEMMA Totals ==
  ASSUME TypeOK, NEW p
  PROVE  /\ Total(p) \in Nat
         /\ Total(p) > 0 => \E r \in Refunds : refund[r].pay = p
         /\ (\A r \in Refunds : refund[r].pay = p => refund[r].amount = AmountPaid)
              => Total(p) = 0 \/ Total(p) >= AmountPaid
<1>. DEFINE L == LiveRefundsOf(p)
<1>1. L \subseteq Refunds /\ IsFiniteSet(L) /\ \A r \in L : refund[r].pay = p
  BY RefundsAssumption, FS_Subset DEF LiveRefundsOf, RefundsOf
<1>2. \A r \in L : AmountOf[r] = refund[r].amount /\ AmountOf[r] \in Nat
  <2>1. ASSUME NEW r \in L PROVE refund[r].amount \in 0..AmountPaid
    BY <1>1, RefundEdits DEF TypeOK
  <2>. QED  BY <1>1, <2>1, AmountsAssumption DEF AmountOf
<1>3. Total(p) = SumOver(AmountOf, L)
  BY DEF Total, SumOver
<1>. HIDE DEF L
<1>4. SumOver(AmountOf, L) \in Nat
  BY <1>1, <1>2, SumIsNat
<1>5. CASE L = {}
  <2>1. SumOver(AmountOf, L) = 0
    BY <1>1, <1>2, <1>5, SumSteps
  <2>. QED  BY <1>3, <2>1
<1>6. ASSUME NEW x \in L PROVE SumOver(AmountOf, L) >= AmountOf[x]
  BY <1>1, <1>2, SumHasItsTerms
<1>. QED
  BY <1>1, <1>2, <1>3, <1>4, <1>5, <1>6

LEMMA Doing ==
  ASSUME job \in [Workers -> JobType], NEW w \in Workers, NEW t \in JobType, Do(w, t)
  PROVE  /\ job' \in [Workers -> JobType]
         /\ job'[w] = t
         /\ \A v \in Workers \ {w} : job'[v] = job[v]
BY DEF Do

(* What the rows may become.                                               *)
LEMMA RowEdits ==
  ASSUME TypeOK
  PROVE  /\ \A p, s : s \in PaymentStatuses /\ PaymentIs(p, s) => payment' \in [Payments -> PaymentStatuses]
         /\ \A o, s : s \in Statuses /\ OrderIs(o, s) => status' \in [Orders -> Statuses]
         /\ \A o : Close(o) => /\ status' \in [Orders -> Statuses]
                              /\ payment' \in [Payments -> PaymentStatuses]
         /\ Fault => faults' \in Nat
         /\ \A w \in Workers : job[w] \in JobType
BY DEF TypeOK, PaymentIs, OrderIs, Close, Fault, PaymentStatuses, Statuses

LEMMA TypeSession ==
  ASSUME TypeOK, NEW w \in Workers, Session(w)
  PROVE  TypeOK'
<1>1. job[w] \in JobType /\ job \in [Workers -> JobType]
  BY DEF TypeOK
<1>2. {"session_find", "session_retire", "session_insert", "idle"} \subseteq Pcs
  BY DEF Pcs
<1>3. CASE \E o \in Orders : \E g \in Gateways : SessionOpen(w, o, g)
  BY <1>1, <1>3, Tasks, Doing DEF SessionOpen, TypeOK
<1>4. CASE SessionFind(w)
  BY <1>1, <1>2, <1>4, Tasks, TaskEdits, Doing DEF SessionFind, TypeOK, Done, PaymentsOf
<1>5. CASE SessionRetire(w)
  BY <1>1, <1>2, <1>5, TaskEdits, Doing, RowEdits DEF SessionRetire, TypeOK, PaymentStatuses
<1>6. CASE SessionEnd(w)
  BY <1>1, <1>6, Tasks, Doing DEF SessionEnd, TypeOK, Done
<1>7. CASE \E p \in Payments : SessionInsert(w, p)
  <2>1. PICK p \in Payments : SessionInsert(w, p)
    BY <1>7
  <2>2. payment' \in [Payments -> PaymentStatuses]
    BY <2>1, RowEdits DEF SessionInsert, PaymentStatuses
  <2>3. job' \in [Workers -> JobType]
    BY <2>1, <1>1, Tasks, Doing DEF SessionInsert, Done
  <2>4. /\ lane' \in [Payments -> Gateways \cup {None}]
        /\ gateway' \in [Payments -> GatewayStates]
    BY <2>1, <1>1, TaskEdits, <1>2 DEF SessionInsert, TypeOK, GatewayStates
  <2>5. QED
    BY <2>1, <2>2, <2>3, <2>4 DEF SessionInsert, TypeOK
<1>8. QED
  BY <1>3, <1>4, <1>5, <1>6, <1>7 DEF Session

LEMMA TypeFinalize ==
  ASSUME TypeOK, NEW w \in Workers, Finalize(w)
  PROVE  TypeOK'
<1>1. job[w] \in JobType /\ job \in [Workers -> JobType] /\ "idle" \in Pcs
  BY DEF TypeOK, Pcs
<1>2. job[w].pay \in Payments \cup {None}
  BY <1>1, TaskEdits
<1>3. CASE FinalizeNothing(w)
  BY <1>1, <1>3, Tasks, Doing DEF FinalizeNothing, TypeOK, Done
<1>4. CASE FinalizeConfirm(w)
  BY <1>1, <1>4, Tasks, Doing, RowEdits DEF FinalizeConfirm, Claim, TypeOK, Done, Statuses, PaymentStatuses
<1>5. CASE FinalizeRefund(w)
  BY <1>1, <1>2, <1>5, Tasks, Doing, RowEdits DEF FinalizeRefund, Claim, TypeOK, PaymentStatuses
<1>6. QED
  BY <1>3, <1>4, <1>5 DEF Finalize

LEMMA TypeRefund ==
  ASSUME TypeOK, NEW w \in Workers, Refund(w)
  PROVE  TypeOK'
<1>1. job[w] \in JobType /\ job \in [Workers -> JobType]
  BY DEF TypeOK
<1>2. {"refund_create", "refund_call", "refund_record", "refund_sync", "refund_catch"} \subseteq Pcs
  BY DEF Pcs
<1>3. job[w].pay \in Payments \cup {None}
  BY <1>1, <1>2, TaskEdits
<1>4. CASE RefundRead(w)
  <2>1. job' \in [Workers -> JobType]
    <3>1. CASE Done(w)
      BY <1>1, <3>1, Tasks, Doing DEF Done
    <3>2. ASSUME AmountPaid - Total(job[w].pay) > 0,
                 Do(w, [job[w] EXCEPT !.pc = "refund_create", !.amount = AmountPaid - Total(job[w].pay)])
          PROVE  job' \in [Workers -> JobType]
      <4>1. AmountPaid - Total(job[w].pay) \in 0..AmountPaid
        BY <3>2, Totals, AmountsAssumption
      <4>. QED  BY <1>1, <1>2, <3>2, <4>1, TaskEdits, Doing
    <3>. QED  BY <1>4, <3>1, <3>2 DEF RefundRead
  <2>. QED  BY <1>4, <2>1 DEF RefundRead, TypeOK
<1>5. CASE \E r \in Refunds : RefundCreate(w, r) \/ DepositCreate(w, r)
  <2>1. PICK r \in Refunds, i \in BOOLEAN :
          /\ refund' = [refund EXCEPT ![r] = [pay |-> job[w].pay, amount |-> job[w].amount, item |-> i,
                                              status |-> "pending", ref |-> FALSE]]
          /\ Do(w, [job[w] EXCEPT !.pc = "refund_call", !.refund = r])
          /\ UNCHANGED <<status, expired, payment, lane, gateway, returned, told, faults>>
    BY <1>5 DEF RefundCreate, DepositCreate
  <2>2. job[w].amount \in 0..AmountPaid
    BY <1>1, <1>2, TaskEdits
  <2>3. refund' \in [Refunds -> RefundType]
    BY <1>3, <2>1, <2>2, RefundEdits DEF TypeOK
  <2>4. job' \in [Workers -> JobType]
    BY <1>1, <1>2, <2>1, TaskEdits, Doing
  <2>. QED  BY <2>1, <2>3, <2>4 DEF TypeOK
<1>6. CASE RefundCall(w)
  <2>1. PICK s \in {"accepted", "processed"} :
          /\ returned' = [returned EXCEPT ![job[w].refund] = s]
          /\ Do(w, [job[w] EXCEPT !.pc = "refund_record",
                                  !.settled = (s = "processed" \/ refund[job[w].refund].item)])
    BY <1>6 DEF RefundCall
  <2>2. (s = "processed" \/ refund[job[w].refund].item) \in BOOLEAN
    OBVIOUS
  <2>3. job' \in [Workers -> JobType]
    BY <1>1, <1>2, <2>1, <2>2, TaskEdits, Doing
  <2>. QED  BY <1>6, <2>1, <2>3 DEF RefundCall, TypeOK
<1>7. CASE RefundError(w) \/ RefundAbort(w)
  BY <1>1, <1>2, <1>7, TaskEdits, Doing, RowEdits DEF RefundError, RefundAbort, TypeOK
<1>8. CASE RefundRecord(w)
  <2>1. refund' \in [Refunds -> RefundType]
    BY <1>8, RefundEdits DEF RefundRecord, TypeOK
  <2>2. status' \in [Orders -> Statuses]
    BY <1>8, RowEdits DEF RefundRecord, TypeOK, Statuses
  <2>3. job' \in [Workers -> JobType]
    BY <1>1, <1>2, <1>8, TaskEdits, Doing DEF RefundRecord
  <2>4. QED
    BY <1>8, <2>1, <2>2, <2>3 DEF RefundRecord, TypeOK
<1>9. CASE RefundSync(w)
  <2>1. payment' \in [Payments -> PaymentStatuses]
    <3>1. CASE payment' = payment
      BY <3>1 DEF TypeOK
    <3>2. ASSUME NEW s \in {"refunded", "partially_refunded"}, PaymentIs(job[w].pay, s)
          PROVE  payment' \in [Payments -> PaymentStatuses]
      BY <3>2, RowEdits DEF PaymentStatuses
    <3>. QED  BY <1>9, <3>1, <3>2 DEF RefundSync
  <2>. QED  BY <1>1, <1>9, <2>1, Tasks, Doing DEF RefundSync, TypeOK, Done
<1>10. CASE RefundCatch(w)
  BY <1>1, <1>10, Tasks, RefundEdits, Doing DEF RefundCatch, TypeOK, Done
<1>11. CASE \E r \in Refunds : RefundWebhook(w, r)
  <2>1. PICK r \in Refunds : RefundWebhook(w, r)
    BY <1>11
  <2>2. refund' \in [Refunds -> RefundType]
    <3>1. refund[r] \in RefundType /\ returned[r] \in {"none", "pending", "processed", "failed"}
      BY <2>1 DEF RefundWebhook, TypeOK
    <3>2. [refund[r] EXCEPT !.status = returned[r]] \in RefundType
      BY <3>1, RefundEdits
    <3>3. QED
      BY <2>1, <3>2 DEF RefundWebhook, TypeOK
  <2>3. refund[r].pay \in Payments \cup {None}
    BY RefundEdits DEF TypeOK
  <2>4. job' \in [Workers -> JobType]
    BY <2>1, <2>3, <1>1, Tasks, Doing DEF RefundWebhook
  <2>5. QED
    BY <2>1, <2>2, <2>4 DEF RefundWebhook, TypeOK
<1>12. CASE \E o \in Orders : DepositRead(w, o)
  BY <1>1, <1>12, Tasks, Doing DEF DepositRead, TypeOK, PaymentsOf
<1>13. QED
  BY <1>4, <1>5, <1>6, <1>7, <1>8, <1>9, <1>10, <1>11, <1>12 DEF Refund

LEMMA TypeJob ==
  ASSUME TypeOK, NEW w \in Workers, ReleaseJob(w)
  PROVE  TypeOK'
<1>1. job[w] \in JobType /\ job \in [Workers -> JobType] /\ "idle" \in Pcs
  BY DEF TypeOK, Pcs
<1>2. CASE \E o \in Orders : JobRead(w, o)
  <2>1. PICK o \in Orders : JobRead(w, o)
    BY <1>2
  <2>2. {p \in PaymentsOf(o) : payment[p] \in {"pending", "failed"}} \in SUBSET Payments
    BY DEF PaymentsOf
  <2>3. QED
    BY <1>1, <2>1, <2>2, Tasks, Doing DEF JobRead, TypeOK
<1>3. CASE \E p \in Payments : JobReconcile(w, p)
  <2>1. PICK p \in Payments : JobReconcile(w, p)
    BY <1>3
  <2>2. job[w].todo \ {p} \in SUBSET Payments
    BY <1>1, TaskEdits
  <2>3. job' \in [Workers -> JobType]
    BY <1>1, <2>1, <2>2, Tasks, TaskEdits, Doing DEF JobReconcile
  <2>4. gateway' \in [Payments -> GatewayStates]
    BY <2>1 DEF JobReconcile, TypeOK, GatewayStates
  <2>5. QED
    BY <2>1, <2>3, <2>4 DEF JobReconcile, TypeOK
<1>4. CASE JobClose(w)
  BY <1>1, <1>4, Tasks, Doing, RowEdits DEF JobClose, TypeOK, Done
<1>5. QED
  BY <1>2, <1>3, <1>4 DEF ReleaseJob

LEMMA TypeStep == TypeOK /\ [Next]_vars => TypeOK'
<1> SUFFICES ASSUME TypeOK, [Next]_vars PROVE TypeOK'
  OBVIOUS
<1>1. ASSUME NEW w \in Workers, CancelFind(w) PROVE TypeOK'
  <2>1. job[w] \in JobType /\ job \in [Workers -> JobType]
    BY DEF TypeOK
  <2>2. \A p \in PaymentsOf(job[w].order) : p \in Payments \cup {None}
    BY DEF PaymentsOf
  <2>3. QED
    BY <1>1, <2>1, <2>2, Tasks, Doing DEF CancelFind, TypeOK, Done
<1>2. ASSUME NEW w \in Workers, Crash(w) PROVE TypeOK'
  BY <1>2, Tasks, Doing, RowEdits DEF Crash, TypeOK, Done
<1>3. ASSUME NEW w \in Workers, NEW p \in Payments, Verify(w, p) \/ Webhook(w, p) PROVE TypeOK'
  BY <1>3, Tasks, Doing DEF Verify, Webhook, TypeOK, GatewayStates
<1>4. ASSUME NEW w \in Workers, NEW o \in Orders, CancelPaid(w, o) PROVE TypeOK'
  BY <1>4, Tasks, Doing, RowEdits DEF CancelPaid, TypeOK, Statuses
<1>5. ASSUME Customer PROVE TypeOK'
  BY <1>5, RowEdits DEF Customer, Authorize, Capture, CancelUnpaid, TypeOK, GatewayStates
<1>6. ASSUME NEW o \in Orders, Pack(o) \/ Expire(o) PROVE TypeOK'
  BY <1>6, RowEdits DEF Pack, Expire, TypeOK, Statuses
<1>7. ASSUME NEW r \in Refunds, Settle(r) PROVE TypeOK'
  BY <1>7 DEF Settle, TypeOK
<1>8. ASSUME UNCHANGED vars PROVE TypeOK'
  BY <1>8 DEF vars, TypeOK
<1>9. QED
  BY <1>1, <1>2, <1>3, <1>4, <1>5, <1>6, <1>7, <1>8, TypeSession, TypeFinalize, TypeRefund, TypeJob DEF Next

LEMMA TypeInit == Init => TypeOK
<1> SUFFICES ASSUME Init PROVE TypeOK
  OBVIOUS
<1>1. NoRefund \in RefundType
  BY AmountsAssumption DEF NoRefund, RefundType
<1>2. refund \in [Refunds -> RefundType] /\ job \in [Workers -> JobType]
  BY <1>1, Tasks DEF Init
<1>3. status \in [Orders -> Statuses] /\ payment \in [Payments -> PaymentStatuses]
  BY DEF Init, Statuses, PaymentStatuses
<1>4. lane \in [Payments -> Gateways \cup {None}] /\ faults \in Nat
  BY DEF Init
<1>5. QED
  BY <1>2, <1>3, <1>4 DEF Init, TypeOK, GatewayStates

(* Every variable keeps its type, whatever the requests do.                *)
THEOREM TypeCorrect == Spec => []TypeOK
BY TypeInit, TypeStep, PTL DEF Spec

-----------------------------------------------------------------------------
(* What no step does, which is what a request in progress relies on.       *)

Forward ==
  /\ \A p \in Payments : gateway[p] = "captured" => gateway'[p] = "captured"
  /\ \A p \in Payments : payment[p] \in Taken => payment'[p] \in Taken
  /\ \A p \in Payments : payment[p] = "paid" =>
       payment'[p] = "paid" \/ status'[OrderOf[p]] \in {"refunded", "packed"}
  /\ \A o \in Orders : status[o] \in {"refunded", "packed"} => status'[o] = status[o]
  /\ \A o \in Orders : status[o] = "cancelled" =>
       status'[o] \in {"cancelled", "refunded"} \/ \A p \in PaymentsOf(o) : payment[p] # "paid"
  /\ \A r \in Refunds : refund[r].pay # None =>
       refund'[r].pay = refund[r].pay /\ refund'[r].amount = refund[r].amount /\ refund'[r].item = refund[r].item

(* The gateway only moves on, and only for a payment the shop opened.      *)
GatewayMovesOn ==
  \A p \in Payments : \/ gateway'[p] = gateway[p]
                      \/ payment[p] # "none" /\ (gateway[p] = "captured" => gateway'[p] = "captured")

LEMMA KeepRefunding ==
  ASSUME IInv, Forward, NEW p, NEW m, Refunding(p, m)
  PROVE  Refunding(p, m)'
<1>1. p \in Payments /\ OrderOf[p] \in Orders /\ p \in PaymentsOf(OrderOf[p]) /\ PaymentInv(p)
  BY OrderOfAssumption DEF Refunding, PaymentsOf, IInv, TablesInv
<1>2. status[OrderOf[p]] = "cancelled" => payment[p] = "paid"
  BY <1>1 DEF PaymentInv, Refunding, Taken
<1>3. QED
  BY <1>1, <1>2 DEF Refunding, Forward

LEMMA KeepJob ==
  ASSUME IInv, Forward, NEW w \in Workers, job'[w] = job[w]
  PROVE  JobInv(w)'
<1>1. JobInv(w)
  BY DEF IInv
<1>2. (~ At(w, "session_retire"))'
  BY <1>1 DEF JobInv, At
<1>3. (job[w].pc \in {"session_find", "session_insert"} => job[w].order \in Orders /\ job[w].lane \in Gateways)'
  BY <1>1 DEF JobInv
<1>4. (At(w, "finalize") => job[w].pay \in Payments /\ gateway[job[w].pay] = "captured")'
  BY <1>1 DEF JobInv, At, Forward
<1>5. (At(w, "cancel_find") =>
         /\ job[w].order \in Orders
         /\ \/ status[job[w].order] = "refunded"
            \/ status[job[w].order] = "cancelled" /\ \E p \in PaymentsOf(job[w].order) : payment[p] = "paid")'
  <2> SUFFICES ASSUME At(w, "cancel_find"), status[job[w].order] # "refunded"
               PROVE  \/ status'[job[w].order] = "refunded"
                      \/ /\ status'[job[w].order] = "cancelled"
                         /\ \E p \in PaymentsOf(job[w].order) : payment'[p] = "paid"
    BY <1>1 DEF JobInv, At, Forward, PaymentsOf
  <2>1. PICK p \in PaymentsOf(job[w].order) : payment[p] = "paid"
    BY <1>1 DEF JobInv
  <2>2. job[w].order \in Orders /\ status[job[w].order] = "cancelled" /\ p \in Payments /\ OrderOf[p] = job[w].order
    BY <1>1, <2>1 DEF JobInv, PaymentsOf
  <2>3. QED
    BY <2>1, <2>2 DEF Forward
<1>6. (job[w].pc \in {"refund_read", "refund_create", "deposit_create"} \/ OwesRefund(w) =>
         Refunding(job[w].pay, job[w].mark))'
  <2>1. ASSUME Refunding(job[w].pay, job[w].mark) PROVE Refunding(job[w].pay, job[w].mark)'
    BY <2>1, KeepRefunding DEF Refunding
  <2>2. QED
    BY <1>1, <2>1 DEF JobInv, OwesRefund, At
<1>7. (OwesRefund(w) => job[w].refund \in Refunds /\ refund[job[w].refund].pay = job[w].pay)'
  BY <1>1, NoneAssumption DEF JobInv, OwesRefund, At, Refunding, Forward
<1>8. (At(w, "refund_sync") => job[w].pay \in Payments /\ status[OrderOf[job[w].pay]] \in {"refunded", "packed"})'
  BY <1>1, OrderOfAssumption DEF JobInv, At, Forward
<1>9. (At(w, "job_check") => job[w].order \in Orders)'
  BY <1>1 DEF JobInv, At
<1>10. (At(w, "deposit_create") => status[OrderOf[job[w].pay]] = "packed")'
  BY <1>1, OrderOfAssumption DEF JobInv, At, Refunding, Forward
<1>11. (At(w, "refund_create") => status[OrderOf[job[w].pay]] = "packed" \/ job[w].amount = AmountPaid)'
  BY <1>1, OrderOfAssumption DEF JobInv, At, Refunding, Forward
<1>12. QED
  BY <1>2, <1>3, <1>4, <1>5, <1>6, <1>7, <1>8, <1>9, <1>10, <1>11 DEF JobInv

LEMMA IdleJob ==
  ASSUME NEW w \in Workers, job'[w] = Idle
  PROVE  JobInv(w)'
BY DEF JobInv, OwesRefund, At, Idle

LEMMA KeepRefund ==
  ASSUME IInv, Forward, NEW r \in Refunds, refund'[r].pay = refund[r].pay, refund'[r].ref = refund[r].ref
  PROVE  RefundInv(r)'
<1> SUFFICES ASSUME refund[r].pay # None PROVE RefundInv(r)'
  BY DEF RefundInv, IInv
<1>1. RefundInv(r) /\ refund[r].pay \in Payments
  BY RefundEdits DEF IInv, TypeOK
<1>2. PICK p, o : p = refund[r].pay /\ o = OrderOf[p]
  OBVIOUS
<1>3. p \in Payments /\ o \in Orders /\ p \in PaymentsOf(o) /\ PaymentInv(p)
  BY <1>1, <1>2, OrderOfAssumption DEF PaymentsOf, IInv, TablesInv
<1>4. payment[p] \in Taken /\ payment'[p] \in Taken /\ (status[o] = "cancelled" => payment[p] = "paid")
  BY <1>1, <1>2, <1>3 DEF RefundInv, PaymentInv, Forward, Taken
<1>5. /\ status[o] \in {"cancelled", "refunded", "packed"} => status'[o] \in {"cancelled", "refunded", "packed"}
      /\ status[o] \in {"refunded", "packed"} => status'[o] = status[o]
  BY <1>3, <1>4 DEF Forward
<1>6. refund'[r].amount = refund[r].amount /\ refund'[r].item = refund[r].item
  BY DEF Forward
<1>7. QED
  BY <1>1, <1>2, <1>4, <1>5, <1>6 DEF RefundInv

(* A step preserves the invariant when it goes forward, keeps the tables   *)
(* consistent, and accounts for the jobs and refunds it writes.            *)
LEMMA Assemble ==
  ASSUME IInv, TypeOK', Forward, TablesInv',
         \A r \in Refunds : refund'[r] = refund[r] \/ RefundInv(r)',
         \A w \in Workers : job'[w] = job[w] \/ job'[w] = Idle \/ JobInv(w)'
  PROVE  IInv'
BY KeepJob, KeepRefund, IdleJob DEF IInv

LEMMA QuietTables ==
  ASSUME IInv, UNCHANGED <<status, payment, lane>>, GatewayMovesOn
  PROVE  TablesInv'
<1>1. OneActivePayment'
  BY DEF OneActivePayment, IInv, TablesInv
<1>2. \A p \in Payments : PaymentInv(p)'
  BY DEF PaymentInv, IInv, TablesInv, GatewayMovesOn
<1>3. \A o \in Orders : OrderInv(o)'
  BY DEF OrderInv, IInv, TablesInv, PaymentsOf
<1>4. QED
  BY <1>1, <1>2, <1>3 DEF TablesInv

LEMMA Quiet ==
  ASSUME IInv, TypeOK', UNCHANGED <<status, payment, lane, refund>>, GatewayMovesOn,
         \A w \in Workers : job'[w] = job[w] \/ job'[w] = Idle \/ JobInv(w)'
  PROVE  IInv'
<1>1. \A p \in Payments : gateway[p] = "captured" => gateway'[p] = "captured"
  BY DEF GatewayMovesOn
<1>2. status' = status /\ payment' = payment /\ refund' = refund
  OBVIOUS
<1>3. Forward
  BY <1>1, <1>2 DEF Forward
<1>4. QED
  BY <1>3, QuietTables, Assemble

(* What the edits of a task leave alone.                                   *)
LEMMA TaskFields ==
  ASSUME NEW t \in JobType, NEW pc, NEW x
  PROVE  /\ [t EXCEPT !.pc = pc].pc = pc
         /\ \A e \in {[t EXCEPT !.pc = pc], [t EXCEPT !.pc = pc, !.pay = x]} :
              e.pc = pc /\ e.order = t.order /\ e.lane = t.lane
         /\ \A e \in {[t EXCEPT !.pc = pc], [t EXCEPT !.pc = pc, !.settled = x], [t EXCEPT !.pc = pc, !.refund = x],
                    [t EXCEPT !.pc = pc, !.amount = x]} :
              e.pc = pc /\ e.pay = t.pay /\ e.mark = t.mark
         /\ \A e \in {[t EXCEPT !.pc = pc], [t EXCEPT !.pc = pc, !.settled = x]} : e.refund = t.refund
         /\ [t EXCEPT !.pc = pc, !.refund = x].refund = x /\ [t EXCEPT !.pc = pc, !.amount = x].amount = x
         /\ [t EXCEPT !.todo = x].pc = t.pc /\ [t EXCEPT !.todo = x].order = t.order
BY DEF JobType

(* The tasks a request starts with.                                        *)
LEMMA Started ==
  ASSUME NEW w \in Workers
  PROVE  /\ \A o \in Orders, g \in Gateways :
              job'[w] = [Idle EXCEPT !.pc = "session_find", !.order = o, !.lane = g] => JobInv(w)'
         /\ \A p \in Payments :
              job'[w] = [Idle EXCEPT !.pc = "finalize", !.pay = p] /\ gateway'[p] = "captured" => JobInv(w)'
         /\ \A p \in Payments :
              job'[w] = [Idle EXCEPT !.pc = "refund_sync", !.pay = p] /\
              status'[OrderOf[p]] \in {"refunded", "packed"} => JobInv(w)'
         /\ \A o \in Orders, S \in SUBSET Payments :
              job'[w] = [Idle EXCEPT !.pc = "job_check", !.order = o, !.todo = S] => JobInv(w)'
BY ZenonT(30) DEF JobInv, OwesRefund, At, Idle

LEMMA StartedRefund ==
  ASSUME NEW w \in Workers, NEW p, NEW m \in BOOLEAN, job'[w] = ToRefund(p, m), Refunding(p, m)'
  PROVE  JobInv(w)'
BY DEF JobInv, OwesRefund, At, Idle, ToRefund

LEMMA StartedDeposit ==
  ASSUME NEW w \in Workers, NEW p, Refunding(p, FALSE)', status'[OrderOf[p]] = "packed",
         job'[w] = [Idle EXCEPT !.pc = "deposit_create", !.pay = p, !.amount = Deposit]
  PROVE  JobInv(w)'
BY DEF JobInv, OwesRefund, At, Idle

LEMMA SessionKeeps ==
  ASSUME IInv, TypeOK', OneLane, NEW w \in Workers, Session(w)
  PROVE  IInv'
<1>1. job[w] \in JobType /\ job \in [Workers -> JobType] /\ JobInv(w)
  BY DEF IInv, TypeOK
<1>2. {"session_find", "session_insert"} \subseteq Pcs
  BY DEF Pcs
<1>3. ASSUME NEW o \in Orders, NEW g \in Gateways, SessionOpen(w, o, g) PROVE IInv'
  <2>1. /\ job'[w] = [Idle EXCEPT !.pc = "session_find", !.order = o, !.lane = g]
        /\ \A v \in Workers \ {w} : job'[v] = job[v]
    BY <1>1, <1>3, Tasks, Doing DEF SessionOpen
  <2>2. JobInv(w)'
    BY <2>1, Started
  <2>3. QED
    BY <1>3, <2>1, <2>2, Quiet DEF SessionOpen, GatewayMovesOn
<1>4. CASE SessionFind(w)
  <2>1. job[w].order \in Orders /\ job[w].lane \in Gateways
    BY <1>1, <1>4 DEF SessionFind, At, JobInv
  <2>2. ASSUME NEW p \in PaymentsOf(job[w].order), payment[p] = "pending" PROVE lane[p] = job[w].lane
    <3>1. p \in Payments /\ PaymentInv(p)
      BY DEF PaymentsOf, IInv, TablesInv
    <3>2. QED
      BY <2>1, <2>2, <3>1 DEF PaymentInv, OneLane
  <2>3. CASE Done(w)
    BY <1>1, <1>4, <2>3, Tasks, Doing, Quiet DEF SessionFind, GatewayMovesOn, Done
  <2>4. CASE Do(w, [job[w] EXCEPT !.pc = "session_insert"])
    <3>1. job'[w] = [job[w] EXCEPT !.pc = "session_insert"] /\ \A v \in Workers \ {w} : job'[v] = job[v]
      BY <1>1, <1>2, <2>4, TaskEdits, Doing
    <3>2. job'[w].pc = "session_insert" /\ job'[w].order = job[w].order /\ job'[w].lane = job[w].lane
      BY <1>1, <3>1, TaskFields
    <3>3. JobInv(w)'
      BY <2>1, <3>2 DEF JobInv, OwesRefund, At
    <3>4. QED
      BY <1>4, <3>1, <3>3, Quiet DEF SessionFind, GatewayMovesOn
  <2>5. QED
    BY <1>4, <2>2, <2>3, <2>4 DEF SessionFind
<1>5. CASE SessionRetire(w)
  BY <1>1, <1>5 DEF SessionRetire, JobInv
<1>6. CASE SessionEnd(w)
  BY <1>1, <1>6, Tasks, Doing, Quiet DEF SessionEnd, GatewayMovesOn, Done
<1>7. ASSUME NEW p \in Payments, SessionInsert(w, p) PROVE IInv'
  <2>1. job[w].order \in Orders /\ job[w].lane \in Gateways /\ OrderOf[p] = job[w].order
    BY <1>1, <1>7 DEF SessionInsert, At, JobInv, PaymentsOf
  <2>2. payment[p] = "none" /\ gateway[p] = "none" /\ PaymentInv(p)
    BY <1>7 DEF SessionInsert, IInv, TablesInv, PaymentInv
  <2>3. /\ payment'[p] = "pending" /\ gateway'[p] = "open" /\ lane'[p] \in Gateways
        /\ \A q \in Payments \ {p} : payment'[q] = payment[q] /\ gateway'[q] = gateway[q] /\ lane'[q] = lane[q]
        /\ status' = status /\ refund' = refund
    BY <1>7, <2>1 DEF SessionInsert, PaymentIs, IInv, TypeOK
  <2>4. Forward
    BY <2>2, <2>3 DEF Forward, Taken
  <2>5. OneActivePayment'
    <3>1. \A q \in Payments : OrderOf[q] = OrderOf[p] => payment[q] \notin {"pending", "paid"}
      BY <1>7, <2>1 DEF SessionInsert, ActiveOf, PaymentsOf
    <3>2. QED
      BY <2>3, <3>1 DEF OneActivePayment, IInv, TablesInv
  <2>6. \A q \in Payments : PaymentInv(q)'
    BY <2>3 DEF PaymentInv, IInv, TablesInv, Taken
  <2>7. \A o \in Orders : OrderInv(o)'
    BY <2>2, <2>3 DEF OrderInv, IInv, TablesInv, PaymentsOf
  <2>8. job'[w] = Idle /\ \A v \in Workers \ {w} : job'[v] = job[v]
    BY <1>1, <1>7, Tasks, Doing DEF SessionInsert, Done
  <2>9. QED
    BY <2>3, <2>4, <2>5, <2>6, <2>7, <2>8, Assemble DEF TablesInv
<1>8. QED
  BY <1>3, <1>4, <1>5, <1>6, <1>7 DEF Session

(* What the claim has established when the transaction goes on.            *)
LEMMA Claiming ==
  ASSUME IInv, NEW w \in Workers, Claim(w), NEW p, p = job[w].pay
  PROVE  /\ p \in Payments /\ gateway[p] = "captured" /\ payment[p] \in {"pending", "failed"}
         /\ payment'[p] = "paid" /\ \A q \in Payments \ {p} : payment'[q] = payment[q]
         /\ \A q \in PaymentsOf(OrderOf[p]) : payment[q] # "paid"
         /\ OneActivePayment'
<1>1. p \in Payments /\ gateway[p] = "captured"
  BY DEF IInv, JobInv, Claim
<1>2. payment[p] \in {"pending", "failed"}
  BY DEF Claim, Claimed
<1>3. payment'[p] = "paid" /\ \A q \in Payments \ {p} : payment'[q] = payment[q]
  BY <1>1 DEF Claim, PaymentIs, IInv, TypeOK
<1>4. \A q \in Payments \ {p} : OrderOf[q] = OrderOf[p] => payment[q] \notin {"pending", "paid"}
  BY DEF Claim, Blocked, ActiveOf, PaymentsOf
<1>5. OneActivePayment'
  BY <1>3, <1>4 DEF OneActivePayment, IInv, TablesInv
<1>6. QED
  BY <1>1, <1>2, <1>3, <1>4, <1>5 DEF PaymentsOf

LEMMA FinalizeKeeps ==
  ASSUME IInv, TypeOK', NEW w \in Workers, Finalize(w)
  PROVE  IInv'
<1>1. job[w] \in JobType /\ job \in [Workers -> JobType] /\ JobInv(w)
  BY DEF IInv, TypeOK
<1>2. CASE FinalizeNothing(w)
  BY <1>1, <1>2, Tasks, Doing, Quiet DEF FinalizeNothing, GatewayMovesOn, Done
<1> DEFINE p == job[w].pay
           o == OrderOf[p]
<1>3. CASE FinalizeConfirm(w)
  <2>1. /\ p \in Payments /\ gateway[p] = "captured" /\ payment[p] \in {"pending", "failed"}
        /\ payment'[p] = "paid" /\ \A q \in Payments \ {p} : payment'[q] = payment[q]
        /\ \A q \in PaymentsOf(o) : payment[q] # "paid"
        /\ OneActivePayment'
    BY <1>3, Claiming DEF FinalizeConfirm
  <2>2. o \in Orders /\ status[o] \in {"pending_payment", "cancelled"} /\ p \in PaymentsOf(o)
    BY <1>3, <2>1, OrderOfAssumption DEF FinalizeConfirm, PaymentsOf
  <2>3. /\ status'[o] = "confirmed" /\ \A x \in Orders \ {o} : status'[x] = status[x]
        /\ lane' = lane /\ gateway' = gateway /\ refund' = refund
    BY <1>3, <2>2 DEF FinalizeConfirm, Claim, OrderIs, IInv, TypeOK
  <2>4. Forward
    <3>1. \A q \in Payments : payment[q] = "paid" => payment'[q] = "paid"
      BY <2>1
    <3>2. \A q \in Payments : payment[q] \in Taken => payment'[q] \in Taken
      BY <2>1 DEF Taken
    <3>3. \A x \in Orders : status[x] \in {"refunded", "packed"} => status'[x] = status[x]
      BY <2>2, <2>3
    <3>4. \A x \in Orders : status[x] = "cancelled" =>
            status'[x] = "cancelled" \/ \A q \in PaymentsOf(x) : payment[q] # "paid"
      BY <2>1, <2>3
    <3>5. QED
      BY <2>3, <3>1, <3>2, <3>3, <3>4 DEF Forward
  <2>5. ASSUME NEW q \in Payments PROVE PaymentInv(q)'
    <3>1. PaymentInv(q) /\ OrderOf[q] \in Orders
      BY OrderOfAssumption DEF IInv, TablesInv
    <3>2. QED
      BY <2>1, <2>2, <2>3, <3>1 DEF PaymentInv, Taken
  <2>6. ASSUME NEW x \in Orders PROVE OrderInv(x)'
    <3>1. OrderInv(x)
      BY DEF IInv, TablesInv
    <3>2. QED
      BY <2>1, <2>2, <2>3, <3>1 DEF OrderInv, PaymentsOf
  <2>7. job'[w] = Idle /\ \A v \in Workers \ {w} : job'[v] = job[v]
    BY <1>1, <1>3, Tasks, Doing DEF FinalizeConfirm, Done
  <2>8. QED
    BY <2>1, <2>3, <2>4, <2>5, <2>6, <2>7, Assemble DEF TablesInv
<1>4. CASE FinalizeRefund(w)
  <2>1. /\ p \in Payments /\ gateway[p] = "captured" /\ payment[p] \in {"pending", "failed"}
        /\ payment'[p] = "paid" /\ \A q \in Payments \ {p} : payment'[q] = payment[q]
        /\ \A q \in PaymentsOf(o) : payment[q] # "paid"
        /\ OneActivePayment'
    BY <1>4, Claiming DEF FinalizeRefund
  <2>2. o \in Orders /\ status[o] \in Statuses /\ status[o] # "pending_payment" /\ OrderInv(o)
    BY <1>4, <2>1, OrderOfAssumption DEF FinalizeRefund, IInv, TypeOK, TablesInv
  <2>3. status[o] \in {"cancelled", "refunded", "packed"}
    BY <2>1, <2>2 DEF OrderInv, Statuses
  <2>4. status' = status /\ lane' = lane /\ gateway' = gateway /\ refund' = refund
    BY <1>4 DEF FinalizeRefund, Claim
  <2>5. Forward
    <3>1. \A q \in Payments : payment[q] = "paid" => payment'[q] = "paid"
      BY <2>1
    <3>2. \A q \in Payments : payment[q] \in Taken => payment'[q] \in Taken
      BY <2>1 DEF Taken
    <3>3. QED
      BY <2>4, <3>1, <3>2 DEF Forward
  <2>6. ASSUME NEW q \in Payments PROVE PaymentInv(q)'
    <3>1. PaymentInv(q)
      BY DEF IInv, TablesInv
    <3>2. QED
      BY <2>1, <2>4, <3>1 DEF PaymentInv, Taken
  <2>7. ASSUME NEW x \in Orders PROVE OrderInv(x)'
    <3>1. OrderInv(x)
      BY DEF IInv, TablesInv
    <3>2. QED
      BY <2>1, <2>4, <3>1 DEF OrderInv, PaymentsOf
  <2>8. ToRefund(p, status[o] = "cancelled") \in JobType
    BY <2>1, Tasks
  <2>9. job'[w] = ToRefund(p, status[o] = "cancelled") /\ \A v \in Workers \ {w} : job'[v] = job[v]
    BY <1>1, <1>4, <2>8, Doing DEF FinalizeRefund
  <2>10. PICK paid, mark : paid = p /\ mark = (status[o] = "cancelled")
    OBVIOUS
  <2>11. JobInv(w)'
    <3>1. mark \in BOOLEAN /\ job'[w] = ToRefund(paid, mark)
      BY <2>9, <2>10
    <3>2. Refunding(paid, mark)'
      BY <2>1, <2>3, <2>4, <2>10 DEF Refunding, Taken
    <3>3. QED
      BY <3>1, <3>2, StartedRefund
  <2>12. QED
    BY <2>1, <2>4, <2>5, <2>6, <2>7, <2>9, <2>11, Assemble DEF TablesInv
<1>5. QED
  BY <1>2, <1>3, <1>4 DEF Finalize

(* The same for a request that is refunding a payment.                     *)
LEMMA RefundingJob ==
  ASSUME NEW w \in Workers, NEW p, NEW m, NEW r, Refunding(p, m)', job'[w].pay = p, job'[w].mark = m,
         \/ job'[w].pc = "refund_create" /\ (status'[OrderOf[p]] = "packed" \/ job'[w].amount = AmountPaid)
         \/ /\ \/ job'[w].pc \in {"refund_call", "refund_record", "refund_catch"}
               \/ job'[w].pc = "refund_sync" /\ status'[OrderOf[p]] \in {"refunded", "packed"}
            /\ job'[w].refund = r /\ r \in Refunds /\ refund'[r].pay = p
  PROVE  JobInv(w)'
BY DEF JobInv, OwesRefund, At, Refunding

LEMMA AtRefund ==
  ASSUME IInv, NEW w \in Workers,
         job[w].pc \in {"refund_read", "refund_create", "deposit_create"} \/ OwesRefund(w)
  PROVE  /\ Refunding(job[w].pay, job[w].mark)
         /\ job[w].pay \in Payments /\ job[w].pay # None /\ OrderOf[job[w].pay] \in Orders
         /\ OwesRefund(w) => job[w].refund \in Refunds /\ refund[job[w].refund].pay = job[w].pay
<1>1. JobInv(w)
  BY DEF IInv
<1>2. QED
  BY <1>1, OrderOfAssumption, NoneAssumption DEF JobInv, Refunding

(* Before the order is packed its refunds are whole: what is left to       *)
(* refund is all or nothing.                                               *)
LEMMA WholeIsLeft ==
  ASSUME IInv, NEW p \in Payments, status[OrderOf[p]] # "packed", AmountPaid - Total(p) > 0
  PROVE  AmountPaid - Total(p) = AmountPaid
<1>1. \A r \in Refunds : refund[r].pay = p => refund[r].amount = AmountPaid
  BY NoneAssumption DEF IInv, RefundInv
<1>2. Total(p) \in Nat /\ (Total(p) = 0 \/ Total(p) >= AmountPaid)
  BY <1>1, Totals DEF IInv
<1>3. QED
  BY <1>2, AmountsAssumption

LEMMA RefundReadKeeps ==
  ASSUME IInv, TypeOK', NEW w \in Workers, RefundRead(w)
  PROVE  IInv'
<1>1. job[w] \in JobType /\ job \in [Workers -> JobType] /\ "refund_create" \in Pcs
  BY DEF IInv, TypeOK, Pcs
<1>2. CASE Done(w)
  BY <1>1, <1>2, Tasks, Doing, Quiet DEF RefundRead, GatewayMovesOn, Done
<1>3. ASSUME NEW a, a = AmountPaid - Total(job[w].pay), a > 0,
             Do(w, [job[w] EXCEPT !.pc = "refund_create", !.amount = a])
      PROVE  IInv'
  <2>1. PICK p, m : p = job[w].pay /\ m = job[w].mark /\ Refunding(p, m)
    BY AtRefund DEF RefundRead, At
  <2>2. status' = status /\ payment' = payment /\ refund' = refund /\ lane' = lane /\ gateway' = gateway
    BY DEF RefundRead
  <2>3. Refunding(p, m)' /\ (status'[OrderOf[p]] = "packed" \/ a = AmountPaid)
    BY <1>3, <2>1, <2>2, WholeIsLeft DEF Refunding
  <2>4. a \in 0..AmountPaid
    BY <1>3, Totals, AmountsAssumption DEF IInv
  <2>5. /\ job'[w] = [job[w] EXCEPT !.pc = "refund_create", !.amount = a]
        /\ \A v \in Workers \ {w} : job'[v] = job[v]
    BY <1>1, <1>3, <2>4, TaskEdits, Doing
  <2>6. job'[w].pc = "refund_create" /\ job'[w].pay = p /\ job'[w].mark = m /\ job'[w].amount = a
    BY <1>1, <2>1, <2>5, TaskFields
  <2>7. JobInv(w)'
    BY <2>3, <2>6, RefundingJob
  <2>8. QED
    BY <2>2, <2>5, <2>7, Quiet DEF GatewayMovesOn
<1>4. QED
  BY <1>2, <1>3 DEF RefundRead

(* A new row: the whole payment, or a deposit of a packed order.           *)
LEMMA RefundCreateKeeps ==
  ASSUME IInv, TypeOK', NEW w \in Workers, NEW r \in Refunds, RefundCreate(w, r) \/ DepositCreate(w, r)
  PROVE  IInv'
<1>1. job[w] \in JobType /\ job \in [Workers -> JobType] /\ "refund_call" \in Pcs /\ JobInv(w)
  BY DEF IInv, TypeOK, Pcs
<1>2. PICK p, m : p = job[w].pay /\ m = job[w].mark /\ Refunding(p, m)
  BY AtRefund DEF RefundCreate, DepositCreate, At
<1>3. status' = status /\ payment' = payment /\ lane' = lane /\ gateway' = gateway
  BY DEF RefundCreate, DepositCreate
<1>4. /\ refund[r].pay = None /\ refund'[r].pay = p /\ refund'[r].ref = FALSE
      /\ refund'[r].amount = job[w].amount /\ (refund'[r].item => At(w, "deposit_create"))
      /\ \A x \in Refunds \ {r} : refund'[x] = refund[x]
  BY <1>2 DEF RefundCreate, DepositCreate, NoRefund, IInv, TypeOK
<1>5. Forward
  BY <1>3, <1>4 DEF Forward
<1>6. Refunding(p, m)'
  BY <1>2, <1>3 DEF Refunding
<1>7. RefundInv(r)'
  <2>1. status[OrderOf[p]] = "packed" \/ (refund'[r].amount = AmountPaid /\ ~ At(w, "deposit_create"))
    BY <1>1, <1>2, <1>4 DEF RefundCreate, DepositCreate, JobInv, At
  <2>2. ~ refund'[r].item \/ status[OrderOf[p]] = "packed"
    BY <1>4, <2>1
  <2>3. QED
    BY <1>2, <1>3, <1>4, <1>6, <2>1, <2>2 DEF RefundInv, Refunding
<1>8. /\ job'[w] = [job[w] EXCEPT !.pc = "refund_call", !.refund = r]
      /\ \A v \in Workers \ {w} : job'[v] = job[v]
  BY <1>1, TaskEdits, Doing DEF RefundCreate, DepositCreate
<1>9. job'[w].pc = "refund_call" /\ job'[w].pay = p /\ job'[w].mark = m /\ job'[w].refund = r
  BY <1>1, <1>2, <1>8, TaskFields
<1>10. JobInv(w)'
  BY <1>4, <1>6, <1>9, RefundingJob
<1>11. TablesInv'
  BY <1>3, QuietTables DEF GatewayMovesOn
<1>12. QED
  BY <1>4, <1>5, <1>7, <1>8, <1>10, <1>11, Assemble

LEMMA DepositReadKeeps ==
  ASSUME IInv, TypeOK', NEW w \in Workers, NEW o \in Orders, DepositRead(w, o)
  PROVE  IInv'
<1>1. PICK p \in PaymentsOf(o) :
        /\ payment[p] \in {"paid", "partially_refunded"}
        /\ Do(w, [Idle EXCEPT !.pc = "deposit_create", !.pay = p, !.amount = Deposit])
  BY DEF DepositRead
<1>2. p \in Payments /\ OrderOf[p] = o /\ status[o] = "packed" /\ UNCHANGED <<status, payment, lane, gateway, refund>>
  BY DEF PaymentsOf, DepositRead
<1>3. /\ job'[w] = [Idle EXCEPT !.pc = "deposit_create", !.pay = p, !.amount = Deposit]
      /\ \A v \in Workers \ {w} : job'[v] = job[v]
  BY <1>1, <1>2, Tasks, Doing DEF IInv, TypeOK
<1>4. Refunding(p, FALSE)'
  BY <1>1, <1>2 DEF Refunding, Taken
<1>5. JobInv(w)'
  BY <1>2, <1>3, <1>4, StartedDeposit
<1>6. QED
  BY <1>2, <1>3, <1>5, Quiet DEF GatewayMovesOn

LEMMA RefundCallKeeps ==
  ASSUME IInv, TypeOK', NEW w \in Workers, RefundCall(w) \/ RefundError(w) \/ RefundAbort(w)
  PROVE  IInv'
<1>1. job[w] \in JobType /\ job \in [Workers -> JobType] /\ {"refund_record", "refund_catch"} \subseteq Pcs
  BY DEF IInv, TypeOK, Pcs
<1>2. PICK p, m, r : /\ p = job[w].pay /\ m = job[w].mark /\ r = job[w].refund
                     /\ Refunding(p, m) /\ r \in Refunds /\ refund[r].pay = p
  BY AtRefund DEF RefundCall, RefundError, RefundAbort, OwesRefund, At
<1>3. status' = status /\ payment' = payment /\ refund' = refund /\ lane' = lane /\ gateway' = gateway
  BY DEF RefundCall, RefundError, RefundAbort
<1>4. Refunding(p, m)'
  BY <1>2, <1>3 DEF Refunding
<1>5. /\ job'[w].pc \in {"refund_record", "refund_catch"}
      /\ job'[w].pay = p /\ job'[w].mark = m /\ job'[w].refund = r
      /\ \A v \in Workers \ {w} : job'[v] = job[v]
  <2>1. CASE RefundCall(w)
    <3>1. PICK b \in BOOLEAN : Do(w, [job[w] EXCEPT !.pc = "refund_record", !.settled = b])
      <4>1. PICK s : Do(w, [job[w] EXCEPT !.pc = "refund_record",
                                          !.settled = (s = "processed" \/ refund[job[w].refund].item)])
        BY <2>1 DEF RefundCall
      <4>2. (s = "processed" \/ refund[job[w].refund].item) \in BOOLEAN
        OBVIOUS
      <4>. QED  BY <4>1, <4>2
    <3>2. /\ job'[w] = [job[w] EXCEPT !.pc = "refund_record", !.settled = b]
          /\ \A v \in Workers \ {w} : job'[v] = job[v]
      BY <1>1, <3>1, TaskEdits, Doing
    <3>3. QED
      BY <1>1, <1>2, <3>2, TaskFields
  <2>2. CASE RefundError(w) \/ RefundAbort(w)
    <3>1. /\ job'[w] = [job[w] EXCEPT !.pc = "refund_catch"]
          /\ \A v \in Workers \ {w} : job'[v] = job[v]
      BY <1>1, <2>2, TaskEdits, Doing DEF RefundError, RefundAbort
    <3>2. QED
      BY <1>1, <1>2, <3>1, TaskFields
  <2>3. QED
    BY <2>1, <2>2
<1>6. JobInv(w)'
  BY <1>2, <1>3, <1>4, <1>5, RefundingJob
<1>7. QED
  BY <1>3, <1>5, <1>6, Quiet DEF GatewayMovesOn

LEMMA RefundRecordKeeps ==
  ASSUME IInv, TypeOK', NEW w \in Workers, RefundRecord(w)
  PROVE  IInv'
<1>1. job[w] \in JobType /\ job \in [Workers -> JobType] /\ "refund_sync" \in Pcs
  BY DEF IInv, TypeOK, Pcs
<1>2. PICK p, m, r, o : /\ p = job[w].pay /\ m = job[w].mark /\ r = job[w].refund /\ o = OrderOf[p]
                        /\ Refunding(p, m) /\ r \in Refunds /\ refund[r].pay = p /\ o \in Orders
  BY AtRefund DEF RefundRecord, OwesRefund, At
<1>3. payment' = payment /\ lane' = lane /\ gateway' = gateway
  BY DEF RefundRecord
<1>4. /\ \/ status[o] \in {"cancelled", "refunded"} /\ status'[o] = "refunded"
         \/ status[o] \in {"refunded", "packed"} /\ status'[o] = status[o]
      /\ \A x \in Orders \ {o} : status'[x] = status[x]
  BY <1>2 DEF RefundRecord, OrderIs, Refunding, IInv, TypeOK
<1>5. /\ refund'[r].pay = p /\ refund'[r].amount = refund[r].amount /\ refund'[r].item = refund[r].item
      /\ \A x \in Refunds \ {r} : refund'[x] = refund[x]
  BY <1>2 DEF RefundRecord, IInv, TypeOK, RefundType
<1>6. Forward
  BY <1>2, <1>3, <1>4, <1>5 DEF Forward
<1>7. RefundInv(r)'
  <2>1. RefundInv(r)
    BY <1>2 DEF IInv
  <2>2. QED
    BY <1>2, <1>3, <1>4, <1>5, <2>1, NoneAssumption DEF RefundInv, Refunding
<1>8. TablesInv'
  <2>1. OneActivePayment'
    BY <1>3 DEF OneActivePayment, IInv, TablesInv
  <2>2. \A q \in Payments : PaymentInv(q)'
    <3> SUFFICES ASSUME NEW q \in Payments PROVE PaymentInv(q)'
      OBVIOUS
    <3>1. PaymentInv(q) /\ OrderOf[q] \in Orders
      BY OrderOfAssumption DEF IInv, TablesInv
    <3>2. QED
      BY <1>3, <1>4, <3>1 DEF PaymentInv
  <2>3. \A x \in Orders : OrderInv(x)'
    BY <1>3, <1>4 DEF OrderInv, PaymentsOf, IInv, TablesInv
  <2>4. QED
    BY <2>1, <2>2, <2>3 DEF TablesInv
<1>9. /\ job'[w] = [job[w] EXCEPT !.pc = "refund_sync"]
      /\ \A v \in Workers \ {w} : job'[v] = job[v]
  BY <1>1, TaskEdits, Doing DEF RefundRecord
<1>10. job'[w].pc = "refund_sync" /\ job'[w].pay = p /\ job'[w].mark = m /\ job'[w].refund = r
  BY <1>1, <1>2, <1>9, TaskFields
<1>11. JobInv(w)'
  <2>1. Refunding(p, m)'
    BY <1>2, <1>3, <1>4 DEF Refunding
  <2>2. QED
    BY <1>2, <1>4, <1>5, <1>10, <2>1, RefundingJob
<1>12. QED
  BY <1>5, <1>6, <1>7, <1>8, <1>9, <1>11, Assemble

LEMMA RefundSyncKeeps ==
  ASSUME IInv, TypeOK', NEW w \in Workers, RefundSync(w)
  PROVE  IInv'
<1>1. job[w] \in JobType /\ job \in [Workers -> JobType] /\ JobInv(w)
  BY DEF IInv, TypeOK
<1>2. job'[w] = Idle /\ \A v \in Workers \ {w} : job'[v] = job[v]
  BY <1>1, Tasks, Doing DEF RefundSync, Done
<1>3. CASE payment' = payment
  BY <1>2, <1>3, Quiet DEF RefundSync, GatewayMovesOn
<1>4. CASE payment' # payment
  <2>1. PICK p, s : /\ p = job[w].pay /\ PaymentIs(p, s) /\ Total(p) > 0
                    /\ s = IF Total(p) >= AmountPaid THEN "refunded" ELSE "partially_refunded"
    BY <1>4 DEF RefundSync
  <2>2. p \in Payments /\ status[OrderOf[p]] \in {"refunded", "packed"} /\ OrderOf[p] \in Orders
    BY <1>1, <2>1, OrderOfAssumption DEF RefundSync, At, JobInv
  <2>3. payment[p] \in Taken /\ gateway[p] = "captured"
    <3>1. PICK r \in Refunds : refund[r].pay = p
      BY <2>1, Totals DEF IInv
    <3>2. QED
      BY <2>2, <3>1, NoneAssumption DEF IInv, TablesInv, RefundInv, PaymentInv
  <2>4. s = "partially_refunded" => status[OrderOf[p]] = "packed"
    <3>1. CASE status[OrderOf[p]] = "refunded"
      <4>1. \A r \in Refunds : refund[r].pay = p => refund[r].amount = AmountPaid
        BY <2>2, <3>1, NoneAssumption DEF IInv, RefundInv
      <4>2. Total(p) \in Nat /\ (Total(p) = 0 \/ Total(p) >= AmountPaid)
        BY <4>1, Totals DEF IInv
      <4>3. QED
        BY <2>1, <4>2
    <3>2. QED
      BY <2>2, <3>1
  <2>5. payment'[p] = s /\ s \in {"refunded", "partially_refunded"}
        /\ \A q \in Payments \ {p} : payment'[q] = payment[q]
    BY <2>1, <2>2 DEF PaymentIs, IInv, TypeOK
  <2>6. status' = status /\ lane' = lane /\ gateway' = gateway /\ refund' = refund
    BY DEF RefundSync
  <2>7. Forward
    BY <2>2, <2>5, <2>6 DEF Forward, Taken
  <2>8. OneActivePayment'
    BY <2>5 DEF OneActivePayment, IInv, TablesInv
  <2>9. ASSUME NEW q \in Payments PROVE PaymentInv(q)'
    <3>1. PaymentInv(q) /\ PaymentInv(p)
      BY <2>2 DEF IInv, TablesInv
    <3>2. QED
      BY <2>2, <2>3, <2>4, <2>5, <2>6, <3>1 DEF PaymentInv, Taken
  <2>10. ASSUME NEW x \in Orders, status[x] = "confirmed" PROVE OrderInv(x)'
    <3>1. PICK q \in PaymentsOf(x) : payment[q] = "paid"
      BY <2>10 DEF OrderInv, IInv, TablesInv
    <3>2. q \in Payments \ {p}
      BY <2>2, <2>10, <3>1 DEF PaymentsOf
    <3>3. QED
      BY <2>5, <3>1, <3>2 DEF OrderInv, PaymentsOf
  <2>11. \A x \in Orders : OrderInv(x)'
    BY <2>6, <2>10 DEF OrderInv
  <2>12. QED
    BY <1>2, <2>6, <2>7, <2>8, <2>9, <2>11, Assemble DEF TablesInv
<1>5. QED
  BY <1>3, <1>4

(* Writing how a refund ended leaves whose it is alone.                    *)
LEMMA RefundEndKeeps ==
  ASSUME IInv, TypeOK', UNCHANGED <<status, payment, lane, gateway>>, NEW r \in Refunds, NEW s,
         refund' = [refund EXCEPT ![r] = [refund[r] EXCEPT !.status = s]],
         \A w \in Workers : job'[w] = job[w] \/ job'[w] = Idle \/ JobInv(w)'
  PROVE  IInv'
<1>1. \A x \in Refunds : /\ refund'[x].pay = refund[x].pay /\ refund'[x].ref = refund[x].ref
                         /\ refund'[x].amount = refund[x].amount /\ refund'[x].item = refund[x].item
  BY DEF IInv, TypeOK, RefundType
<1>2. Forward
  BY <1>1 DEF Forward
<1>3. \A x \in Refunds : RefundInv(x)'
  BY <1>1, <1>2, KeepRefund
<1>4. TablesInv'
  BY QuietTables DEF GatewayMovesOn
<1>5. QED
  BY <1>2, <1>3, <1>4, Assemble

LEMMA RefundKeeps ==
  ASSUME IInv, TypeOK', NEW w \in Workers, Refund(w)
  PROVE  IInv'
<1>1. job[w] \in JobType /\ job \in [Workers -> JobType]
  BY DEF IInv, TypeOK
<1>2. CASE RefundCatch(w)
  <2>1. job[w].refund \in Refunds
    BY <1>2, AtRefund DEF RefundCatch, OwesRefund, At
  <2>2. job'[w] = Idle /\ \A v \in Workers \ {w} : job'[v] = job[v]
    BY <1>1, <1>2, Tasks, Doing DEF RefundCatch, Done
  <2>3. QED
    BY <1>2, <2>1, <2>2, RefundEndKeeps DEF RefundCatch
<1>3. ASSUME NEW r \in Refunds, RefundWebhook(w, r) PROVE IInv'
  <2>1. CASE ~ refund[r].ref
    BY <1>3, <2>1, Quiet DEF RefundWebhook, GatewayMovesOn
  <2>2. CASE refund[r].ref
    <3>1. PICK p : p = refund[r].pay
      OBVIOUS
    <3>2. p \in Payments /\ status[OrderOf[p]] \in {"refunded", "packed"}
      BY <2>2, <3>1, RefundEdits DEF IInv, RefundInv, TypeOK
    <3>3. /\ job'[w] = [Idle EXCEPT !.pc = "refund_sync", !.pay = p]
          /\ \A v \in Workers \ {w} : job'[v] = job[v]
      BY <1>1, <1>3, <2>2, <3>1, <3>2, Tasks, Doing DEF RefundWebhook
    <3>4. JobInv(w)'
      BY <1>3, <3>2, <3>3, Started DEF RefundWebhook
    <3>5. QED
      BY <1>3, <2>2, <3>3, <3>4, RefundEndKeeps DEF RefundWebhook
  <2>3. QED
    BY <2>1, <2>2
<1>4. QED
  BY <1>2, <1>3, RefundReadKeeps, RefundCreateKeeps, DepositReadKeeps, RefundCallKeeps, RefundRecordKeeps,
     RefundSyncKeeps DEF Refund

-----------------------------------------------------------------------------
(* Closing, cancelling and the release job.                                *)

LEMMA CloseKeeps ==
  ASSUME IInv, TypeOK', NEW o \in Orders, Close(o), UNCHANGED <<lane, gateway, refund>>,
         \A w \in Workers : job'[w] = job[w] \/ job'[w] = Idle
  PROVE  IInv'
<1>1. /\ status[o] = "pending_payment" /\ status'[o] = "cancelled"
      /\ \A x \in Orders \ {o} : status'[x] = status[x]
  BY DEF Close, OrderIs, IInv, TypeOK
<1>2. \A p \in Payments : payment'[p] = payment[p] \/ (payment[p] = "pending" /\ payment'[p] = "failed")
  BY DEF Close
<1>3. Forward
  <2>1. \A p \in Payments : payment[p] = "paid" => payment'[p] = "paid"
    BY <1>2
  <2>2. \A p \in Payments : payment[p] \in Taken => payment'[p] \in Taken
    BY <1>2 DEF Taken
  <2>3. QED
    BY <1>1, <2>1, <2>2 DEF Forward
<1>4. OneActivePayment'
  BY <1>2 DEF OneActivePayment, IInv, TablesInv
<1>5. ASSUME NEW p \in Payments PROVE PaymentInv(p)'
  <2>1. PaymentInv(p) /\ OrderOf[p] \in Orders
    BY OrderOfAssumption DEF IInv, TablesInv
  <2>2. QED
    BY <1>1, <1>2, <2>1 DEF PaymentInv, Taken
<1>6. ASSUME NEW x \in Orders PROVE OrderInv(x)'
  <2>1. OrderInv(x)
    BY DEF IInv, TablesInv
  <2>2. QED
    BY <1>1, <1>2, <2>1 DEF OrderInv, PaymentsOf
<1>7. QED
  BY <1>3, <1>4, <1>5, <1>6, Assemble DEF TablesInv

LEMMA JobKeeps ==
  ASSUME IInv, TypeOK', NEW w \in Workers, ReleaseJob(w)
  PROVE  IInv'
<1>1. job[w] \in JobType /\ job \in [Workers -> JobType] /\ JobInv(w)
  BY DEF IInv, TypeOK
<1>2. ASSUME NEW o \in Orders, JobRead(w, o) PROVE IInv'
  <2>1. PICK S \in SUBSET Payments : Do(w, [Idle EXCEPT !.pc = "job_check", !.order = o, !.todo = S])
    BY <1>2 DEF JobRead, PaymentsOf
  <2>2. /\ job'[w] = [Idle EXCEPT !.pc = "job_check", !.order = o, !.todo = S]
        /\ \A v \in Workers \ {w} : job'[v] = job[v]
    BY <1>1, <2>1, Tasks, Doing
  <2>3. JobInv(w)'
    BY <2>2, Started
  <2>4. QED
    BY <1>2, <2>2, <2>3, Quiet DEF JobRead, GatewayMovesOn
<1>3. ASSUME NEW p \in Payments, JobReconcile(w, p) PROVE IInv'
  <2>1. PaymentInv(p)
    BY DEF IInv, TablesInv
  <2>2. CASE gateway[p] \in {"authorized", "captured"}
    <3>1. payment[p] # "none" /\ gateway' = [gateway EXCEPT ![p] = "captured"]
      BY <1>3, <2>1, <2>2 DEF PaymentInv, JobReconcile
    <3>2. gateway'[p] = "captured" /\ GatewayMovesOn
      BY <3>1 DEF IInv, TypeOK, GatewayMovesOn
    <3>3. /\ job'[w] = [Idle EXCEPT !.pc = "finalize", !.pay = p]
          /\ \A v \in Workers \ {w} : job'[v] = job[v]
      BY <1>1, <1>3, <2>2, Tasks, Doing DEF JobReconcile
    <3>4. JobInv(w)'
      BY <3>2, <3>3, Started
    <3>5. QED
      BY <1>3, <3>2, <3>3, <3>4, Quiet DEF JobReconcile
  <2>3. CASE gateway[p] \notin {"authorized", "captured"}
    <3>1. PICK S \in SUBSET Payments : Do(w, [job[w] EXCEPT !.todo = S])
      <4>1. job[w].todo \ {p} \in SUBSET Payments
        BY <1>1 DEF JobType
      <4>2. QED
        BY <1>3, <2>3, <4>1 DEF JobReconcile
    <3>2. /\ job'[w] = [job[w] EXCEPT !.todo = S] /\ "job_check" \in Pcs
          /\ \A v \in Workers \ {w} : job'[v] = job[v]
      BY <1>1, <3>1, TaskEdits, Doing DEF Pcs
    <3>3. job'[w].pc = "job_check" /\ job'[w].order \in Orders
      BY <1>1, <1>3, <3>2, TaskFields DEF JobReconcile, At, JobInv
    <3>4. JobInv(w)'
      BY <3>3 DEF JobInv, OwesRefund, At
    <3>5. QED
      BY <1>3, <2>3, <3>2, <3>4, Quiet DEF JobReconcile, GatewayMovesOn
  <2>4. QED
    BY <2>2, <2>3
<1>4. CASE JobClose(w)
  <2>1. job[w].order \in Orders
    BY <1>1, <1>4 DEF JobClose, JobInv
  <2>2. \A v \in Workers : job'[v] = job[v] \/ job'[v] = Idle
    BY <1>1, <1>4, Tasks, Doing DEF JobClose, Done
  <2>3. UNCHANGED <<lane, gateway, refund>>
    BY <1>4 DEF JobClose
  <2>4. CASE Close(job[w].order)
    BY <2>1, <2>2, <2>3, <2>4, CloseKeeps
  <2>5. CASE UNCHANGED <<status, payment>>
    BY <2>2, <2>3, <2>5, Quiet DEF GatewayMovesOn
  <2>6. QED
    BY <1>4, <2>4, <2>5 DEF JobClose
<1>5. QED
  BY <1>2, <1>3, <1>4 DEF ReleaseJob

LEMMA CancelPaidKeeps ==
  ASSUME IInv, TypeOK', NEW w \in Workers, NEW o \in Orders, CancelPaid(w, o)
  PROVE  IInv'
<1>1. PICK p \in PaymentsOf(o) : payment[p] = "paid"
  BY DEF IInv, TablesInv, OrderInv, CancelPaid
<1>2. /\ status[o] = "confirmed" /\ status'[o] = "cancelled"
      /\ \A x \in Orders \ {o} : status'[x] = status[x]
      /\ payment' = payment /\ lane' = lane /\ gateway' = gateway /\ refund' = refund
  BY DEF CancelPaid, OrderIs, IInv, TypeOK
<1>3. Forward
  BY <1>2 DEF Forward
<1>4. TablesInv'
  <2>1. OneActivePayment'
    BY <1>2 DEF OneActivePayment, IInv, TablesInv
  <2>2. \A q \in Payments : PaymentInv(q)'
    BY <1>2, OrderOfAssumption DEF PaymentInv, IInv, TablesInv
  <2>3. \A x \in Orders : OrderInv(x)'
    BY <1>2 DEF OrderInv, PaymentsOf, IInv, TablesInv
  <2>4. QED
    BY <2>1, <2>2, <2>3 DEF TablesInv
<1>5. /\ job'[w] = [Idle EXCEPT !.pc = "cancel_find", !.order = o]
      /\ \A v \in Workers \ {w} : job'[v] = job[v]
  BY Tasks, Doing DEF CancelPaid, IInv, TypeOK
<1>6. job'[w].pc = "cancel_find" /\ job'[w].order = o
  BY <1>5 DEF Idle
<1>7. JobInv(w)'
  BY <1>1, <1>2, <1>6 DEF JobInv, OwesRefund, At, PaymentsOf
<1>8. QED
  BY <1>2, <1>3, <1>4, <1>5, <1>7, Assemble

LEMMA CancelFindKeeps ==
  ASSUME IInv, TypeOK', NEW w \in Workers, CancelFind(w)
  PROVE  IInv'
<1>1. job[w] \in JobType /\ job \in [Workers -> JobType] /\ JobInv(w)
  BY DEF IInv, TypeOK
<1>2. CASE Done(w)
  BY <1>1, <1>2, Tasks, Doing, Quiet DEF CancelFind, GatewayMovesOn, Done
<1>3. ASSUME NEW p \in PaymentsOf(job[w].order), payment[p] \in Taken, Do(w, ToRefund(p, TRUE)) PROVE IInv'
  <2>1. p \in Payments /\ status[OrderOf[p]] \in {"cancelled", "refunded"}
    BY <1>1 DEF CancelFind, JobInv, PaymentsOf
  <2>2. Refunding(p, TRUE)'
    BY <1>3, <2>1 DEF CancelFind, Refunding
  <2>3. job'[w] = ToRefund(p, TRUE) /\ \A v \in Workers \ {w} : job'[v] = job[v]
    BY <1>1, <1>3, <2>1, Tasks, Doing
  <2>4. JobInv(w)'
    BY <2>2, <2>3, StartedRefund
  <2>5. QED
    BY <2>3, <2>4, Quiet DEF CancelFind, GatewayMovesOn
<1>4. QED
  BY <1>2, <1>3 DEF CancelFind, Taken

LEMMA StepKeeps == TypeOK' /\ OneLane /\ IInv /\ [Next]_vars => IInv'
<1> SUFFICES ASSUME TypeOK', OneLane, IInv, [Next]_vars PROVE IInv'
  OBVIOUS
<1>1. job \in [Workers -> JobType] /\ gateway \in [Payments -> GatewayStates]
  BY DEF IInv, TypeOK
<1>2. ASSUME NEW w \in Workers, Crash(w) PROVE IInv'
  BY <1>1, <1>2, Tasks, Doing, Quiet DEF Crash, Done, GatewayMovesOn
<1>3. ASSUME NEW w \in Workers, NEW p \in Payments, Verify(w, p) \/ Webhook(w, p) PROVE IInv'
  <2>1. gateway'[p] = "captured" /\ GatewayMovesOn
    BY <1>1, <1>3 DEF Verify, Webhook, GatewayMovesOn
  <2>2. /\ job'[w] = [Idle EXCEPT !.pc = "finalize", !.pay = p]
        /\ \A v \in Workers \ {w} : job'[v] = job[v]
    BY <1>1, <1>3, Tasks, Doing DEF Verify, Webhook
  <2>3. JobInv(w)'
    BY <2>1, <2>2, Started
  <2>4. QED
    BY <1>3, <2>1, <2>2, <2>3, Quiet DEF Verify, Webhook
<1>4. ASSUME NEW p \in Payments, Authorize(p) \/ Capture(p) PROVE IInv'
  <2>1. payment[p] # "none"
    BY <1>4 DEF Authorize, Capture, IInv, TablesInv, PaymentInv
  <2>2. QED
    BY <1>1, <1>4, <2>1, Quiet DEF Authorize, Capture, GatewayMovesOn
<1>5. ASSUME NEW o \in Orders, CancelUnpaid(o) PROVE IInv'
  BY <1>5, CloseKeeps DEF CancelUnpaid
<1>6. ASSUME NEW o \in Orders, Expire(o) PROVE IInv'
  BY <1>6, Quiet DEF Expire, GatewayMovesOn
<1>7. ASSUME NEW o \in Orders, Pack(o) PROVE IInv'
  <2>1. /\ status[o] = "confirmed" /\ status'[o] = "packed"
        /\ \A x \in Orders \ {o} : status'[x] = status[x]
        /\ payment' = payment /\ lane' = lane /\ gateway' = gateway /\ refund' = refund /\ job' = job
    BY <1>7 DEF Pack, OrderIs, IInv, TypeOK
  <2>2. Forward
    BY <2>1 DEF Forward
  <2>3. OneActivePayment'
    BY <2>1 DEF OneActivePayment, IInv, TablesInv
  <2>4. \A q \in Payments : PaymentInv(q)'
    BY <2>1, OrderOfAssumption DEF PaymentInv, IInv, TablesInv
  <2>5. \A x \in Orders : OrderInv(x)'
    BY <2>1 DEF OrderInv, PaymentsOf, IInv, TablesInv
  <2>6. QED
    BY <2>1, <2>2, <2>3, <2>4, <2>5, Assemble DEF TablesInv
<1>8. ASSUME NEW r \in Refunds, Settle(r) PROVE IInv'
  BY <1>8, Quiet DEF Settle, GatewayMovesOn
<1>9. ASSUME UNCHANGED vars PROVE IInv'
  BY <1>9, Quiet DEF vars, GatewayMovesOn
<1>10. QED
  BY <1>2, <1>3, <1>4, <1>5, <1>6, <1>7, <1>8, <1>9, SessionKeeps, FinalizeKeeps, RefundKeeps, JobKeeps,
     CancelPaidKeeps, CancelFindKeeps DEF Next, Customer

LEMMA Starts == Init => IInv
<1> SUFFICES ASSUME Init PROVE IInv
  OBVIOUS
<1>1. TablesInv
  BY OrderOfAssumption DEF Init, TablesInv, OneActivePayment, PaymentInv, OrderInv, Taken
<1>2. \A r \in Refunds : RefundInv(r)
  BY DEF Init, RefundInv, NoRefund
<1>3. \A w \in Workers : JobInv(w)
  BY DEF Init, JobInv, OwesRefund, At, Idle
<1>4. QED
  BY <1>1, <1>2, <1>3, TypeInit DEF IInv

LEMMA Invariant == ASSUME OneLane PROVE Spec => []IInv
<1>1. IInv /\ [Next]_vars => IInv'
  BY TypeStep, StepKeeps DEF IInv
<1>2. QED
  BY <1>1, Starts, PTL DEF Spec

-----------------------------------------------------------------------------
(* The payment an order was packed with is kept.                           *)

(* The requests that are about to give a payment back as a whole.          *)
Before == {"cancel_find", "refund_read", "refund_create"}

Away == \A w \in Workers : job'[w] = job[w] \/ job'[w].pc \notin Before

(* A task that is not about to refund, and the edits of one.               *)
LEMMA MovesAway ==
  ASSUME TypeOK, NEW w \in Workers, NEW t, Do(w, t), t.pc \notin Before
  PROVE  Away
BY DEF Do, TypeOK, Away

LEMMA AwayTasks ==
  ASSUME NEW t \in JobType
  PROVE  /\ Idle.pc \notin Before
         /\ \A pc : pc \notin Before =>
              /\ [t EXCEPT !.pc = pc].pc \notin Before
              /\ \A x : [t EXCEPT !.pc = pc, !.pay = x].pc \notin Before
              /\ \A x : [t EXCEPT !.pc = pc, !.settled = x].pc \notin Before
              /\ \A x : [t EXCEPT !.pc = pc, !.refund = x].pc \notin Before
              /\ \A x : [Idle EXCEPT !.pc = pc, !.pay = x].pc \notin Before
              /\ \A x, y : [Idle EXCEPT !.pc = pc, !.pay = x, !.amount = y].pc \notin Before
              /\ \A x, y : [Idle EXCEPT !.pc = pc, !.order = x, !.lane = y].pc \notin Before
              /\ \A x, y : [Idle EXCEPT !.pc = pc, !.order = x, !.todo = y].pc \notin Before
         /\ \A x : [t EXCEPT !.todo = x].pc = t.pc
         /\ {"idle", "session_find", "session_retire", "session_insert", "finalize", "job_check", "refund_call",
              "refund_record", "refund_sync", "refund_catch", "deposit_create"} \cap Before = {}
BY DEF Before, Idle, JobType

LEMMA SessionAway ==
  ASSUME TypeOK, NEW w \in Workers, JobInv(w), Session(w)
  PROVE  Away
<1>0. job[w] \in JobType
  BY DEF TypeOK
<1>1. ASSUME NEW o \in Orders, NEW g \in Gateways, SessionOpen(w, o, g) PROVE Away
  BY <1>1, <1>0, AwayTasks, MovesAway DEF SessionOpen
<1>2. CASE SessionFind(w)
  BY <1>2, <1>0, AwayTasks, MovesAway DEF SessionFind, Done
<1>3. CASE SessionRetire(w)
  BY <1>3 DEF SessionRetire, JobInv
<1>4. ASSUME NEW p \in Payments, SessionInsert(w, p) PROVE Away
  BY <1>4, <1>0, AwayTasks, MovesAway DEF SessionInsert, Done
<1>5. CASE SessionEnd(w)
  BY <1>5, <1>0, AwayTasks, MovesAway DEF SessionEnd, Done
<1>. QED
  BY <1>1, <1>2, <1>3, <1>4, <1>5 DEF Session

LEMMA JobAway ==
  ASSUME TypeOK, NEW w \in Workers, ReleaseJob(w)
  PROVE  Away
<1>0. job[w] \in JobType
  BY DEF TypeOK
<1>1. ASSUME NEW o \in Orders, JobRead(w, o) PROVE Away
  BY <1>0, <1>1, AwayTasks, MovesAway DEF JobRead
<1>2. ASSUME NEW p \in Payments, JobReconcile(w, p) PROVE Away
  BY <1>0, <1>2, AwayTasks, MovesAway DEF JobReconcile, At
<1>3. CASE JobClose(w)
  BY <1>0, <1>3, AwayTasks, MovesAway DEF JobClose, Done
<1>. QED
  BY <1>1, <1>2, <1>3 DEF ReleaseJob

(* The steps of a refund after its row is there.                           *)
LEMMA RefundAway ==
  ASSUME TypeOK, NEW w \in Workers, Refund(w), ~ RefundRead(w)
  PROVE  Away
<1>0. job[w] \in JobType
  BY DEF TypeOK
<1>1. CASE RefundCall(w)
  <2>1. PICK b : Do(w, [job[w] EXCEPT !.pc = "refund_record", !.settled = b])
    BY <1>1 DEF RefundCall
  <2>. QED  BY <1>0, <2>1, AwayTasks, MovesAway
<1>2. CASE RefundError(w) \/ RefundRecord(w) \/ RefundSync(w) \/ RefundAbort(w) \/ RefundCatch(w)
  BY <1>0, <1>2, AwayTasks, MovesAway DEF RefundError, RefundRecord, RefundSync, RefundAbort, RefundCatch, Done
<1>3. ASSUME NEW r \in Refunds, RefundCreate(w, r) \/ DepositCreate(w, r) PROVE Away
  BY <1>0, <1>3, AwayTasks, MovesAway DEF RefundCreate, DepositCreate
<1>4. ASSUME NEW r \in Refunds, RefundWebhook(w, r) PROVE Away
  <2>1. CASE refund[r].ref
    BY <1>0, <1>4, <2>1, AwayTasks, MovesAway DEF RefundWebhook
  <2>2. CASE ~ refund[r].ref
    BY <1>4, <2>2 DEF RefundWebhook, Away
  <2>. QED  BY <2>1, <2>2
<1>5. ASSUME NEW o \in Orders, DepositRead(w, o) PROVE Away
  <2>1. PICK q : Do(w, [Idle EXCEPT !.pc = "deposit_create", !.pay = q, !.amount = Deposit])
    BY <1>5 DEF DepositRead
  <2>. QED  BY <1>0, <2>1, AwayTasks, MovesAway
<1>. QED
  BY <1>1, <1>2, <1>3, <1>4, <1>5 DEF Refund

(* No step writes whose refund a row is and what it is for.                *)
LEMMA RowsStay ==
  ASSUME TypeOK, NEW w \in Workers, Refund(w)
  PROVE  \A r \in Refunds : \/ refund'[r].pay = refund[r].pay /\ (refund'[r].item <=> refund[r].item)
                            \/ /\ RefundCreate(w, r) \/ DepositCreate(w, r)
                               /\ refund'[r].pay = job[w].pay /\ (refund'[r].item <=> At(w, "deposit_create"))
<1>1. refund \in [Refunds -> RefundType]
  BY DEF TypeOK
<1>2. ASSUME NEW r, NEW s, \/ refund' = [refund EXCEPT ![r] = [refund[r] EXCEPT !.status = s]]
                           \/ refund' = [refund EXCEPT ![r] = [refund[r] EXCEPT !.status = s, !.ref = TRUE]]
      PROVE  \A x \in Refunds : refund'[x].pay = refund[x].pay /\ (refund'[x].item <=> refund[x].item)
  <2> SUFFICES ASSUME NEW x \in Refunds
               PROVE  refund'[x].pay = refund[x].pay /\ refund'[x].item = refund[x].item
    OBVIOUS
  <2>1. refund[x] \in RefundType
    BY <1>1
  <2>2. \/ refund'[x] = refund[x]
        \/ refund'[x] = [refund[x] EXCEPT !.status = s]
        \/ refund'[x] = [refund[x] EXCEPT !.status = s, !.ref = TRUE]
    BY <1>1, <1>2
  <2>. QED  BY <2>1, <2>2 DEF RefundType
<1>3. CASE \/ RefundRead(w) \/ RefundCall(w) \/ RefundError(w) \/ RefundSync(w) \/ RefundAbort(w)
           \/ \E o \in Orders : DepositRead(w, o)
  BY <1>3 DEF RefundRead, RefundCall, RefundError, RefundSync, RefundAbort, DepositRead
<1>4. CASE RefundRecord(w) \/ RefundCatch(w)
  <2>1. CASE RefundRecord(w)
    BY <1>2, <2>1 DEF RefundRecord
  <2>2. CASE RefundCatch(w)
    BY <1>2, <2>2 DEF RefundCatch
  <2>. QED  BY <1>4, <2>1, <2>2
<1>5. ASSUME NEW r \in Refunds, RefundCreate(w, r) \/ DepositCreate(w, r)
      PROVE  /\ refund'[r].pay = job[w].pay /\ (refund'[r].item <=> At(w, "deposit_create"))
             /\ \A x \in Refunds \ {r} : refund'[x] = refund[x]
  BY <1>1, <1>5 DEF RefundCreate, DepositCreate, At
<1>6. ASSUME NEW r \in Refunds, RefundWebhook(w, r)
      PROVE  \A x \in Refunds : refund'[x].pay = refund[x].pay /\ (refund'[x].item <=> refund[x].item)
  <2>1. refund' = refund \/ \E s : refund' = [refund EXCEPT ![r] = [refund[r] EXCEPT !.status = s]]
    BY <1>6 DEF RefundWebhook
  <2>. QED  BY <1>2, <2>1
<1>. QED
  BY <1>3, <1>4, <1>5, <1>6, <1>2 DEF Refund

(* Nobody gives payment p back as a whole, or has asked for it.            *)
Kept(p) ==
  /\ payment[p] \in Taken
  /\ \A r \in Refunds : refund[r].pay = p => refund[r].item
  /\ \A w \in Workers : job[w].pc \in {"refund_read", "refund_create"} => job[w].pay # p

KeptInv == \A o \in Orders : status[o] = "packed" => \E p \in PaymentsOf(o) : Kept(p)

(* What a step does to the payments of a packed order.                     *)
RowsLeave(p) ==
  \A r \in Refunds : \/ refund'[r].pay = refund[r].pay /\ (refund'[r].item <=> refund[r].item)
                     \/ (refund'[r].pay = p => refund'[r].item)

TasksLeave(p) ==
  \A w \in Workers : job'[w].pc \in {"refund_read", "refund_create"} /\ job'[w].pay = p =>
    job[w].pc \in {"refund_read", "refund_create"} /\ job[w].pay = p

Leaves(p) == payment'[p] \in Taken /\ RowsLeave(p) /\ TasksLeave(p)

LEMMA KeptStays ==
  ASSUME TypeOK, NEW p \in Payments, Kept(p), Leaves(p)
  PROVE  Kept(p)'
BY DEF Kept, Leaves, RowsLeave, TasksLeave

(* A task that gives payment p back is started only for a payment that was *)
(* not claimed before, or for an order that is not packed.                 *)
LEMMA TaskLeaves ==
  ASSUME TypeOK, NEW p, NEW w \in Workers, NEW t, Do(w, t),
         t.pc \in {"refund_read", "refund_create"} /\ t.pay = p =>
           job[w].pc \in {"refund_read", "refund_create"} /\ job[w].pay = p
  PROVE  TasksLeave(p)
BY DEF Do, TypeOK, TasksLeave

LEMMA AwayLeaves ==
  ASSUME Away, NEW p
  PROVE  TasksLeave(p)
BY DEF Away, TasksLeave, Before

LEMMA FinalizeLeaves ==
  ASSUME IInv, NEW p \in Payments, payment[p] \in Taken, NEW w \in Workers, Finalize(w)
  PROVE  Leaves(p)
<1>0. TypeOK /\ refund' = refund
  BY DEF IInv, Finalize, FinalizeNothing, FinalizeConfirm, FinalizeRefund, Claim
<1>1. payment'[p] \in Taken
  BY DEF Finalize, FinalizeNothing, FinalizeConfirm, FinalizeRefund, Claim, PaymentIs, IInv, TypeOK, Taken
<1>2. CASE FinalizeNothing(w) \/ FinalizeConfirm(w)
  <2>1. Do(w, Idle) /\ Idle.pc \notin {"refund_read", "refund_create"}
    BY <1>2 DEF FinalizeNothing, FinalizeConfirm, Done, Idle
  <2>. QED
    BY <1>0, <1>1, <2>1, TaskLeaves DEF Leaves, RowsLeave
<1>3. CASE FinalizeRefund(w)
  <2>1. PICK m : Do(w, ToRefund(job[w].pay, m))
    BY <1>3 DEF FinalizeRefund
  <2>2. ToRefund(job[w].pay, m).pay = job[w].pay
    BY DEF ToRefund, Idle
  <2>3. payment[job[w].pay] \in {"pending", "failed"}
    BY <1>3, Claiming DEF FinalizeRefund
  <2>4. job[w].pay # p
    BY <2>3 DEF Taken
  <2>. QED
    BY <1>0, <1>1, <2>1, <2>2, <2>4, TaskLeaves DEF Leaves, RowsLeave
<1>. QED
  BY <1>2, <1>3 DEF Finalize

LEMMA RefundLeaves ==
  ASSUME IInv, NEW p \in Payments, Kept(p), NEW w \in Workers, Refund(w)
  PROVE  Leaves(p)
<1>0. TypeOK /\ job[w] \in JobType /\ payment[p] \in Taken
  BY DEF Kept, IInv, TypeOK
<1>1. payment'[p] \in Taken
  <2>1. payment' = payment \/ \E q : PaymentIs(q, "refunded") \/ PaymentIs(q, "partially_refunded")
    BY DEF Refund, RefundRead, RefundCreate, DepositRead, DepositCreate, RefundCall, RefundError, RefundRecord,
           RefundSync, RefundAbort, RefundCatch, RefundWebhook
  <2>. QED
    BY <1>0, <2>1 DEF Taken, PaymentIs, TypeOK
<1>2. RowsLeave(p)
  <2>1. \A r \in Refunds : RefundCreate(w, r) => job[w].pay # p
    BY DEF Kept, RefundCreate, At
  <2>2. \A r \in Refunds : DepositCreate(w, r) => At(w, "deposit_create")
    BY DEF DepositCreate
  <2>. QED
    BY <1>0, <2>1, <2>2, RowsStay DEF RowsLeave
<1>3. TasksLeave(p)
  <2>1. CASE RefundRead(w)
    <3>1. CASE Done(w)
      BY <1>0, <3>1, TaskLeaves DEF Done, Idle
    <3>2. PICK a : ~ Done(w) => Do(w, [job[w] EXCEPT !.pc = "refund_create", !.amount = a])
      BY <2>1 DEF RefundRead
    <3>3. [job[w] EXCEPT !.pc = "refund_create", !.amount = a].pay = job[w].pay
      BY <1>0 DEF JobType
    <3>. QED
      BY <1>0, <2>1, <3>1, <3>2, <3>3, TaskLeaves DEF RefundRead, At
  <2>. QED
    BY <1>0, <2>1, RefundAway, AwayLeaves
<1>. QED
  BY <1>1, <1>2, <1>3 DEF Leaves

(* Requests that do not look at refunds.                                   *)
LEMMA OtherLeaves ==
  ASSUME IInv, NEW p \in Payments, payment[p] \in Taken, status[OrderOf[p]] = "packed",
         NEW w \in Workers,
         \/ Session(w) \/ ReleaseJob(w) \/ CancelFind(w) \/ Crash(w)
         \/ \E q \in Payments : Verify(w, q) \/ Webhook(w, q)
         \/ \E o \in Orders : CancelPaid(w, o)
  PROVE  Leaves(p)
<1>0. TypeOK /\ JobInv(w)
  BY DEF IInv
<1>1. refund' = refund
  BY DEF Session, SessionOpen, SessionFind, SessionRetire, SessionInsert, SessionEnd,
         ReleaseJob, JobRead, JobReconcile, JobClose, CancelFind, Crash, Verify, Webhook, CancelPaid
<1>2. payment'[p] \in Taken
  <2>1. CASE Session(w)
    BY <1>0, <2>1 DEF Session, SessionOpen, SessionFind, SessionRetire, SessionInsert, SessionEnd, PaymentIs,
                      JobInv, Taken, TypeOK
  <2>2. CASE ~ Session(w)
    <3>1. payment' = payment \/ \E o : Close(o)
      BY <2>2 DEF ReleaseJob, JobRead, JobReconcile, JobClose, CancelFind, Crash, Verify, Webhook, CancelPaid
    <3>. QED  BY <3>1 DEF Close, Taken
  <2>. QED  BY <2>1, <2>2
<1>3. TasksLeave(p)
  <2>1. CASE Session(w) \/ ReleaseJob(w)
    BY <1>0, <2>1, SessionAway, JobAway, AwayLeaves
  <2>2. CASE CancelFind(w)
    <3>1. CASE Done(w)
      BY <1>0, <3>1, TaskLeaves DEF Done, Idle
    <3>2. ASSUME NEW q \in PaymentsOf(job[w].order), Do(w, ToRefund(q, TRUE)) PROVE TasksLeave(p)
      <4>1. q # p
        BY <1>0, <2>2 DEF CancelFind, JobInv, PaymentsOf
      <4>2. ToRefund(q, TRUE).pay = q
        BY DEF ToRefund, Idle
      <4>. QED  BY <1>0, <3>2, <4>1, <4>2, TaskLeaves
    <3>. QED  BY <2>2, <3>1, <3>2 DEF CancelFind
  <2>3. CASE Crash(w)
    BY <1>0, <2>3, TaskLeaves DEF Crash, Done, Idle
  <2>4. ASSUME NEW q \in Payments, Verify(w, q) \/ Webhook(w, q) PROVE TasksLeave(p)
    <3>1. Do(w, [Idle EXCEPT !.pc = "finalize", !.pay = q])
      BY <2>4 DEF Verify, Webhook
    <3>. QED  BY <1>0, <3>1, TaskLeaves DEF Idle
  <2>5. ASSUME NEW o \in Orders, CancelPaid(w, o) PROVE TasksLeave(p)
    <3>1. Do(w, [Idle EXCEPT !.pc = "cancel_find", !.order = o])
      BY <2>5 DEF CancelPaid
    <3>. QED  BY <1>0, <3>1, TaskLeaves DEF Idle
  <2>. QED  BY <2>1, <2>2, <2>3, <2>4, <2>5
<1>. QED
  BY <1>1, <1>2, <1>3 DEF Leaves, RowsLeave

LEMMA PackedLeaves ==
  ASSUME IInv, [Next]_vars, NEW p \in Payments, status[OrderOf[p]] = "packed", Kept(p)
  PROVE  Leaves(p)
<1>0. payment[p] \in Taken
  BY DEF Kept
<1>1. CASE \/ UNCHANGED vars \/ Customer
           \/ \E o \in Orders : Pack(o) \/ Expire(o)
           \/ \E r \in Refunds : Settle(r)
  <2>1. refund' = refund /\ job' = job /\ (payment' = payment \/ \E o : Close(o))
    BY <1>1 DEF vars, Customer, Authorize, Capture, CancelUnpaid, Pack, Expire, Settle
  <2>2. payment'[p] \in Taken
    BY <1>0, <2>1 DEF Close, Taken
  <2>. QED
    BY <2>1, <2>2 DEF Leaves, RowsLeave, TasksLeave
<1>. QED
  BY <1>0, <1>1, FinalizeLeaves, RefundLeaves, OtherLeaves DEF Next

(* An order is packed with a payment nobody is giving back.                *)
LEMMA KeptStep == IInv /\ KeptInv /\ [Next]_vars => KeptInv'
<1> SUFFICES ASSUME IInv, KeptInv, [Next]_vars, NEW o \in Orders, status'[o] = "packed"
             PROVE  \E p \in PaymentsOf(o) : Kept(p)'
  BY DEF KeptInv, PaymentsOf
<1>0. TypeOK
  BY DEF IInv
<1>1. CASE status[o] = "packed"
  <2>1. PICK p \in PaymentsOf(o) : Kept(p)
    BY <1>1 DEF KeptInv
  <2>2. p \in Payments /\ OrderOf[p] = o
    BY <2>1 DEF PaymentsOf
  <2>. QED
    BY <1>0, <1>1, <2>1, <2>2, PackedLeaves, KeptStays
<1>2. CASE status[o] # "packed"
  <2>1. Pack(o)
    BY <1>2, <1>0 DEF Next, vars, Session, SessionOpen, SessionFind, SessionRetire, SessionInsert, SessionEnd,
       Finalize, FinalizeNothing, FinalizeConfirm, FinalizeRefund, Refund, RefundRead, RefundCreate, DepositRead,
       DepositCreate, RefundCall, RefundError, RefundRecord, RefundSync, RefundAbort, RefundCatch, RefundWebhook,
       ReleaseJob, JobRead, JobReconcile, JobClose, Close, CancelFind, Crash, Verify, Webhook, CancelPaid, Customer,
       Authorize, Capture, CancelUnpaid, Pack, Expire, Settle, OrderIs, TypeOK
  <2>2. status[o] = "confirmed" /\ UNCHANGED <<payment, refund, job>>
    BY <2>1 DEF Pack
  <2>3. PICK p \in PaymentsOf(o) : payment[p] = "paid"
    BY <2>2 DEF IInv, TablesInv, OrderInv
  <2>4. p \in Payments /\ OrderOf[p] = o
    BY <2>3 DEF PaymentsOf
  <2>5. \A r \in Refunds : refund[r].pay # p
    BY <2>2, <2>4, NoneAssumption DEF IInv, RefundInv
  <2>6. \A w \in Workers : job[w].pc \in {"refund_read", "refund_create"} => job[w].pay # p
    BY <2>2, <2>4 DEF IInv, JobInv, Refunding
  <2>. QED
    BY <2>2, <2>3, <2>5, <2>6 DEF Kept, Taken
<1>. QED
  BY <1>1, <1>2

LEMMA KeptInvariant == ASSUME OneLane PROVE Spec => [](IInv /\ KeptInv)
<1>1. Init => KeptInv
  BY DEF Init, KeptInv
<1>. QED
  BY <1>1, KeptStep, Invariant, PTL DEF Spec

(* A packed order's kept payment.                                          *)
LEMMA KeptKeeps ==
  ASSUME IInv, KeptInv, NEW o \in Orders, status[o] = "packed"
  PROVE  \E p \in PaymentsOf(o) : Keeps(p)
<1>1. PICK p \in PaymentsOf(o) : Kept(p)
  BY DEF KeptInv
<1>2. p \in Payments /\ PaymentInv(p)
  BY <1>1 DEF PaymentsOf, IInv, TablesInv
<1>. QED
  BY <1>1, <1>2 DEF Kept, Keeps, PaymentInv, RefundsOf

(* An order that stands has been paid, and nobody is giving its money back *)
(* but deposits (finalize.ts, refunds.ts, orders/service.ts, payments/     *)
(* service.ts, release job), when the deployment uses one gateway.         *)
THEOREM KeptArePaid == ASSUME OneLane PROVE Spec => []KeptOrdersArePaid
<1>1. ASSUME IInv, NEW o \in Orders, status[o] = "confirmed"
      PROVE  \E p \in PaymentsOf(o) : Keeps(p) /\ payment[p] = "paid" /\ RefundsOf(p) = {}
  <2>1. PICK p \in PaymentsOf(o) : payment[p] = "paid"
    BY <1>1 DEF IInv, TablesInv, OrderInv
  <2>2. p \in Payments /\ OrderOf[p] = o /\ PaymentInv(p)
    BY <1>1, <2>1 DEF PaymentsOf, IInv, TablesInv
  <2>3. \A r \in Refunds : refund[r].pay # p
    BY <1>1, <2>2, NoneAssumption DEF IInv, RefundInv
  <2>4. RefundsOf(p) = {}
    BY <2>3 DEF RefundsOf
  <2>. QED
    BY <2>1, <2>2, <2>4 DEF Keeps, PaymentInv, Taken
<1>2. IInv /\ KeptInv => KeptOrdersArePaid
  <2> SUFFICES ASSUME IInv, KeptInv, NEW o \in Orders, status[o] \in {"confirmed", "packed"}
               PROVE  \E p \in PaymentsOf(o) :
                        Keeps(p) /\ (status[o] = "confirmed" => payment[p] = "paid" /\ RefundsOf(p) = {})
    BY DEF KeptOrdersArePaid
  <2>. QED
    BY <1>1, KeptKeeps
<1>. QED
  BY <1>2, KeptInvariant, PTL

(* Money goes back only for captured and claimed payments: deposits of     *)
(* packed orders, and payments of closed orders or of orders that another  *)
(* payment keeps (refundPaymentFully never looks at the order; payments/   *)
(* service.ts), when the deployment uses one gateway.                      *)
THEOREM OnlyOwedRefunds == ASSUME OneLane PROVE Spec => []RefundsAreOwed
<1>1. ASSUME IInv, KeptInv, NEW r \in Refunds, refund[r].pay # None, NEW p, p = refund[r].pay, NEW o, o = OrderOf[p]
      PROVE  /\ gateway[p] = "captured" /\ payment[p] \in Taken
             /\ IF refund[r].item THEN status[o] = "packed"
                ELSE status[o] \in {"cancelled", "refunded"}
                     \/ (status[o] = "packed" /\ \E q \in PaymentsOf(o) \ {p} : Keeps(q))
  <2>1. p \in Payments /\ o \in Orders
    BY <1>1, RefundEdits, OrderOfAssumption DEF IInv, TypeOK
  <2>2. /\ payment[p] \in Taken /\ gateway[p] = "captured"
        /\ status[o] \in {"cancelled", "refunded", "packed"}
        /\ status[o] = "packed" \/ ~ refund[r].item
    BY <1>1, <2>1 DEF IInv, TablesInv, RefundInv, PaymentInv
  <2>3. CASE status[o] = "packed" /\ ~ refund[r].item
    <3>1. PICK q \in PaymentsOf(o) : Keeps(q)
      BY <1>1, <2>1, <2>3, KeptKeeps
    <3>2. q # p
      BY <1>1, <2>3, <3>1 DEF Keeps, RefundsOf
    <3>. QED
      BY <2>2, <2>3, <3>1, <3>2
  <2>. QED
    BY <2>2, <2>3
<1>2. IInv /\ KeptInv => RefundsAreOwed
  BY <1>1 DEF RefundsAreOwed
<1>. QED
  BY <1>2, KeptInvariant, PTL

-----------------------------------------------------------------------------
(* The money behind the tables, whatever the gateways.                     *)

HasMoney(p) == p \in Payments /\ gateway[p] = "captured"

(* The requests that act on a payment because its money is there.          *)
Trusting == {"finalize", "refund_read", "refund_create", "deposit_create"}

(* Requests and rows that speak of a payment as paid.                      *)
Backed ==
  /\ \A p \in Payments : payment[p] \in Taken => HasMoney(p)
  /\ \A p \in Payments : payment[p] = "none" => gateway[p] = "none"
  /\ \A o \in Orders : status[o] \in {"confirmed", "packed"} => \E p \in PaymentsOf(o) : HasMoney(p)
  /\ \A r \in Refunds : refund[r].pay # None => HasMoney(refund[r].pay)
  /\ \A w \in Workers : job[w].pc \in Trusting => HasMoney(job[w].pay)

(* What every step has to show for what it writes.                         *)
Covered ==
  /\ \A p \in Payments : \/ payment'[p] = payment[p] /\ gateway'[p] = gateway[p]
                         \/ payment'[p] # "none" /\ (gateway[p] = "captured" => gateway'[p] = "captured")
  /\ \A p \in Payments : payment'[p] \in Taken => payment[p] \in Taken \/ HasMoney(p)
  /\ \A o \in Orders : status'[o] \in {"confirmed", "packed"} =>
       status[o] \in {"confirmed", "packed"} \/ \E p \in PaymentsOf(o) : HasMoney(p)
  /\ \A r \in Refunds : refund'[r].pay = refund[r].pay \/ HasMoney(refund'[r].pay)
  /\ \A w \in Workers : job'[w] = job[w] \/ job'[w].pc \notin Trusting \/ HasMoney(job[w].pay)'

LEMMA CoveredKeeps ==
  ASSUME TypeOK, Backed, Covered
  PROVE  Backed'
<1>1. \A p : HasMoney(p) => HasMoney(p)'
  BY DEF Covered, HasMoney
<1>2. \A p \in Payments : (payment[p] \in Taken)' => HasMoney(p)'
  BY <1>1 DEF Covered, Backed
<1>3. \A p \in Payments : (payment[p] = "none")' => (gateway[p] = "none")'
  BY DEF Covered, Backed
<1>4. \A o \in Orders : (status[o] \in {"confirmed", "packed"})' => \E p \in PaymentsOf(o) : HasMoney(p)'
  BY <1>1 DEF Covered, Backed
<1>5. \A r \in Refunds : (refund[r].pay # None)' => HasMoney(refund[r].pay)'
  BY <1>1 DEF Covered, Backed, HasMoney
<1>6. \A w \in Workers : (job[w].pc \in Trusting)' => HasMoney(job[w].pay)'
  BY <1>1 DEF Covered, Backed, HasMoney
<1>7. QED
  BY <1>2, <1>3, <1>4, <1>5, <1>6 DEF Backed, PaymentsOf

(* A request that is handed a task trusts what the task names.             *)
LEMMA Given ==
  ASSUME TypeOK, NEW w \in Workers, NEW t, Do(w, t),
         t.pc \in Trusting => t.pay \in Payments /\ gateway'[t.pay] = "captured"
  PROVE  \A v \in Workers : job'[v] = job[v] \/ job'[v].pc \notin Trusting \/ HasMoney(job[v].pay)'
BY DEF Do, TypeOK, HasMoney

LEMMA CoveredSession ==
  ASSUME TypeOK, Backed, NEW w \in Workers, Session(w) PROVE Covered
<1> USE DEF TypeOK, Backed, Covered, Trusting, Taken
<1>1. CASE \E o \in Orders : \E g \in Gateways : SessionOpen(w, o, g)
  BY <1>1, Given DEF SessionOpen, Idle
<1>2. CASE SessionFind(w)
  BY <1>2, Given DEF SessionFind, Done, Idle, JobType
<1>3. CASE SessionRetire(w)
  BY <1>3, Given DEF SessionRetire, PaymentIs, JobType
<1>4. CASE SessionEnd(w)
  BY <1>4, Given DEF SessionEnd, Done, Idle
<1>5. ASSUME NEW p \in Payments, SessionInsert(w, p) PROVE Covered
  BY <1>5, Given DEF SessionInsert, PaymentIs, Done, Idle
<1>6. QED
  BY <1>1, <1>2, <1>3, <1>4, <1>5 DEF Session

LEMMA CoveredFinalize ==
  ASSUME TypeOK, Backed, NEW w \in Workers, Finalize(w) PROVE Covered
<1> USE DEF TypeOK, Backed, Covered, Trusting, Taken
<1>0. HasMoney(job[w].pay)
  BY DEF Finalize, FinalizeNothing, FinalizeConfirm, FinalizeRefund, Claim, At
<1>1. CASE FinalizeNothing(w)
  BY <1>1, Given DEF FinalizeNothing, Done, Idle
<1>2. CASE FinalizeConfirm(w)
  BY <1>0, <1>2, Given DEF FinalizeConfirm, Claim, PaymentIs, OrderIs, Done, Idle, HasMoney, PaymentsOf
<1>3. CASE FinalizeRefund(w)
  BY <1>0, <1>3, Given DEF FinalizeRefund, Claim, PaymentIs, ToRefund, Idle, HasMoney
<1>4. QED
  BY <1>1, <1>2, <1>3 DEF Finalize

LEMMA CoveredRefund ==
  ASSUME TypeOK, Backed, NEW w \in Workers, Refund(w) PROVE Covered
<1> USE DEF TypeOK, Backed, Covered, Trusting, Taken
<1>1. CASE RefundRead(w)
  <2>1. CASE Done(w)
    BY <1>1, <2>1, Given DEF RefundRead, Done, Idle
  <2>2. PICK a : ~ Done(w) => Do(w, [job[w] EXCEPT !.pc = "refund_create", !.amount = a])
    BY <1>1 DEF RefundRead
  <2>3. [job[w] EXCEPT !.pc = "refund_create", !.amount = a].pay = job[w].pay
    BY DEF JobType
  <2>4. HasMoney(job[w].pay)
    BY <1>1 DEF RefundRead, At
  <2>5. ~ Done(w) => \A v \in Workers : job'[v] = job[v] \/ job'[v].pay = job[w].pay
    BY <2>2, <2>3 DEF Do
  <2>6. QED
    BY <1>1, <2>1, <2>4, <2>5 DEF RefundRead, HasMoney
<1>2. ASSUME NEW r \in Refunds, RefundCreate(w, r) \/ DepositCreate(w, r) PROVE Covered
  <2>1. HasMoney(job[w].pay)
    BY <1>2 DEF RefundCreate, DepositCreate, At
  <2>2. \A v \in Workers : job'[v] = job[v] \/ job'[v].pc \notin Trusting
    <3>1. [job[w] EXCEPT !.pc = "refund_call", !.refund = r].pc = "refund_call"
      BY DEF JobType
    <3>2. Do(w, [job[w] EXCEPT !.pc = "refund_call", !.refund = r])
      BY <1>2 DEF RefundCreate, DepositCreate
    <3>. QED
      BY <3>1, <3>2 DEF Do
  <2>3. \A x \in Refunds : refund'[x].pay = refund[x].pay \/ refund'[x].pay = job[w].pay
    BY <1>2 DEF RefundCreate, DepositCreate
  <2>4. QED
    BY <1>2, <2>1, <2>2, <2>3 DEF RefundCreate, DepositCreate
<1>3. CASE RefundCall(w) \/ RefundError(w) \/ RefundAbort(w)
  BY <1>3, Given DEF RefundCall, RefundError, RefundAbort, JobType
<1>4. CASE RefundRecord(w)
  BY <1>4, Given DEF RefundRecord, OrderIs, JobType, RefundType
<1>5. CASE RefundSync(w)
  <2>1. ASSUME Total(job[w].pay) > 0, job[w].pay \in Payments PROVE HasMoney(job[w].pay)
    <3>1. TypeOK
      OBVIOUS
    <3>2. PICK r \in Refunds : refund[r].pay = job[w].pay
      BY <2>1, <3>1, Totals
    <3>. QED
      BY <2>1, <3>2, NoneAssumption
  <2>2. payment' = payment \/ (Total(job[w].pay) > 0 /\ \E s \in {"refunded", "partially_refunded"} : PaymentIs(job[w].pay, s))
    BY <1>5 DEF RefundSync
  <2>3. ASSUME NEW p \in Payments, payment'[p] # payment[p]
        PROVE  payment'[p] \in {"refunded", "partially_refunded"} /\ HasMoney(p)
    <3>1. PICK q : q = job[w].pay
      OBVIOUS
    <3>2. PICK s \in {"refunded", "partially_refunded"} : PaymentIs(q, s)
      BY <2>2, <2>3, <3>1
    <3>3. p = q /\ payment'[p] = s
      BY <2>3, <3>2 DEF PaymentIs
    <3>. QED
      BY <2>1, <2>2, <2>3, <3>1, <3>3
  <2>4. QED
    BY <1>5, <2>3, Given DEF RefundSync, Done, Idle
<1>6. CASE RefundCatch(w)
  BY <1>6, Given DEF RefundCatch, Done, Idle, RefundType
<1>7. ASSUME NEW r \in Refunds, RefundWebhook(w, r) PROVE Covered
  <2>1. \A x \in Refunds : refund'[x].pay = refund[x].pay
    BY <1>7 DEF RefundWebhook, RefundType
  <2>2. \A v \in Workers : job'[v] = job[v] \/ job'[v].pc \notin Trusting
    BY <1>7 DEF RefundWebhook, Do, Idle
  <2>3. QED
    BY <1>7, <2>1, <2>2 DEF RefundWebhook
<1>8. ASSUME NEW o \in Orders, DepositRead(w, o) PROVE Covered
  <2>1. PICK p \in PaymentsOf(o) :
          /\ payment[p] \in {"paid", "partially_refunded"}
          /\ Do(w, [Idle EXCEPT !.pc = "deposit_create", !.pay = p, !.amount = Deposit])
    BY <1>8 DEF DepositRead
  <2>2. HasMoney(p)
    BY <2>1 DEF PaymentsOf
  <2>3. \A v \in Workers : job'[v] = job[v] \/ job'[v].pay = p
    BY <2>1 DEF Do, Idle
  <2>4. QED
    BY <1>8, <2>2, <2>3 DEF DepositRead, HasMoney
<1>9. QED
  BY <1>1, <1>2, <1>3, <1>4, <1>5, <1>6, <1>7, <1>8 DEF Refund

LEMMA CoveredStep ==
  ASSUME TypeOK, Backed, [Next]_vars PROVE Covered
<1> USE DEF TypeOK, Backed, Covered, Trusting, Taken
<1>1. ASSUME NEW w \in Workers, ReleaseJob(w) PROVE Covered
  <2>1. ASSUME NEW o \in Orders, JobRead(w, o) PROVE Covered
    BY <2>1, Given DEF JobRead, Idle
  <2>2. ASSUME NEW p \in Payments, JobReconcile(w, p) PROVE Covered
    <3>1. CASE gateway[p] \in {"authorized", "captured"}
      BY <2>2, <3>1, Given DEF JobReconcile, Idle
    <3>2. CASE gateway[p] \notin {"authorized", "captured"}
      BY <2>2, <3>2, Given DEF JobReconcile, JobType, At
    <3>3. QED
      BY <3>1, <3>2
  <2>3. CASE JobClose(w)
    BY <2>3, Given DEF JobClose, Close, OrderIs, Done, Idle
  <2>4. QED
    BY <1>1, <2>1, <2>2, <2>3 DEF ReleaseJob
<1>2. ASSUME NEW w \in Workers, CancelFind(w) PROVE Covered
  <2>1. CASE Done(w)
    BY <1>2, <2>1, Given DEF CancelFind, Done, Idle
  <2>2. ASSUME NEW p \in PaymentsOf(job[w].order), payment[p] \in Taken, Do(w, ToRefund(p, TRUE)) PROVE Covered
    <3>1. HasMoney(p)
      BY <2>2 DEF PaymentsOf
    <3>2. \A v \in Workers : job'[v] = job[v] \/ job'[v].pay = p
      BY <2>2 DEF Do, ToRefund, Idle
    <3>3. QED
      BY <1>2, <3>1, <3>2 DEF CancelFind, HasMoney
  <2>3. QED
    BY <1>2, <2>1, <2>2 DEF CancelFind
<1>3. ASSUME NEW w \in Workers, Crash(w) PROVE Covered
  BY <1>3, Given DEF Crash, Done, Idle
<1>4. ASSUME NEW w \in Workers, NEW p \in Payments, Verify(w, p) \/ Webhook(w, p) PROVE Covered
  BY <1>4, Given DEF Verify, Webhook, Idle, HasMoney
<1>5. ASSUME NEW w \in Workers, NEW o \in Orders, CancelPaid(w, o) PROVE Covered
  BY <1>5, Given DEF CancelPaid, OrderIs, Idle
<1>6. CASE Customer
  BY <1>6 DEF Customer, Authorize, Capture, CancelUnpaid, Close, OrderIs
<1>7. CASE \/ \E o \in Orders : Pack(o) \/ Expire(o)
           \/ \E r \in Refunds : Settle(r)
           \/ UNCHANGED vars
  BY <1>7 DEF Pack, Expire, OrderIs, Settle, vars
<1>8. QED
  BY <1>1, <1>2, <1>3, <1>4, <1>5, <1>6, <1>7, CoveredSession, CoveredFinalize, CoveredRefund DEF Next

(* What the tables call paid has money behind it, with any number of       *)
(* gateways, any sessions open on each, and any requests dying on the way  *)
(* (payments/service.ts, finalize.ts, refunds.ts): no assumption on lanes. *)
THEOREM PaidIsCaptured == Spec => []PaidMeansCaptured
<1>1. Init => TypeOK /\ Backed
  BY TypeInit DEF Init, Backed, NoRefund, Idle, Trusting, Taken
<1>2. TypeOK /\ Backed /\ [Next]_vars => TypeOK' /\ Backed'
  BY TypeStep, CoveredStep, CoveredKeeps
<1>3. Backed => PaidMeansCaptured
  BY DEF Backed, PaidMeansCaptured, HasMoney
<1>4. QED
  BY <1>1, <1>2, <1>3, PTL DEF Spec

-----------------------------------------------------------------------------
(* No payment is given back as a whole twice, and the requests of          *)
(* OrderPayments keep the ledger of OrderMoney, for any number of orders,  *)
(* payments, requests and faults, as long as the deployment keeps to one   *)
(* gateway.                                                                *)
(*                                                                         *)
(* The argument: what makes a request refund a payment happens once in the *)
(* payment's life, the claim that comes too late or the cancellation of    *)
(* the order it paid, because the order cannot stand again while the       *)
(* payment is recorded as paid.  So there is one such request and one row  *)
(* that is not a deposit's, although nothing locks the payment between     *)
(* reading its refunds and writing the row.                                *)

(* One refund per payment.                                                 *)

(* The request is going to give payment p back and has no Refund row yet.  *)
GivingBack(w, p) ==
  \/ At(w, "cancel_find") /\ OrderOf[p] = job[w].order /\ payment[p] = "paid"
  \/ job[w].pc \in {"refund_read", "refund_create"} /\ job[w].pay = p

(* One request gives a payment back, once: the claim or the cancellation   *)
(* that sent it happens once, and its row stays.                           *)
OnceInv ==
  /\ \A v, w \in Workers, p \in Payments : GivingBack(v, p) /\ GivingBack(w, p) => v = w
  /\ \A w \in Workers, p \in Payments, r \in Refunds : GivingBack(w, p) /\ refund[r].pay = p => refund[r].item
  /\ \A r, s \in Refunds :
       refund[r].pay # None /\ refund[r].pay = refund[s].pay /\ ~ refund[r].item /\ ~ refund[s].item => r = s
  /\ \A r \in Refunds : returned[r] # "none" => refund[r].pay # None
  /\ \A w \in Workers : At(w, "cancel_find") => \E p \in PaymentsOf(job[w].order) : payment[p] = "paid"

(* A step that starts no whole refund and writes deposits' rows only.      *)
OnlyDeposits ==
  \A r \in Refunds : \/ refund'[r].pay = refund[r].pay /\ (refund'[r].item <=> refund[r].item)
                     \/ refund[r].pay = None /\ refund'[r].pay # None /\ refund'[r].item

LEMMA NoRows == refund' = refund => OnlyDeposits
BY DEF OnlyDeposits

LEMMA OnceQuiet ==
  ASSUME OnceInv,
         \A p \in Payments : payment'[p] = payment[p] \/ (payment'[p] # "paid" /\ payment[p] # "paid"),
         OnlyDeposits,
         \A r \in Refunds : returned'[r] # "none" => returned[r] # "none" \/ refund[r].pay # None,
         Away
  PROVE  OnceInv'
<1>1. \A w \in Workers, p \in Payments : GivingBack(w, p)' => GivingBack(w, p)
  BY DEF GivingBack, At, Before, Away
<1>2. \A w \in Workers : (At(w, "cancel_find") => \E p \in PaymentsOf(job[w].order) : payment[p] = "paid")'
  <2> SUFFICES ASSUME NEW w \in Workers, At(w, "cancel_find")'
               PROVE  \E p \in PaymentsOf(job'[w].order) : payment'[p] = "paid"
    BY DEF PaymentsOf
  <2>1. job'[w] = job[w] /\ At(w, "cancel_find")
    BY DEF At, Before, Away
  <2>2. PICK p \in PaymentsOf(job[w].order) : payment[p] = "paid"
    BY <2>1 DEF OnceInv
  <2>3. QED
    BY <2>1, <2>2 DEF PaymentsOf
<1>3. QED
  BY <1>1, <1>2 DEF OnceInv, OnlyDeposits

LEMMA OnceSession ==
  ASSUME IInv, OnceInv, NEW w \in Workers, Session(w)
  PROVE  OnceInv'
<1>0. TypeOK /\ JobInv(w)
  BY DEF IInv
<1>1. UNCHANGED <<refund, returned>>
  BY DEF Session, SessionOpen, SessionFind, SessionRetire, SessionInsert, SessionEnd
<1>2. Away
  BY <1>0, SessionAway
<1>3. \A p \in Payments : payment'[p] = payment[p] \/ (payment'[p] # "paid" /\ payment[p] # "paid")
  BY <1>0 DEF TypeOK, Session, SessionOpen, SessionFind, SessionRetire, SessionInsert, SessionEnd, PaymentIs, JobInv
<1>4. QED
  BY <1>1, <1>2, <1>3, NoRows, OnceQuiet

(* The claim makes its payment the one paid payment of the order, and none *)
(* has been given back before.                                             *)
LEMMA OnceFinalize ==
  ASSUME IInv, OnceInv, NEW w \in Workers, Finalize(w)
  PROVE  OnceInv'
<1> USE DEF IInv, TypeOK, Before
<1>0. job[w] \in JobType /\ job \in [Workers -> JobType] /\ \A v \in Workers : JobInv(v)
  OBVIOUS
<1>1. CASE FinalizeNothing(w)
  <2>1. Away
    BY <1>1 DEF FinalizeNothing, Done, Do, Idle, Away
  <2>. QED
    BY <1>1, <2>1, NoRows, OnceQuiet DEF FinalizeNothing
<1>2. ASSUME Claim(w), NEW t, Do(w, t),
             t.pc \in {"idle", "refund_read"}, t.pc = "refund_read" => t.pay = job[w].pay
      PROVE  OnceInv'
  <2>1. PICK p : p = job[w].pay
    OBVIOUS
  <2>2. /\ p \in Payments /\ payment[p] \in {"pending", "failed"}
        /\ payment'[p] = "paid" /\ \A q \in Payments \ {p} : payment'[q] = payment[q]
        /\ \A q \in PaymentsOf(OrderOf[p]) : payment[q] # "paid"
    BY <1>2, <2>1, Claiming
  <2>3. \A v \in Workers : ~ (At(v, "cancel_find") /\ job[v].order = OrderOf[p])
    BY <2>2 DEF OnceInv
  <2>4. \A v \in Workers : ~ GivingBack(v, p)
    BY <1>0, <2>2, <2>3 DEF GivingBack, JobInv, Refunding, Taken
  <2>5. \A r \in Refunds : refund[r].pay # p
    BY <2>2, NoneAssumption DEF RefundInv, Taken
  <2>6. job'[w] = t /\ (\A v \in Workers \ {w} : job'[v] = job[v]) /\ UNCHANGED <<refund, returned>>
    BY <1>2 DEF Do, Claim
  <2>7. \A v \in Workers, q \in Payments : GivingBack(v, q)' => GivingBack(v, q) \/ (v = w /\ q = p)
    BY <1>2, <2>1, <2>2, <2>3, <2>6 DEF GivingBack, At
  <2>8. \A v \in Workers : (At(v, "cancel_find") => \E q \in PaymentsOf(job[v].order) : payment[q] = "paid")'
    <3> SUFFICES ASSUME NEW v \in Workers, At(v, "cancel_find")'
                 PROVE  \E q \in PaymentsOf(job'[v].order) : payment'[q] = "paid"
      BY DEF PaymentsOf
    <3>1. v # w /\ job'[v] = job[v] /\ At(v, "cancel_find")
      BY <1>2, <2>6 DEF At
    <3>2. PICK q \in PaymentsOf(job[v].order) : payment[q] = "paid"
      BY <3>1 DEF OnceInv
    <3>3. QED
      BY <2>2, <3>1, <3>2 DEF PaymentsOf
  <2>9. QED
    BY <2>4, <2>5, <2>6, <2>7, <2>8 DEF OnceInv
<1>3. CASE FinalizeConfirm(w)
  BY <1>2, <1>3 DEF FinalizeConfirm, Done, Idle
<1>4. CASE FinalizeRefund(w)
  <2>1. PICK t : t = ToRefund(job[w].pay, status[OrderOf[job[w].pay]] = "cancelled")
    OBVIOUS
  <2>2. t.pc = "refund_read" /\ t.pay = job[w].pay
    BY <2>1 DEF ToRefund, Idle
  <2>3. QED
    BY <1>2, <1>4, <2>1, <2>2 DEF FinalizeRefund
<1>5. QED
  BY <1>1, <1>3, <1>4 DEF Finalize

LEMMA OnceRefund ==
  ASSUME IInv, OnceInv, NEW w \in Workers, Refund(w)
  PROVE  OnceInv'
<1>0. /\ TypeOK /\ job[w] \in JobType /\ job \in [Workers -> JobType] /\ JobInv(w)
      /\ \A r \in Refunds : \/ refund'[r].pay = refund[r].pay /\ (refund'[r].item <=> refund[r].item)
                            \/ /\ RefundCreate(w, r) \/ DepositCreate(w, r)
                               /\ refund'[r].pay = job[w].pay /\ (refund'[r].item <=> At(w, "deposit_create"))
  BY RowsStay DEF IInv, TypeOK
<1>1. CASE RefundRead(w)
  <2>1. UNCHANGED <<payment, refund, returned>> /\ At(w, "refund_read")
    BY <1>1 DEF RefundRead
  <2>2. \A v \in Workers : \/ job'[v] = job[v] \/ job'[v].pc = "idle"
                           \/ job'[v].pc = "refund_create" /\ job'[v].pay = job[v].pay /\ job[v].pc = "refund_read"
    <3>1. \E a : Done(w) \/ Do(w, [job[w] EXCEPT !.pc = "refund_create", !.amount = a])
      <4>1. \/ Done(w)
            \/ Do(w, [job[w] EXCEPT !.pc = "refund_create", !.amount = AmountPaid - Total(job[w].pay)])
        BY <1>1 DEF RefundRead
      <4>. QED  BY <4>1
    <3>2. PICK a : Done(w) \/ Do(w, [job[w] EXCEPT !.pc = "refund_create", !.amount = a])
      BY <3>1
    <3>3. CASE Done(w)
      BY <1>0, <3>3 DEF Do, Done, Idle
    <3>4. CASE Do(w, [job[w] EXCEPT !.pc = "refund_create", !.amount = a])
      <4>1. /\ [job[w] EXCEPT !.pc = "refund_create", !.amount = a].pc = "refund_create"
            /\ [job[w] EXCEPT !.pc = "refund_create", !.amount = a].pay = job[w].pay
        BY <1>0, TaskFields
      <4>. QED  BY <1>0, <2>1, <3>4, <4>1 DEF At, Do
    <3>. QED
      BY <3>2, <3>3, <3>4
  <2>3. \A v \in Workers, p \in Payments : GivingBack(v, p)' => GivingBack(v, p)
    BY <2>1, <2>2 DEF GivingBack, At
  <2>4. \A v \in Workers : (At(v, "cancel_find") => \E p \in PaymentsOf(job[v].order) : payment[p] = "paid")'
    BY <2>1, <2>2 DEF At, OnceInv, PaymentsOf
  <2>5. QED
    BY <2>1, <2>3, <2>4 DEF OnceInv
<1>2. ASSUME NEW r \in Refunds, RefundCreate(w, r) PROVE OnceInv'
  <2>1. PICK p : p = job[w].pay
    OBVIOUS
  <2>2. p \in Payments /\ GivingBack(w, p)
    BY <1>0, <1>2, <2>1 DEF RefundCreate, At, JobInv, Refunding, GivingBack
  <2>3. UNCHANGED <<payment, returned>> /\ refund'[r].pay = p /\ \A s \in Refunds \ {r} : refund'[s] = refund[s]
    BY <1>0, <1>2, <2>1 DEF RefundCreate, TypeOK
  <2>4. job'[w].pc = "refund_call" /\ \A v \in Workers \ {w} : job'[v] = job[v]
    BY <1>0, <1>2 DEF RefundCreate, Do, JobType
  <2>5. \A v \in Workers, q \in Payments : GivingBack(v, q)' => GivingBack(v, q) /\ v # w
    BY <2>3, <2>4 DEF GivingBack, At
  <2>6. \A v \in Workers, q \in Payments : GivingBack(v, q)' => q # p
    BY <2>2, <2>5 DEF OnceInv
  <2>7. \A v \in Workers : (At(v, "cancel_find") => \E q \in PaymentsOf(job[v].order) : payment[q] = "paid")'
    BY <2>3, <2>4 DEF At, OnceInv, PaymentsOf
  <2>8. \A s \in Refunds : refund[s].pay = p => refund[s].item
    BY <2>2 DEF OnceInv
  <2>9. QED
    BY <2>2, <2>3, <2>5, <2>6, <2>7, <2>8, NoneAssumption DEF OnceInv
<1>3. CASE \/ RefundCall(w) \/ RefundError(w) \/ RefundAbort(w) \/ RefundRecord(w) \/ RefundCatch(w)
           \/ \E o \in Orders : DepositRead(w, o)
  <2>1. ~ RefundRead(w) /\ \A r \in Refunds : ~ (RefundCreate(w, r) \/ DepositCreate(w, r))
    BY <1>3 DEF RefundCall, RefundError, RefundAbort, RefundRecord, RefundCatch, DepositRead, RefundRead, RefundCreate,
                DepositCreate, At, Free
  <2>2. Away /\ payment' = payment
    BY <1>0, <1>3, <2>1, RefundAway
       DEF RefundCall, RefundError, RefundAbort, RefundRecord, RefundCatch, DepositRead
  <2>3. \A r \in Refunds : returned'[r] = returned[r] \/ refund[r].pay # None
    <3>1. CASE RefundCall(w) \/ RefundError(w)
      <4>1. job[w].refund \in Refunds /\ refund[job[w].refund].pay # None
        BY <3>1, AtRefund DEF RefundCall, RefundError, OwesRefund, At
      <4>2. \A r \in Refunds : returned'[r] = returned[r] \/ r = job[w].refund
        BY <1>0, <3>1 DEF RefundCall, RefundError, TypeOK
      <4>. QED  BY <4>1, <4>2
    <3>2. CASE ~ (RefundCall(w) \/ RefundError(w))
      BY <1>3, <3>2 DEF RefundAbort, RefundRecord, RefundCatch, DepositRead
    <3>. QED  BY <3>1, <3>2
  <2>4. OnlyDeposits
    BY <1>0, <2>1 DEF OnlyDeposits
  <2>. QED
    BY <1>0, <2>1, <2>2, <2>3, <2>4, OnceQuiet
<1>4. ASSUME NEW r \in Refunds, DepositCreate(w, r) PROVE OnceInv'
  <2>1. ~ RefundRead(w) /\ \A x \in Refunds : ~ RefundCreate(w, x)
    BY <1>4 DEF DepositCreate, RefundRead, RefundCreate, At
  <2>2. Away /\ payment' = payment /\ returned' = returned
    BY <1>0, <1>4, <2>1, RefundAway DEF DepositCreate
  <2>3. job[w].pay \in Payments /\ At(w, "deposit_create")
    BY <1>0, <1>4 DEF DepositCreate, JobInv, At, Refunding
  <2>4. \A x \in Refunds : DepositCreate(w, x) => refund[x].pay = None
    BY DEF DepositCreate, NoRefund
  <2>5. OnlyDeposits
    BY <1>0, <2>1, <2>3, <2>4, NoneAssumption DEF OnlyDeposits
  <2>. QED
    BY <2>2, <2>5, OnceQuiet
<1>5. CASE RefundSync(w)
  <2>1. PICK p : p = job[w].pay
    OBVIOUS
  <2>2. p \in Payments /\ UNCHANGED <<refund, returned>>
    BY <1>0, <1>5, <2>1 DEF RefundSync, JobInv, At
  <2>3. /\ \A q \in Payments \ {p} : payment'[q] = payment[q]
        /\ payment'[p] = payment[p] \/ (Total(p) > 0 /\ payment'[p] # "paid")
    BY <1>0, <1>5, <2>1 DEF RefundSync, PaymentIs, TypeOK
  <2>4. job'[w].pc = "idle" /\ \A v \in Workers \ {w} : job'[v] = job[v]
    BY <1>0, <1>5 DEF RefundSync, Done, Do, Idle
  <2>5. CASE payment'[p] = payment[p]
    <3>1. Away
      BY <2>4 DEF Away, Before
    <3>. QED  BY <2>2, <2>3, <2>5, <3>1, NoRows, OnceQuiet
  <2>6. CASE payment'[p] # payment[p]
    <3>1. PICK r \in Refunds : refund[r].pay = p
      BY <1>0, <2>2, <2>3, <2>6, Totals
    <3>2. \A v \in Workers, q \in Payments : GivingBack(v, q)' => GivingBack(v, q)
      BY <2>2, <2>3, <2>4, <2>6 DEF GivingBack, At
    <3>3. ASSUME NEW v \in Workers, At(v, "cancel_find"), NEW q \in PaymentsOf(job[v].order), payment[q] = "paid"
          PROVE  q # p
      <4>1. status[OrderOf[q]] # "packed"
        BY <3>3 DEF IInv, JobInv, PaymentsOf
      <4>2. q = p => GivingBack(v, p) /\ refund[r].item
        BY <2>2, <3>1, <3>3 DEF GivingBack, PaymentsOf, OnceInv
      <4>. QED
        BY <2>2, <3>1, <4>1, <4>2, NoneAssumption DEF IInv, RefundInv
    <3>4. \A v \in Workers : (At(v, "cancel_find") => \E q \in PaymentsOf(job[v].order) : payment[q] = "paid")'
      <4> SUFFICES ASSUME NEW v \in Workers, At(v, "cancel_find")'
                   PROVE  \E q \in PaymentsOf(job'[v].order) : payment'[q] = "paid"
        BY DEF PaymentsOf
      <4>1. job'[v] = job[v] /\ At(v, "cancel_find")
        BY <2>4 DEF At
      <4>2. PICK q \in PaymentsOf(job[v].order) : payment[q] = "paid"
        BY <4>1 DEF OnceInv
      <4>3. q \in Payments \ {p}
        BY <3>3, <4>1, <4>2 DEF PaymentsOf
      <4>. QED
        BY <2>3, <4>1, <4>2, <4>3 DEF PaymentsOf
    <3>. QED
      BY <2>2, <3>2, <3>4 DEF OnceInv
  <2>. QED
    BY <2>5, <2>6
<1>6. ASSUME NEW r \in Refunds, RefundWebhook(w, r) PROVE OnceInv'
  <2>1. ~ RefundRead(w) /\ \A x \in Refunds : ~ (RefundCreate(w, x) \/ DepositCreate(w, x))
    BY <1>6 DEF RefundWebhook, RefundRead, RefundCreate, DepositCreate, At, Free
  <2>2. Away /\ UNCHANGED <<payment, returned>>
    BY <1>0, <1>6, <2>1, RefundAway DEF RefundWebhook
  <2>3. OnlyDeposits
    BY <1>0, <2>1 DEF OnlyDeposits
  <2>. QED
    BY <2>2, <2>3, OnceQuiet
<1>. QED
  BY <1>1, <1>2, <1>3, <1>4, <1>5, <1>6 DEF Refund

LEMMA OnceCancel ==
  ASSUME IInv, OnceInv, NEW w \in Workers, CancelFind(w) \/ \E o \in Orders : CancelPaid(w, o)
  PROVE  OnceInv'
<1> USE DEF IInv, TypeOK, Before
<1>0. job[w] \in JobType /\ job \in [Workers -> JobType] /\ \A v \in Workers : JobInv(v)
  OBVIOUS
<1>1. CASE CancelFind(w)
  <2>1. UNCHANGED <<payment, refund, returned>> /\ At(w, "cancel_find")
    BY <1>1 DEF CancelFind
  <2>2. \A v \in Workers : \/ job'[v] = job[v] \/ job'[v].pc = "idle"
                           \/ /\ job'[v].pc = "refund_read" /\ At(v, "cancel_find")
                              /\ job'[v].pay \in PaymentsOf(job[v].order) /\ payment[job'[v].pay] = "paid"
    <3>1. CASE Done(w)
      BY <1>0, <3>1 DEF Do, Done, Idle
    <3>2. ASSUME NEW p \in PaymentsOf(job[w].order), payment[p] \in {"paid", "partially_refunded"},
                 Do(w, ToRefund(p, TRUE))
          PROVE  /\ job'[w].pc = "refund_read" /\ job'[w].pay = p /\ payment[p] = "paid"
                 /\ \A v \in Workers \ {w} : job'[v] = job[v]
      <4>1. payment[p] = "paid"
        BY <1>0, <2>1, <3>2 DEF JobInv, PaymentsOf, TablesInv, PaymentInv
      <4>. QED
        BY <1>0, <3>2, <4>1 DEF Do, ToRefund, Idle
    <3>3. QED
      BY <1>1, <2>1, <3>1, <3>2 DEF CancelFind
  <2>3. \A v \in Workers, p \in Payments : GivingBack(v, p)' => GivingBack(v, p)
    BY <2>1, <2>2 DEF GivingBack, At, PaymentsOf
  <2>4. \A v \in Workers : (At(v, "cancel_find") => \E p \in PaymentsOf(job[v].order) : payment[p] = "paid")'
    BY <2>1, <2>2 DEF At, OnceInv, PaymentsOf
  <2>5. QED
    BY <2>1, <2>3, <2>4 DEF OnceInv
<1>2. ASSUME NEW o \in Orders, CancelPaid(w, o) PROVE OnceInv'
  <2>1. /\ status[o] = "confirmed" /\ UNCHANGED <<payment, refund, returned>>
        /\ job'[w].pc = "cancel_find" /\ job'[w].order = o /\ \A v \in Workers \ {w} : job'[v] = job[v]
    BY <1>2 DEF CancelPaid, Do, Idle
  <2>2. ASSUME NEW p \in PaymentsOf(o), payment[p] = "paid" PROVE \A v \in Workers : ~ GivingBack(v, p)
    BY <1>0, <2>1 DEF GivingBack, JobInv, Refunding, PaymentsOf
  <2>3. ASSUME NEW p \in PaymentsOf(o), NEW r \in Refunds PROVE refund[r].pay # p
    BY <2>1, <2>3, NoneAssumption DEF RefundInv, PaymentsOf
  <2>4. \A v \in Workers, p \in Payments :
          GivingBack(v, p)' => GivingBack(v, p) \/ (v = w /\ p \in PaymentsOf(o) /\ payment[p] = "paid")
    BY <2>1 DEF GivingBack, At, PaymentsOf
  <2>5. \A v \in Workers : (At(v, "cancel_find") => \E p \in PaymentsOf(job[v].order) : payment[p] = "paid")'
    BY <2>1 DEF At, OnceInv, PaymentsOf, TablesInv, OrderInv
  <2>6. QED
    BY <2>1, <2>2, <2>3, <2>4, <2>5 DEF OnceInv
<1>3. QED
  BY <1>1, <1>2

LEMMA OnceStep ==
  ASSUME IInv, OnceInv, [Next]_vars
  PROVE  OnceInv'
<1>0. TypeOK
  BY DEF IInv
<1>1. ASSUME NEW w \in Workers, ReleaseJob(w) PROVE OnceInv'
  <2>1. UNCHANGED <<refund, returned>>
    BY <1>1 DEF ReleaseJob, JobRead, JobReconcile, JobClose
  <2>2. \A p \in Payments : payment'[p] = payment[p] \/ (payment'[p] # "paid" /\ payment[p] # "paid")
    <3>1. payment' = payment \/ \E o : Close(o)
      BY <1>1 DEF ReleaseJob, JobRead, JobReconcile, JobClose
    <3>2. QED
      BY <3>1 DEF Close
  <2>3. Away
    BY <1>0, <1>1, JobAway
  <2>4. QED
    BY <2>1, <2>2, <2>3, NoRows, OnceQuiet
<1>2. ASSUME NEW w \in Workers, Crash(w) PROVE OnceInv'
  <2>1. Away
    BY <1>2 DEF Crash, Do, Done, Idle, Away, Before
  <2>. QED  BY <1>2, <2>1, NoRows, OnceQuiet DEF Crash
<1>3. ASSUME NEW w \in Workers, NEW p \in Payments, Verify(w, p) \/ Webhook(w, p) PROVE OnceInv'
  <2>1. Away
    <3>1. Do(w, [Idle EXCEPT !.pc = "finalize", !.pay = p]) /\ Idle \in JobType
      BY <1>3, Tasks DEF Verify, Webhook
    <3>. QED  BY <1>0, <3>1, AwayTasks, MovesAway
  <2>. QED  BY <1>3, <2>1, NoRows, OnceQuiet DEF Verify, Webhook
<1>4. CASE Customer
  BY <1>4, NoRows, OnceQuiet DEF Away, Customer, Authorize, Capture, CancelUnpaid, Close
<1>5. CASE \E o \in Orders : Pack(o) \/ Expire(o)
  BY <1>5, NoRows, OnceQuiet DEF Away, Pack, Expire
<1>6. ASSUME NEW r \in Refunds, Settle(r) PROVE OnceInv'
  BY <1>6, NoRows, OnceQuiet DEF Away, Settle
<1>7. CASE UNCHANGED vars
  BY <1>7, NoRows, OnceQuiet DEF Away, vars
<1>8. QED
  BY <1>1, <1>2, <1>3, <1>4, <1>5, <1>6, <1>7, OnceSession, OnceFinalize, OnceRefund, OnceCancel DEF Next

LEMMA OnceInvariant == ASSUME OneLane PROVE Spec => [](IInv /\ OnceInv)
<1>1. Init => OnceInv
  BY DEF Init, OnceInv, GivingBack, At, Idle, NoRefund
<1>2. IInv /\ OnceInv /\ [Next]_vars => OnceInv'
  BY OnceStep
<1>3. QED
  BY <1>1, <1>2, Invariant, PTL DEF Spec

(* No payment is given back as a whole twice at the gateway, whatever      *)
(* crashes and is repeated (refunds.ts refundPaymentFully).                *)
THEOREM RefundsOnlyOnce == ASSUME OneLane PROVE Spec => []RefundedOnce
<1>1. ASSUME OnceInv PROVE RefundedOnce
  <2> SUFFICES ASSUME NEW p \in Payments
               PROVE  Cardinality({r \in RefundsOf(p) : ~ refund[r].item /\ returned[r] # "none"}) <= 1
    BY DEF RefundedOnce
  <2> DEFINE S == {r \in RefundsOf(p) : ~ refund[r].item /\ returned[r] # "none"}
  <2>1. \A r, s \in S : r = s
    BY <1>1, NoneAssumption DEF OnceInv, RefundsOf
  <2>2. S = {} \/ \E r : S = {r}
    BY <2>1
  <2>3. Cardinality(S) = 0 \/ Cardinality(S) = 1
    BY <2>2, FS_EmptySet, FS_Singleton
  <2>4. QED
    BY <2>3
<1>2. QED
  BY <1>1, OnceInvariant, PTL

-----------------------------------------------------------------------------
(* The ledger.                                                             *)

Back(p) == \E r \in RefundsOf(p) : returned[r] # "none"

(* A refund row has one request that still has to report on it, and when   *)
(* it reports, the gateway has been asked to return the money.             *)
HandInv ==
  /\ \A v, w \in Workers : OwesRefund(v) /\ OwesRefund(w) /\ job[v].refund = job[w].refund => v = w
  /\ \A w \in Workers : At(w, "refund_call") => returned[job[w].refund] = "none"
  /\ \A w \in Workers : job[w].pc \in {"refund_record", "refund_sync"} => Back(job[w].pay)

Reporting == {"refund_call", "refund_record", "refund_sync", "refund_catch"}

(* Back stays, and nobody starts to report on a refund.                    *)
LEMMA HandQuiet ==
  ASSUME HandInv, UNCHANGED returned,
         \A r \in Refunds : refund'[r].pay = refund[r].pay,
         \A w \in Workers : job'[w] = job[w] \/ job'[w].pc \notin Reporting
  PROVE  HandInv'
<1>1. \A p : Back(p)' <=> Back(p)
  BY DEF Back, RefundsOf
<1>2. \A w \in Workers : OwesRefund(w)' => OwesRefund(w) /\ job'[w] = job[w]
  BY DEF OwesRefund, At, Reporting
<1>3. (\A v, w \in Workers : OwesRefund(v) /\ OwesRefund(w) /\ job[v].refund = job[w].refund => v = w)'
  BY <1>2 DEF HandInv
<1>4. (\A w \in Workers : At(w, "refund_call") => returned[job[w].refund] = "none")'
  BY DEF HandInv, At, Reporting
<1>5. ASSUME NEW w \in Workers, (job[w].pc \in {"refund_record", "refund_sync"})' PROVE Back(job[w].pay)'
  <2>1. job'[w] = job[w] /\ Back(job[w].pay)
    BY <1>5 DEF HandInv, Reporting
  <2>2. \E r \in Refunds : refund'[r].pay = job'[w].pay /\ returned'[r] # "none"
    BY <2>1 DEF Back, RefundsOf
  <2>3. QED
    BY <2>2 DEF Back, RefundsOf
<1>6. QED
  BY <1>3, <1>4, <1>5 DEF HandInv

LEMMA ReportingTasks ==
  ASSUME NEW t \in JobType
  PROVE  /\ Idle.pc \notin Reporting
         /\ \A pc : pc \notin Reporting =>
              /\ [t EXCEPT !.pc = pc].pc \notin Reporting
              /\ \A x : [t EXCEPT !.pc = pc, !.pay = x].pc \notin Reporting
              /\ \A x : [t EXCEPT !.pc = pc, !.amount = x].pc \notin Reporting
              /\ \A x : [Idle EXCEPT !.pc = pc, !.pay = x].pc \notin Reporting
              /\ \A x, y : [Idle EXCEPT !.pc = pc, !.pay = x, !.amount = y].pc \notin Reporting
              /\ \A x, y : [Idle EXCEPT !.pc = pc, !.order = x, !.lane = y].pc \notin Reporting
              /\ \A x, y : [Idle EXCEPT !.pc = pc, !.order = x, !.todo = y].pc \notin Reporting
              /\ \A x : [Idle EXCEPT !.pc = pc, !.order = x].pc \notin Reporting
         /\ \A x : [t EXCEPT !.todo = x].pc = t.pc
         /\ \A x, y : ToRefund(x, y).pc \notin Reporting
         /\ {"idle", "session_find", "session_retire", "session_insert", "finalize", "job_check", "cancel_find",
             "refund_read", "refund_create", "deposit_create"} \cap Reporting = {}
BY DEF Reporting, Idle, JobType, ToRefund

LEMMA NotReporting ==
  ASSUME TypeOK, NEW w \in Workers, NEW t, Do(w, t), t.pc \notin Reporting
  PROVE  \A v \in Workers : job'[v] = job[v] \/ job'[v].pc \notin Reporting
BY DEF Do, TypeOK

(* The steps of a request that reports on a refund.                        *)
LEMMA HandRefund ==
  ASSUME IInv, OnceInv, HandInv, NEW w \in Workers, Refund(w)
  PROVE  HandInv'
<1> USE DEF IInv, TypeOK
<1>0. job[w] \in JobType /\ job \in [Workers -> JobType] /\ TypeOK
  OBVIOUS
<1>1. CASE RefundRead(w)
  <2>1. UNCHANGED <<payment, refund, returned>>
    BY <1>1 DEF RefundRead
  <2>2. \A v \in Workers : job'[v] = job[v] \/ job'[v].pc \notin Reporting
    <3>1. CASE Done(w)
      BY <1>0, <3>1, NotReporting, ReportingTasks DEF Done
    <3>2. PICK c : ~ Done(w) => Do(w, [job[w] EXCEPT !.pc = "refund_create", !.amount = c])
      BY <1>1 DEF RefundRead
    <3>. QED
      BY <1>0, <3>1, <3>2, NotReporting, ReportingTasks
  <2>3. QED
    BY <2>1, <2>2, HandQuiet
<1>2. ASSUME NEW r \in Refunds, RefundCreate(w, r) \/ DepositCreate(w, r) PROVE HandInv'
  <2>1. /\ refund[r].pay = None /\ returned' = returned /\ payment' = payment
        /\ \A s \in Refunds \ {r} : refund'[s] = refund[s]
    BY <1>2 DEF RefundCreate, DepositCreate, NoRefund
  <2>2. returned[r] = "none"
    BY <2>1 DEF OnceInv
  <2>3. job'[w].pc = "refund_call" /\ job'[w].refund = r /\ \A v \in Workers \ {w} : job'[v] = job[v]
    <3>1. Do(w, [job[w] EXCEPT !.pc = "refund_call", !.refund = r])
      BY <1>2 DEF RefundCreate, DepositCreate
    <3>. QED
      BY <1>0, <3>1 DEF Do, JobType
  <2>4. ASSUME NEW v \in Workers \ {w}, OwesRefund(v) PROVE job[v].refund # r
    BY <2>1, <2>4, AtRefund
  <2>5. \A p \in Payments : Back(p) => Back(p)'
    BY <2>1, <2>2 DEF Back, RefundsOf
  <2>6. (\A u, v \in Workers : OwesRefund(u) /\ OwesRefund(v) /\ job[u].refund = job[v].refund => u = v)'
    BY <2>3, <2>4 DEF HandInv, OwesRefund, At
  <2>7. (\A v \in Workers : At(v, "refund_call") => returned[job[v].refund] = "none")'
    BY <2>1, <2>2, <2>3 DEF HandInv, At
  <2>8. ASSUME NEW v \in Workers, (job[v].pc \in {"refund_record", "refund_sync"})' PROVE Back(job[v].pay)'
    <3>1. job'[v] = job[v] /\ Back(job[v].pay)
      BY <2>3, <2>8 DEF HandInv
    <3>2. \E s \in Refunds : refund'[s].pay = job'[v].pay /\ returned'[s] # "none"
      BY <2>1, <2>2, <3>1 DEF Back, RefundsOf
    <3>3. QED
      BY <3>2 DEF Back, RefundsOf
  <2>9. QED
    BY <2>1, <2>5, <2>6, <2>7, <2>8 DEF HandInv
<1>3. CASE RefundCall(w) \/ RefundError(w)
  <2>1. PICK r, p : r = job[w].refund /\ p = job[w].pay
    OBVIOUS
  <2>2. /\ r \in Refunds /\ refund[r].pay = p /\ returned[r] = "none" /\ OwesRefund(w)
        /\ refund' = refund /\ payment' = payment
    BY <1>3, <2>1, AtRefund DEF RefundCall, RefundError, OwesRefund, At, HandInv
  <2>3. /\ job'[w].pc \in {"refund_record", "refund_catch"} /\ job'[w].refund = r /\ job'[w].pay = p
        /\ job'[w].pc = "refund_record" => returned'[r] # "none"
        /\ \A v \in Workers \ {w} : job'[v] = job[v]
        /\ \A s \in Refunds \ {r} : returned'[s] = returned[s]
    <3>1. CASE RefundCall(w)
      <4>1. PICK s \in {"accepted", "processed"} :
              /\ returned' = [returned EXCEPT ![r] = s]
              /\ Do(w, [job[w] EXCEPT !.pc = "refund_record", !.settled = (s = "processed" \/ refund[r].item)])
        BY <2>1, <3>1 DEF RefundCall
      <4>2. PICK c : Do(w, [job[w] EXCEPT !.pc = "refund_record", !.settled = c])
        BY <4>1
      <4>3. QED
        BY <1>0, <2>1, <2>2, <4>1, <4>2 DEF Do, JobType
    <3>2. CASE RefundError(w)
      <4>1. PICK s \in {"none", "accepted"} :
              returned' = [returned EXCEPT ![r] = s] /\ Do(w, [job[w] EXCEPT !.pc = "refund_catch"])
        BY <2>1, <3>2 DEF RefundError
      <4>2. QED
        BY <1>0, <2>1, <2>2, <4>1 DEF Do, JobType
    <3>3. QED
      BY <1>3, <3>1, <3>2
  <2>4. \A q : Back(q) => Back(q)'
    BY <2>2, <2>3 DEF Back, RefundsOf
  <2>5. \A v \in Workers : OwesRefund(v)' => OwesRefund(v) /\ job'[v].refund = job[v].refund
    BY <2>1, <2>2, <2>3 DEF OwesRefund, At
  <2>6. (\A u, v \in Workers : OwesRefund(u) /\ OwesRefund(v) /\ job[u].refund = job[v].refund => u = v)'
    BY <2>5 DEF HandInv
  <2>7. (\A v \in Workers : At(v, "refund_call") => returned[job[v].refund] = "none")'
    <3> SUFFICES ASSUME NEW v \in Workers, At(v, "refund_call")' PROVE returned'[job'[v].refund] = "none"
      OBVIOUS
    <3>1. v # w /\ job'[v] = job[v] /\ At(v, "refund_call") /\ OwesRefund(v)
      BY <2>3 DEF At, OwesRefund
    <3>2. job[v].refund # r /\ job[v].refund \in Refunds /\ returned[job[v].refund] = "none"
      BY <2>1, <2>2, <3>1, AtRefund DEF HandInv
    <3>3. QED
      BY <2>3, <3>1, <3>2
  <2>8. ASSUME NEW v \in Workers, (job[v].pc \in {"refund_record", "refund_sync"})' PROVE Back(job[v].pay)'
    <3>1. CASE v = w
      <4>1. refund'[r].pay = job'[v].pay /\ returned'[r] # "none"
        BY <2>2, <2>3, <2>8, <3>1
      <4>2. QED
        BY <2>2, <4>1 DEF Back, RefundsOf
    <3>2. CASE v # w
      <4>1. job'[v] = job[v] /\ Back(job[v].pay)
        BY <2>3, <2>8, <3>2 DEF HandInv
      <4>2. \E s \in Refunds : refund'[s].pay = job'[v].pay /\ returned'[s] # "none"
        BY <2>2, <2>3, <4>1 DEF Back, RefundsOf
      <4>3. QED
        BY <4>2 DEF Back, RefundsOf
    <3>3. QED
      BY <3>1, <3>2
  <2>9. QED
    BY <2>2, <2>4, <2>6, <2>7, <2>8 DEF HandInv
<1>4. CASE RefundAbort(w) \/ RefundRecord(w)
  <2>1. /\ payment' = payment /\ returned' = returned /\ OwesRefund(w)
        /\ job[w].pc \in {"refund_record", "refund_sync"}
    BY <1>4 DEF RefundAbort, RefundRecord, OwesRefund, At
  <2>2. /\ job'[w].pc \in {"refund_catch", "refund_sync"}
        /\ job'[w].refund = job[w].refund /\ job'[w].pay = job[w].pay
        /\ \A v \in Workers \ {w} : job'[v] = job[v]
    <3>1. CASE RefundAbort(w)
      BY <1>0, <3>1 DEF RefundAbort, Do, JobType
    <3>2. CASE RefundRecord(w)
      BY <1>0, <3>2 DEF RefundRecord, Do, JobType
    <3>3. QED
      BY <1>4, <3>1, <3>2
  <2>3. \A r \in Refunds : refund'[r].pay = refund[r].pay
    <3>1. CASE RefundAbort(w)
      BY <3>1 DEF RefundAbort
    <3>2. CASE RefundRecord(w)
      BY <3>2 DEF RefundRecord, RefundType
    <3>3. QED
      BY <1>4, <3>1, <3>2
  <2>4. \A q : Back(q)' <=> Back(q)
    BY <2>1, <2>3 DEF Back, RefundsOf
  <2>5. \A v \in Workers : OwesRefund(v)' => OwesRefund(v) /\ job'[v].refund = job[v].refund
    BY <2>1, <2>2 DEF OwesRefund, At
  <2>6. (\A u, v \in Workers : OwesRefund(u) /\ OwesRefund(v) /\ job[u].refund = job[v].refund => u = v)'
    BY <2>5 DEF HandInv
  <2>7. (\A v \in Workers : At(v, "refund_call") => returned[job[v].refund] = "none")'
    BY <2>1, <2>2 DEF HandInv, At
  <2>8. ASSUME NEW v \in Workers, (job[v].pc \in {"refund_record", "refund_sync"})' PROVE Back(job[v].pay)'
    <3>1. job'[v].pay = job[v].pay /\ Back(job[v].pay)
      BY <2>1, <2>2, <2>8 DEF HandInv
    <3>2. \E s \in Refunds : refund'[s].pay = job'[v].pay /\ returned'[s] # "none"
      BY <2>1, <2>3, <3>1 DEF Back, RefundsOf
    <3>3. QED
      BY <3>2 DEF Back, RefundsOf
  <2>9. QED
    BY <2>1, <2>4, <2>6, <2>7, <2>8 DEF HandInv
<1>5. CASE RefundSync(w)
  <2>1. UNCHANGED <<refund, returned>>
    BY <1>5 DEF RefundSync
  <2>2. \A v \in Workers : job'[v] = job[v] \/ job'[v].pc \notin Reporting
    BY <1>0, <1>5, NotReporting, ReportingTasks DEF RefundSync, Done
  <2>3. QED
    BY <2>1, <2>2, HandQuiet
<1>6. CASE RefundCatch(w)
  <2>1. UNCHANGED <<payment, returned>> /\ \A r \in Refunds : refund'[r].pay = refund[r].pay
    BY <1>6 DEF RefundCatch, RefundType
  <2>2. \A v \in Workers : job'[v] = job[v] \/ job'[v].pc \notin Reporting
    BY <1>0, <1>6, NotReporting, ReportingTasks DEF RefundCatch, Done
  <2>3. QED
    BY <2>1, <2>2, HandQuiet
<1>7. ASSUME NEW r \in Refunds, RefundWebhook(w, r) PROVE HandInv'
  <2>1. /\ UNCHANGED <<payment, returned>> /\ returned[r] # "none"
        /\ \A s \in Refunds : refund'[s].pay = refund[s].pay
    <3>1. refund' = refund \/ refund' = [refund EXCEPT ![r] = [refund[r] EXCEPT !.status = returned[r]]]
      BY <1>7 DEF RefundWebhook
    <3>2. \A s \in Refunds : refund'[s].pay = refund[s].pay
      BY <3>1 DEF RefundType
    <3>3. QED
      BY <1>7, <3>2 DEF RefundWebhook
  <2>2. CASE ~ refund[r].ref
    BY <1>7, <2>1, <2>2, HandQuiet DEF RefundWebhook
  <2>3. CASE refund[r].ref
    <3>1. /\ job'[w].pc = "refund_sync" /\ job'[w].pay = refund[r].pay /\ job'[w].refund = None
          /\ \A v \in Workers \ {w} : job'[v] = job[v]
      <4>1. Do(w, [Idle EXCEPT !.pc = "refund_sync", !.pay = refund[r].pay])
        BY <1>7, <2>3 DEF RefundWebhook
      <4>2. QED
        BY <1>0, <4>1 DEF Do, Idle
    <3>2. \A q : Back(q)' <=> Back(q)
      BY <2>1 DEF Back, RefundsOf
    <3>3. \A v \in Workers : OwesRefund(v)' => OwesRefund(v) /\ v # w
      BY <3>1 DEF OwesRefund, At
    <3>4. (\A u, v \in Workers : OwesRefund(u) /\ OwesRefund(v) /\ job[u].refund = job[v].refund => u = v)'
      BY <3>1, <3>3 DEF HandInv
    <3>5. (\A v \in Workers : At(v, "refund_call") => returned[job[v].refund] = "none")'
      BY <2>1, <3>1 DEF HandInv, At
    <3>6. ASSUME NEW v \in Workers, (job[v].pc \in {"refund_record", "refund_sync"})'
          PROVE  \E s \in Refunds : refund'[s].pay = job'[v].pay /\ returned'[s] # "none"
      <4>1. CASE v = w
        BY <2>1, <3>1, <4>1
      <4>2. CASE v # w
        BY <2>1, <3>1, <3>6, <4>2 DEF HandInv, Back, RefundsOf
      <4>3. QED
        BY <4>1, <4>2
    <3>7. (\A v \in Workers : job[v].pc \in {"refund_record", "refund_sync"} => Back(job[v].pay))'
      BY <3>6 DEF Back, RefundsOf
    <3>8. QED
      BY <2>1, <3>2, <3>4, <3>5, <3>7 DEF HandInv
  <2>4. QED
    BY <2>2, <2>3
<1>8. ASSUME NEW o \in Orders, DepositRead(w, o) PROVE HandInv'
  <2>1. PICK q : Do(w, [Idle EXCEPT !.pc = "deposit_create", !.pay = q, !.amount = Deposit])
    BY <1>8 DEF DepositRead
  <2>2. \A v \in Workers : job'[v] = job[v] \/ job'[v].pc \notin Reporting
    BY <1>0, <2>1, NotReporting, ReportingTasks
  <2>3. QED
    BY <1>8, <2>2, HandQuiet DEF DepositRead
<1>9. QED
  BY <1>1, <1>2, <1>3, <1>4, <1>5, <1>6, <1>7, <1>8 DEF Refund

LEMMA HandStep ==
  ASSUME IInv, OnceInv, HandInv, [Next]_vars
  PROVE  HandInv'
<1> USE DEF IInv, TypeOK
<1>0. TypeOK /\ \A w \in Workers : job[w] \in JobType
  OBVIOUS
<1> DEFINE Still == \A v \in Workers : job'[v] = job[v] \/ job'[v].pc \notin Reporting
<1>1. ASSUME NEW w \in Workers, Session(w) PROVE HandInv'
  <2>1. Still
    BY <1>0, <1>1, NotReporting, ReportingTasks
       DEF Session, SessionOpen, SessionFind, SessionRetire, SessionInsert, SessionEnd, Done
  <2>2. UNCHANGED <<refund, returned>>
    BY <1>1 DEF Session, SessionOpen, SessionFind, SessionRetire, SessionInsert, SessionEnd, PaymentIs
  <2>3. QED
    BY <2>1, <2>2, HandQuiet
<1>2. ASSUME NEW w \in Workers, Finalize(w) PROVE HandInv'
  <2>1. Still
    BY <1>0, <1>2, NotReporting, ReportingTasks DEF Finalize, FinalizeNothing, FinalizeConfirm, FinalizeRefund, Done
  <2>2. UNCHANGED <<refund, returned>>
    BY <1>2 DEF Finalize, FinalizeNothing, FinalizeConfirm, FinalizeRefund, Claim, PaymentIs
  <2>3. QED
    BY <2>1, <2>2, HandQuiet
<1>3. ASSUME NEW w \in Workers, ReleaseJob(w) PROVE HandInv'
  <2>1. Still
    <3>1. ASSUME NEW o \in Orders, JobRead(w, o) PROVE Still
      BY <1>0, <3>1, NotReporting, ReportingTasks DEF JobRead
    <3>2. ASSUME NEW p \in Payments, JobReconcile(w, p) PROVE Still
      <4>1. CASE gateway[p] \in {"authorized", "captured"}
        BY <1>0, <3>2, <4>1, NotReporting, ReportingTasks DEF JobReconcile
      <4>2. CASE gateway[p] \notin {"authorized", "captured"}
        <5>1. PICK t : t = [job[w] EXCEPT !.todo = job[w].todo \ {p}]
          OBVIOUS
        <5>2. t.pc = job[w].pc
          BY <1>0, <5>1, ReportingTasks
        <5>3. Do(w, t) /\ t.pc \notin Reporting
          BY <3>2, <4>2, <5>1, <5>2 DEF JobReconcile, At, Reporting
        <5>4. QED
          BY <1>0, <5>3, NotReporting
      <4>3. QED
        BY <4>1, <4>2
    <3>3. CASE JobClose(w)
      BY <1>0, <3>3, NotReporting, ReportingTasks DEF JobClose, Done
    <3>4. QED
      BY <1>3, <3>1, <3>2, <3>3 DEF ReleaseJob
  <2>2. UNCHANGED <<refund, returned>>
    BY <1>3, ZenonT(30) DEF ReleaseJob, JobRead, JobReconcile, JobClose, Close
  <2>3. QED
    BY <2>1, <2>2, HandQuiet
<1>4. ASSUME NEW w \in Workers, CancelFind(w) \/ Crash(w) PROVE HandInv'
  <2>1. Still
    BY <1>0, <1>4, NotReporting, ReportingTasks DEF CancelFind, Crash, Done
  <2>2. QED
    BY <1>4, <2>1, HandQuiet DEF CancelFind, Crash
<1>5. ASSUME NEW w \in Workers, \/ \E p \in Payments : Verify(w, p) \/ Webhook(w, p)
                                \/ \E o \in Orders : CancelPaid(w, o)
      PROVE  HandInv'
  <2>1. Still
    BY <1>0, <1>5, NotReporting, ReportingTasks DEF Verify, Webhook, CancelPaid
  <2>2. UNCHANGED <<payment, refund, returned>>
    BY <1>5 DEF Verify, Webhook, CancelPaid
  <2>3. QED
    BY <2>1, <2>2, HandQuiet
<1>6. CASE Customer
  BY <1>6, HandQuiet DEF Customer, Authorize, Capture, CancelUnpaid, Close
<1>7. CASE \E o \in Orders : Pack(o) \/ Expire(o)
  BY <1>7, HandQuiet DEF Pack, Expire
<1>8. ASSUME NEW r \in Refunds, Settle(r) PROVE HandInv'
  <2>1. /\ UNCHANGED <<refund, job>> /\ returned[r] # "none" /\ returned'[r] # "none"
        /\ \A s \in Refunds \ {r} : returned'[s] = returned[s]
    BY <1>8 DEF Settle
  <2>2. \A p : Back(p)' <=> Back(p)
    BY <2>1 DEF Back, RefundsOf
  <2>3. (\A w \in Workers : At(w, "refund_call") => returned[job[w].refund] = "none")'
    <3> SUFFICES ASSUME NEW w \in Workers, At(w, "refund_call") PROVE returned'[job[w].refund] = "none"
      BY <2>1 DEF At
    <3>1. job[w].refund \in Refunds /\ returned[job[w].refund] = "none"
      BY AtRefund DEF HandInv, OwesRefund, At
    <3>2. QED
      BY <2>1, <3>1
  <2>4. (\A u, v \in Workers : OwesRefund(u) /\ OwesRefund(v) /\ job[u].refund = job[v].refund => u = v)'
    BY <2>1 DEF HandInv, OwesRefund, At
  <2>5. (\A w \in Workers : job[w].pc \in {"refund_record", "refund_sync"} => Back(job[w].pay))'
    BY <2>1, <2>2 DEF HandInv
  <2>6. QED
    BY <2>1, <2>2, <2>3, <2>4, <2>5 DEF HandInv
<1>9. CASE UNCHANGED vars
  BY <1>9, HandQuiet DEF vars
<1>10. QED
  BY <1>1, <1>2, <1>3, <1>4, <1>5, <1>6, <1>7, <1>8, <1>9, HandRefund DEF Next

LEMMA HandInvariant == ASSUME OneLane PROVE Spec => [](IInv /\ OnceInv /\ HandInv)
<1>1. Init => HandInv
  BY DEF Init, HandInv, OwesRefund, At, Idle
<1>2. IInv /\ OnceInv /\ HandInv /\ [Next]_vars => HandInv'
  BY HandStep
<1>3. QED
  BY <1>1, <1>2, OnceInvariant, PTL DEF Spec

(* The gateway has been asked for the whole payment.                       *)
Whole(p) == \E r \in RefundsOf(p) : ~ refund[r].item /\ returned[r] # "none"

(* The ledger's view, order by order and payment by payment.               *)
LEMMA Views ==
  /\ \A o \in Orders : Account[o] = IF status[o] = "pending_payment" THEN "open"
                                   ELSE IF status[o] \in {"confirmed", "packed"} THEN "paid"
                                   ELSE IF status[o] = "cancelled" THEN "closed" ELSE "refunded"
  /\ \A p \in Payments : Money[p] = IF Whole(p) THEN "back"
                                    ELSE IF payment[p] \in {"partially_refunded", "refunded"} THEN "part"
                                    ELSE IF payment[p] = "paid" THEN "in" ELSE "out"
BY DEF Account, Money, Whole

(* What the ledger sees of a step.                                         *)
SamePaid(p) == (payment'[p] = "paid" <=> payment[p] = "paid") /\ (payment'[p] \in Taken <=> payment[p] \in Taken)

RowsAsked ==
  \A r \in Refunds : \/ refund'[r].pay = refund[r].pay /\ (refund'[r].item <=> refund[r].item)
                     \/ returned[r] = "none"

LEMMA WholeStill ==
  ASSUME UNCHANGED returned, RowsAsked
  PROVE  \A p : Whole(p)' <=> Whole(p)
BY DEF Whole, RefundsOf, RowsAsked

LEMMA SameRows == refund' = refund => RowsAsked
BY DEF RowsAsked

LEMMA MoneyStill ==
  ASSUME \A p \in Payments : SamePaid(p), \A p \in Payments : Whole(p)' <=> Whole(p)
  PROVE  Money' = Money
<1>1. \A p \in Payments : (payment'[p] \in {"partially_refunded", "refunded"})
                            <=> payment[p] \in {"partially_refunded", "refunded"}
  BY DEF SamePaid, Taken
<1>. QED
  BY <1>1 DEF Money, Whole, SamePaid

LEMMA AccountStill ==
  ASSUME UNCHANGED status
  PROVE  Account' = Account
BY DEF Account

(* The claim takes the money; the rivals have none the shop could keep.    *)
LEMMA LedgerTake ==
  ASSUME IInv, OnceInv, HandInv, NEW w \in Workers, FinalizeConfirm(w) \/ FinalizeRefund(w)
  PROVE  \E p \in Payments : Ledger!Take(p)
<1> USE DEF IInv, TypeOK
<1>1. PICK p, o : p = job[w].pay /\ o = OrderOf[p]
  OBVIOUS
<1>2. Claim(w)
  BY DEF FinalizeConfirm, FinalizeRefund
<1>3. /\ p \in Payments /\ gateway[p] = "captured" /\ payment[p] \in {"pending", "failed"}
      /\ payment'[p] = "paid" /\ \A q \in Payments \ {p} : payment'[q] = payment[q]
      /\ \A q \in PaymentsOf(o) : payment[q] # "paid"
  BY <1>1, <1>2, Claiming
<1>4. o \in Orders /\ UNCHANGED <<refund, returned>>
  BY <1>1, <1>2, <1>3, OrderOfAssumption DEF Claim
<1>5. \A q : Whole(q)' <=> Whole(q)
  BY <1>4, SameRows, WholeStill
<1>6. ~ Whole(p)
  BY <1>3, NoneAssumption DEF Whole, RefundsOf, RefundInv, Taken
<1>7. Money[p] = "out" /\ \A q \in Payments \ {p} : OrderOf[q] = o => Money[q] # "in"
  BY <1>3, <1>6, Views DEF PaymentsOf
<1>8. Money' = [Money EXCEPT ![p] = "in"]
  BY <1>3, <1>5, <1>6 DEF Money, Whole
<1>9. \/ Account[o] \in {"open", "closed"} /\ Account' = [Account EXCEPT ![o] = "paid"]
      \/ Account[o] # "open" /\ UNCHANGED Account
  <2>1. CASE FinalizeConfirm(w)
    <3>1. status[o] \in {"pending_payment", "cancelled"} /\ status' = [status EXCEPT ![o] = "confirmed"]
      BY <1>1, <2>1 DEF FinalizeConfirm, OrderIs
    <3>2. QED
      BY <1>4, <3>1, Views DEF Account
  <2>2. CASE FinalizeRefund(w)
    <3>1. status' = status /\ status[o] # "pending_payment"
      BY <1>1, <2>2 DEF FinalizeRefund
    <3>2. QED
      BY <1>4, <3>1, AccountStill, Views
  <2>3. QED
    BY <2>1, <2>2
<1>10. Ledger!Take(p)
  BY <1>1, <1>7, <1>8, <1>9 DEF Ledger!Take, Ledger!Rivals
<1>11. QED
  BY <1>3, <1>10

(* The gateway is asked for the money of a payment still kept, once, or    *)
(* for a deposit of it.                                                    *)
LEMMA LedgerGive ==
  ASSUME IInv, OnceInv, HandInv, KeptInv, NEW w \in Workers, RefundCall(w) \/ RefundError(w)
  PROVE  \/ \E p \in Payments : Ledger!GiveBack(p)
         \/ UNCHANGED Ledger!mvars
<1>1. PICK p, r, o : p = job[w].pay /\ r = job[w].refund /\ o = OrderOf[p]
  OBVIOUS
<1>2. OwesRefund(w) /\ At(w, "refund_call") /\ UNCHANGED <<status, payment, refund>>
  BY DEF RefundCall, RefundError, OwesRefund, At
<1>3. /\ p \in Payments /\ p # None /\ o \in Orders /\ r \in Refunds /\ refund[r].pay = p /\ returned[r] = "none"
      /\ payment[p] \in Taken /\ status[o] \in {"cancelled", "refunded", "packed"}
  BY <1>1, <1>2, AtRefund DEF Refunding, HandInv
<1>4. PICK s : returned' = [returned EXCEPT ![r] = s]
  BY <1>1 DEF RefundCall, RefundError
<1>5. \A x \in Refunds \ {r} : returned'[x] = returned[x]
  BY <1>4 DEF IInv, TypeOK
<1>6. CASE s = "none" \/ refund[r].item
  <2>1. returned'[r] = "none" \/ refund[r].item
    BY <1>3, <1>4, <1>6 DEF IInv, TypeOK
  <2>2. \A q : Whole(q)' <=> Whole(q)
    BY <1>2, <1>3, <1>5, <2>1 DEF Whole, RefundsOf
  <2>3. \A q \in Payments : SamePaid(q)
    BY <1>2 DEF SamePaid
  <2>. QED
    BY <1>2, <2>2, <2>3, MoneyStill, AccountStill DEF Ledger!mvars
<1>7. CASE s # "none" /\ ~ refund[r].item
  <2>1. ~ Whole(p)
    BY <1>3, <1>7 DEF Whole, RefundsOf, OnceInv
  <2>2. Money[p] \in {"in", "part"}
    BY <1>3, <2>1, Views DEF Taken
  <2>3. returned'[r] # "none"
    BY <1>3, <1>4, <1>7 DEF IInv, TypeOK
  <2>4. Whole(p)' /\ \A q \in Payments \ {p} : Whole(q)' <=> Whole(q)
    BY <1>2, <1>3, <1>5, <1>7, <2>3 DEF Whole, RefundsOf
  <2>5. Money' = [Money EXCEPT ![p] = "back"]
    BY <1>2, <1>3, <2>4 DEF Money, Whole
  <2>6. Account[o] \in {"closed", "refunded"} \/ \E q \in Ledger!Rivals(p) : Money[q] \in {"in", "part"}
    <3>1. CASE status[o] # "packed"
      BY <1>3, <3>1, Views
    <3>2. CASE status[o] = "packed"
      <4>1. PICK q \in PaymentsOf(o) : Kept(q)
        BY <1>3, <3>2 DEF KeptInv
      <4>2. q \in Payments /\ OrderOf[q] = o /\ q # p /\ payment[q] \in Taken /\ ~ Whole(q)
        BY <1>3, <1>7, <4>1 DEF PaymentsOf, Kept, Whole, RefundsOf
      <4>3. Money[q] \in {"in", "part"}
        BY <4>2, Views DEF Taken
      <4>. QED
        BY <1>1, <4>2, <4>3 DEF Ledger!Rivals
    <3>. QED  BY <3>1, <3>2
  <2>7. Ledger!GiveBack(p)
    BY <1>1, <1>2, <2>2, <2>5, <2>6, AccountStill DEF Ledger!GiveBack
  <2>. QED
    BY <1>3, <2>7
<1>. QED
  BY <1>6, <1>7

(* What has been returned of a payment whose order is not packed is all of *)
(* it.                                                                     *)
LEMMA WholeBack ==
  ASSUME IInv, NEW p \in Payments, Back(p), status[OrderOf[p]] # "packed"
  PROVE  Whole(p)
<1>1. PICK r \in Refunds : refund[r].pay = p /\ returned[r] # "none"
  BY DEF Back, RefundsOf
<1>2. ~ refund[r].item
  BY <1>1, NoneAssumption DEF IInv, RefundInv
<1>. QED
  BY <1>1, <1>2 DEF Whole, RefundsOf

LEMMA LedgerRecord ==
  ASSUME IInv, OnceInv, HandInv, NEW w \in Workers, RefundRecord(w)
  PROVE  \/ \E o \in Orders : Ledger!MarkRefunded(o)
         \/ UNCHANGED Ledger!mvars
<1>0. TypeOK /\ Refund(w)
  BY DEF IInv, Refund
<1>1. PICK p, o : p = job[w].pay /\ o = OrderOf[p]
  OBVIOUS
<1>2. /\ p \in Payments /\ o \in Orders /\ Back(p) /\ Refunding(p, job[w].mark)
      /\ UNCHANGED <<payment, returned>>
  BY <1>1, AtRefund DEF RefundRecord, OwesRefund, At, HandInv
<1>3. RowsAsked
  <2>1. \A r \in Refunds : ~ (RefundCreate(w, r) \/ DepositCreate(w, r))
    BY DEF RefundRecord, RefundCreate, DepositCreate, At
  <2>. QED
    BY <1>0, <2>1, RowsStay DEF RowsAsked
<1>4. Money' = Money
  <2>1. \A q \in Payments : SamePaid(q)
    BY <1>2 DEF SamePaid
  <2>. QED
    BY <1>2, <1>3, <2>1, WholeStill, MoneyStill
<1>5. CASE status[o] = "cancelled"
  <2>1. status' = [status EXCEPT ![o] = "refunded"]
    BY <1>1, <1>2, <1>5 DEF RefundRecord, Refunding, OrderIs
  <2>2. Account[o] = "closed" /\ Account' = [Account EXCEPT ![o] = "refunded"]
    BY <1>0, <1>2, <1>5, <2>1 DEF Account, TypeOK
  <2>3. Money[p] = "back"
    BY <1>1, <1>2, <1>5, WholeBack, Views
  <2>4. Ledger!MarkRefunded(o)
    BY <1>1, <1>2, <1>4, <2>2, <2>3 DEF Ledger!MarkRefunded
  <2>5. QED
    BY <1>2, <2>4
<1>6. CASE status[o] \in {"refunded", "packed"}
  <2>1. status' = status
    BY <1>0, <1>1, <1>2, <1>6 DEF RefundRecord, OrderIs, Refunding, TypeOK
  <2>2. QED
    BY <1>4, <2>1, AccountStill DEF Ledger!mvars
<1>7. QED
  BY <1>1, <1>2, <1>5, <1>6 DEF Refunding

(* Deposits make a part of a payment kept in full.                         *)
LEMMA LedgerSync ==
  ASSUME IInv, HandInv, NEW w \in Workers, RefundSync(w)
  PROVE  \/ \E p \in Payments : Ledger!GivePart(p)
         \/ UNCHANGED Ledger!mvars
<1>0. TypeOK /\ JobInv(w)
  BY DEF IInv
<1>1. PICK p, o : p = job[w].pay /\ o = OrderOf[p]
  OBVIOUS
<1>2. /\ p \in Payments /\ o \in Orders /\ status[o] \in {"refunded", "packed"} /\ Back(p)
      /\ UNCHANGED <<status, refund, returned>>
  BY <1>0, <1>1, OrderOfAssumption DEF RefundSync, JobInv, At, HandInv
<1>3. \A q : Whole(q)' <=> Whole(q)
  BY <1>2, SameRows, WholeStill
<1>4. /\ \A q \in Payments \ {p} : payment'[q] = payment[q]
      /\ payment'[p] = payment[p] \/ (Total(p) > 0 /\ payment'[p] \in {"partially_refunded", "refunded"})
  BY <1>0, <1>1 DEF RefundSync, PaymentIs, TypeOK
<1>5. CASE payment'[p] = payment[p]
  <2>1. \A q \in Payments : SamePaid(q)
    BY <1>4, <1>5 DEF SamePaid
  <2>. QED
    BY <1>2, <1>3, <2>1, MoneyStill, AccountStill DEF Ledger!mvars
<1>6. CASE payment'[p] # payment[p]
  <2>1. payment[p] \in Taken /\ payment'[p] \in {"partially_refunded", "refunded"}
    <3>1. PICK r \in Refunds : refund[r].pay = p
      BY <1>0, <1>4, <1>6, Totals
    <3>. QED
      BY <1>2, <1>4, <1>6, <3>1, NoneAssumption DEF IInv, RefundInv
  <2>2. CASE Whole(p) \/ payment[p] # "paid"
    <3>1. \A q \in Payments : Money'[q] = Money[q]
      BY <1>2, <1>3, <1>4, <2>1, <2>2 DEF Money, Whole, Taken
    <3>2. Money' = Money
      BY <3>1 DEF Money
    <3>. QED
      BY <1>2, <3>2, AccountStill DEF Ledger!mvars
  <2>3. CASE ~ Whole(p) /\ payment[p] = "paid"
    <3>1. status[o] = "packed"
      BY <1>1, <1>2, <2>3, WholeBack
    <3>2. Money[p] = "in" /\ Account[o] = "paid"
      BY <1>2, <2>3, <3>1, Views
    <3>3. Money' = [Money EXCEPT ![p] = "part"]
      BY <1>2, <1>3, <1>4, <2>1, <2>3 DEF Money, Whole
    <3>4. Ledger!GivePart(p)
      BY <1>1, <1>2, <3>2, <3>3, AccountStill DEF Ledger!GivePart
    <3>. QED
      BY <1>2, <3>4
  <2>. QED  BY <2>2, <2>3
<1>. QED
  BY <1>5, <1>6

LEMMA LedgerShut ==
  ASSUME IInv, NEW o \in Orders, status[o] \in {"pending_payment", "confirmed"},
         OrderIs(o, "cancelled"), Money' = Money
  PROVE  Ledger!Shut(o)
<1>1. Account[o] \in {"open", "paid"} /\ Account' = [Account EXCEPT ![o] = "closed"]
  BY DEF Account, OrderIs, IInv, TypeOK
<1>2. QED
  BY <1>1 DEF Ledger!Shut

LEMMA LedgerStep ==
  ASSUME IInv, OnceInv, HandInv, KeptInv, [Next]_vars
  PROVE  [Ledger!MNext]_(Ledger!mvars)
<1> USE DEF IInv, TypeOK
<1> DEFINE Goal == Ledger!MNext \/ UNCHANGED Ledger!mvars
<1>0. SUFFICES Goal
  OBVIOUS
<1>1. ASSUME UNCHANGED <<status, returned>>, RowsAsked, \A p \in Payments : SamePaid(p)
      PROVE  Goal
  BY <1>1, WholeStill, MoneyStill, AccountStill DEF Ledger!mvars
<1>same. payment' = payment => \A p \in Payments : SamePaid(p)
  BY DEF SamePaid
<1>2. ASSUME NEW o \in Orders, Close(o), UNCHANGED <<refund, returned>> PROVE Goal
  <2>1. \A p \in Payments : SamePaid(p)
    BY <1>2 DEF Close, SamePaid, Taken
  <2>2. Money' = Money
    BY <1>2, <2>1, SameRows, WholeStill, MoneyStill
  <2>3. Ledger!Shut(o)
    BY <1>2, <2>2, LedgerShut DEF Close
  <2>4. QED
    BY <2>3 DEF Ledger!MNext
<1>3. ASSUME NEW w \in Workers, Session(w) PROVE Goal
  <2>1. JobInv(w)
    OBVIOUS
  <2>2. \A p \in Payments : SamePaid(p)
    <3>1. \A p \in Payments : payment'[p] = payment[p] \/ (payment[p] = "none" /\ payment'[p] = "pending")
      BY <1>3, <2>1 DEF Session, SessionOpen, SessionFind, SessionRetire, SessionInsert, SessionEnd, PaymentIs, JobInv
    <3>. QED  BY <3>1 DEF SamePaid, Taken
  <2>3. UNCHANGED <<status, refund, returned>>
    BY <1>3 DEF Session, SessionOpen, SessionFind, SessionRetire, SessionInsert, SessionEnd
  <2>4. QED
    BY <1>1, <2>2, <2>3, SameRows
<1>4. ASSUME NEW w \in Workers, Finalize(w) PROVE Goal
  <2>1. CASE FinalizeNothing(w)
    BY <1>1, <1>same, <2>1, SameRows DEF FinalizeNothing
  <2>2. QED
    BY <1>4, <2>1, LedgerTake DEF Finalize, Ledger!MNext
<1>5. ASSUME NEW w \in Workers, Refund(w) PROVE Goal
  <2>1. CASE RefundCall(w) \/ RefundError(w)
    BY <2>1, LedgerGive DEF Ledger!MNext
  <2>2. CASE RefundRecord(w)
    BY <2>2, LedgerRecord DEF Ledger!MNext
  <2>3. CASE RefundSync(w)
    BY <2>3, LedgerSync DEF Ledger!MNext
  <2>4. CASE ~ (RefundCall(w) \/ RefundError(w) \/ RefundRecord(w) \/ RefundSync(w))
    <3>1. UNCHANGED <<status, payment, returned>>
      BY <1>5, <2>4 DEF Refund, RefundRead, RefundCreate, DepositRead, DepositCreate, RefundAbort, RefundCatch,
                        RefundWebhook
    <3>2. \A r \in Refunds : RefundCreate(w, r) \/ DepositCreate(w, r) => returned[r] = "none"
      BY DEF RefundCreate, DepositCreate, NoRefund, OnceInv
    <3>3. RowsAsked
      <4>1. TypeOK
        OBVIOUS
      <4>. QED
        BY <1>5, <3>2, <4>1, RowsStay DEF RowsAsked
    <3>. QED
      BY <1>1, <1>same, <3>1, <3>3
  <2>. QED
    BY <2>1, <2>2, <2>3, <2>4
<1>6. ASSUME NEW w \in Workers, ReleaseJob(w) PROVE Goal
  <2>1. CASE JobClose(w) /\ Close(job[w].order)
    <3>1. job[w].order \in Orders
      BY <2>1 DEF JobClose, JobInv
    <3>2. QED
      BY <1>2, <2>1, <3>1 DEF JobClose
  <2>2. CASE ~ (JobClose(w) /\ Close(job[w].order))
    BY <1>1, <1>6, <1>same, <2>2, SameRows DEF ReleaseJob, JobRead, JobReconcile, JobClose
  <2>3. QED
    BY <2>1, <2>2
<1>7. ASSUME NEW w \in Workers, NEW o \in Orders, CancelPaid(w, o) PROVE Goal
  <2>1. Money' = Money
    BY <1>7, <1>same, SameRows, WholeStill, MoneyStill DEF CancelPaid
  <2>2. Ledger!Shut(o)
    BY <1>7, <2>1, LedgerShut DEF CancelPaid
  <2>3. QED
    BY <2>2 DEF Ledger!MNext
<1>8. ASSUME NEW w \in Workers, CancelFind(w) \/ Crash(w) \/ \E p \in Payments : Verify(w, p) \/ Webhook(w, p)
      PROVE  Goal
  BY <1>1, <1>8, <1>same, SameRows DEF CancelFind, Crash, Verify, Webhook
<1>9. CASE Customer
  BY <1>1, <1>2, <1>9, <1>same, SameRows DEF Customer, Authorize, Capture, CancelUnpaid
<1>10. ASSUME NEW o \in Orders, Pack(o) PROVE Goal
  <2>1. Account' = Account
    BY <1>10 DEF Pack, OrderIs, Account
  <2>2. Money' = Money
    BY <1>10, <1>same, SameRows, WholeStill, MoneyStill DEF Pack
  <2>3. QED
    BY <2>1, <2>2 DEF Ledger!mvars
<1>11. ASSUME NEW r \in Refunds, Settle(r) PROVE Goal
  <2>1. /\ UNCHANGED <<status, payment, refund>> /\ returned[r] # "none" /\ returned'[r] # "none"
        /\ \A s \in Refunds \ {r} : returned'[s] = returned[s]
    BY <1>11 DEF Settle
  <2>2. \A p : Whole(p)' <=> Whole(p)
    BY <2>1 DEF Whole, RefundsOf
  <2>3. QED
    BY <1>same, <2>1, <2>2, MoneyStill, AccountStill DEF Ledger!mvars
<1>12. CASE UNCHANGED vars \/ \E o \in Orders : Expire(o)
  BY <1>1, <1>12, <1>same, SameRows DEF vars, Expire
<1>13. QED
  BY <1>3, <1>4, <1>5, <1>6, <1>7, <1>8, <1>9, <1>10, <1>11, <1>12 DEF Next

(* The requests keep the ledger: while a payment is kept in full no other  *)
(* is taken, and a payment goes back once, of an order that no longer      *)
(* stands or that another payment keeps (finalize.ts, refunds.ts,          *)
(* lifecycle.ts), when the deployment uses one gateway.                    *)
THEOREM LedgerIsKept == ASSUME OneLane PROVE Spec => MoneyIsAccounted
<1>1. Init => Ledger!MInit
  <2> SUFFICES ASSUME Init PROVE Ledger!MInit
    OBVIOUS
  <2>1. Account = [o \in Orders |-> "open"]
    BY DEF Init, Account
  <2>2. \A p \in Payments : ~ \E r \in RefundsOf(p) : ~ refund[r].item /\ returned[r] # "none"
    BY DEF Init, RefundsOf
  <2>3. Money = [p \in Payments |-> "out"]
    BY <2>2 DEF Init, Money
  <2>4. QED
    BY <2>1, <2>3 DEF Ledger!MInit
<1>2. IInv /\ OnceInv /\ HandInv /\ KeptInv /\ [Next]_vars => [Ledger!MNext]_(Ledger!mvars)
  BY LedgerStep
<1>3. QED
  BY <1>1, <1>2, HandInvariant, KeptInvariant, PTL DEF Spec, MoneyIsAccounted, Ledger!MSpec

(* An order moves as the document allows, whichever requests race: the     *)
(* status refunds.ts writes without a guard reaches closed orders only.    *)
THEOREM OrdersMoveAlong == ASSUME OneLane PROVE Spec => Lifecycle
<1> DEFINE Moves(o) == <<status[o], status'[o]>> \in
      {<<"pending_payment", "confirmed">>, <<"pending_payment", "cancelled">>, <<"confirmed", "packed">>,
       <<"confirmed", "cancelled">>, <<"cancelled", "confirmed">>, <<"cancelled", "refunded">>}
<1>1. ASSUME IInv, [Next]_vars, NEW o \in Orders, status'[o] # status[o] PROVE Moves(o)
  <2> USE <1>1 DEF IInv, TypeOK, OrderIs
  <2>1. ASSUME NEW w \in Workers, Session(w) \/ CancelFind(w) \/ Crash(w) PROVE Moves(o)
    BY <2>1 DEF Session, SessionOpen, SessionFind, SessionRetire, SessionInsert, SessionEnd, CancelFind, Crash
  <2>2. ASSUME NEW w \in Workers, Finalize(w) PROVE Moves(o)
    BY <2>2 DEF Finalize, FinalizeNothing, FinalizeConfirm, FinalizeRefund
  <2>3. ASSUME NEW w \in Workers, Refund(w) PROVE Moves(o)
    <3>1. CASE RefundRecord(w)
      <4>1. Refunding(job[w].pay, job[w].mark) /\ OrderOf[job[w].pay] \in Orders
        BY <3>1, AtRefund DEF RefundRecord, OwesRefund, At
      <4>2. QED
        BY <3>1, <4>1 DEF RefundRecord, Refunding
    <3>2. QED
      BY <2>3, <3>1 DEF Refund, RefundRead, RefundCreate, DepositRead, DepositCreate, RefundCall, RefundError,
                        RefundSync, RefundAbort, RefundCatch, RefundWebhook
  <2>4. ASSUME NEW w \in Workers, ReleaseJob(w) PROVE Moves(o)
    BY <2>4 DEF ReleaseJob, JobRead, JobReconcile, JobClose, Close
  <2>5. ASSUME NEW w \in Workers, \/ \E p \in Payments : Verify(w, p) \/ Webhook(w, p)
                                  \/ \E x \in Orders : CancelPaid(w, x)
        PROVE  Moves(o)
    BY <2>5 DEF Verify, Webhook, CancelPaid
  <2>6. CASE Customer \/ \E x \in Orders : Pack(x) \/ Expire(x)
    BY <2>6 DEF Customer, Authorize, Capture, CancelUnpaid, Close, Pack, Expire
  <2>7. CASE UNCHANGED vars \/ \E r \in Refunds : Settle(r)
    BY <2>7 DEF vars, Settle
  <2>8. QED
    BY <2>1, <2>2, <2>3, <2>4, <2>5, <2>6, <2>7 DEF Next
<1>2. IInv /\ [Next]_vars => [\A o \in Orders : status'[o] # status[o] => Moves(o)]_vars
  BY <1>1
<1>3. QED
  BY <1>2, Invariant, PTL DEF Spec, Lifecycle
=============================================================================
