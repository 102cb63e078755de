------------------------------ MODULE Deposits ------------------------------
(***************************************************************************)
(* Giving rental deposits back after the return: refundDepositForOrderItem *)
(* (payments/service.ts) with syncPaymentRefundStatus (payments/refunds.ts)*)
(* and the gateway's refund events (webhooks/razorpay.ts).  One order with *)
(* one payment and several rented items.  Requests overlap, also those for *)
(* one item.  The gateway may refuse, or accept and its answer, or the     *)
(* write that follows, be lost.                                            *)
(***************************************************************************)
EXTENDS Integers, FiniteSets, Functions

CONSTANTS
  Items,        \* rented items of the order
  ItemDeposit,  \* depositPaise of an item
  Grades,       \* the deposit given back by the condition found, in percent
  AmountPaid,   \* Payment.amountPaise
  Refunds,      \* Refund rows
  Clerks,       \* requests under way
  RefundFaults, \* bound: gateway calls or writes that fail
  NoRefund

VARIABLES
  grade,        \* grade[i]: by the condition of the unit, while unreturned 0
  returned,     \* items with an actualReturnDate
  refund,       \* refund[r]: Refund, or NoRefund
  payStatus,    \* Payment.status
  clerk,        \* clerk[c]: where a request is
  given,        \* given[i]: times the gateway gave money back for the item
  refundFaults

depositVars == <<grade, returned, refund, payStatus, clerk, given, refundFaults>>

Waiting == [pc |-> "waiting"]

RefundRow == [item : Items, amount : Nat, linked : BOOLEAN, reference : BOOLEAN,
              status : {"pending", "processed", "failed"}]

Init ==
  /\ grade = [i \in Items |-> 100]
  /\ returned = {}
  /\ refund = [r \in Refunds |-> NoRefund]
  /\ payStatus = "paid"
  /\ clerk = [c \in Clerks |-> Waiting]
  /\ given = [i \in Items |-> 0]
  /\ refundFaults = 0

Made == {r \in Refunds : refund[r] # NoRefund}

ToClerk(c, to) == clerk' = [clerk EXCEPT ![c] = to]

(* The unit comes back and is inspected; its condition may change later.   *)
Return(i) ==
  /\ i \notin returned /\ returned' = returned \cup {i}
  /\ UNCHANGED <<grade, refund, payStatus, clerk, given, refundFaults>>

Inspect(i, g) ==
  /\ grade[i] # g /\ grade' = [grade EXCEPT ![i] = g]
  /\ UNCHANGED <<returned, refund, payStatus, clerk, given, refundFaults>>

(* Mutant of Refundable: only an untouched payment is found.               *)
RefundableUntouched(status) == status = "paid"

Refundable(status) == status \in {"paid", "partially_refunded"}

(* The item with its unit and its order's payments.                        *)
Read(c, i) ==
  /\ clerk[c] = Waiting
  /\ i \in returned
  /\ ToClerk(c, [pc |-> "look", item |-> i, amount |-> (ItemDeposit[i] * grade[i] + 50) \div 100,
                 linked |-> Refundable(payStatus)])
  /\ UNCHANGED <<grade, returned, refund, payStatus, given, refundFaults>>

(* Mutant of RefundsOf: a failed refund does not count.                    *)
RefundsOfUnfailed(i) == {r \in Made : refund[r].item = i /\ refund[r].status # "failed"}

RefundsOf(i) == {r \in Made : refund[r].item = i}

(* A refund of the item is the answer, whatever became of it.              *)
Look(c) ==
  /\ clerk[c].pc = "look"
  /\ ToClerk(c, IF RefundsOf(clerk[c].item) # {} THEN Waiting ELSE [clerk[c] EXCEPT !.pc = "create"])
  /\ UNCHANGED <<grade, returned, refund, payStatus, given, refundFaults>>

Create(c) ==
  LET gateway == clerk[c].amount > 0 /\ clerk[c].linked IN
  /\ clerk[c].pc = "create"
  /\ \E r \in Refunds \ Made :
       /\ refund' = [refund EXCEPT ![r] =
            [item |-> clerk[c].item, amount |-> clerk[c].amount, linked |-> clerk[c].linked,
             reference |-> FALSE, status |-> "pending"]]
       /\ ToClerk(c, [pc |-> IF gateway THEN "call" ELSE "record",
                      item |-> clerk[c].item, row |-> r, guarded |-> gateway])
  /\ UNCHANGED <<grade, returned, payStatus, given, refundFaults>>

CallGateway(c) ==
  /\ clerk[c].pc = "call"
  /\ given' = [given EXCEPT ![clerk[c].item] = @ + 1]
  /\ ToClerk(c, [clerk[c] EXCEPT !.pc = "record"])
  /\ UNCHANGED <<grade, returned, refund, payStatus, refundFaults>>

(* Mutant of AfterRecord: the payment's status is not brought up to date.  *)
AfterRecordNothing(c) == Waiting

AfterRecord(c) == [clerk[c] EXCEPT !.pc = "sync"]

Record(c) ==
  /\ clerk[c].pc = "record"
  /\ refund' = [refund EXCEPT ![clerk[c].row].status = "processed",
                              ![clerk[c].row].reference = clerk[c].guarded]
  /\ ToClerk(c, AfterRecord(c))
  /\ UNCHANGED <<grade, returned, payStatus, given, refundFaults>>

(* What a payment's refunds that did not fail add up to, and the status    *)
(* that goes with it; nothing refunded is left as it is.                   *)
RefundTotal ==
  SumFunctionOnSet([r \in Made |-> refund[r].amount],
                   {r \in Made : refund[r].linked /\ refund[r].status # "failed"})

StatusFor(total) ==
  IF total <= 0 THEN payStatus
  ELSE IF total >= AmountPaid THEN "refunded" ELSE "partially_refunded"

SyncRead(c) ==
  /\ clerk[c].pc = "sync"
  /\ ToClerk(c, IF refund[clerk[c].row].linked /\ StatusFor(RefundTotal) # payStatus
                THEN [pc |-> "write", item |-> clerk[c].item, row |-> clerk[c].row,
                      guarded |-> clerk[c].guarded, status |-> StatusFor(RefundTotal)]
                ELSE Waiting)
  /\ UNCHANGED <<grade, returned, refund, payStatus, given, refundFaults>>

SyncWrite(c) ==
  /\ clerk[c].pc = "write"
  /\ payStatus' = clerk[c].status
  /\ ToClerk(c, Waiting)
  /\ UNCHANGED <<grade, returned, refund, given, refundFaults>>

(* The gateway refuses, or it accepted and the answer, the write or the    *)
(* sync after it fails: the row says failed.  Where the gateway was not    *)
(* called nothing catches the error, and the row stays as it is.           *)
Fails(c) ==
  /\ clerk[c].pc \in {"call", "record", "sync", "write"}
  /\ refundFaults < RefundFaults
  /\ refundFaults' = refundFaults + 1
  /\ refund' = IF clerk[c].guarded THEN [refund EXCEPT ![clerk[c].row].status = "failed"] ELSE refund
  /\ ToClerk(c, Waiting)
  /\ UNCHANGED <<grade, returned, payStatus, given>>

(* refund.processed and refund.failed arrive later, in any order; the row  *)
(* is found once it carries the gateway's reference.                       *)
RefundEvent(c, r, status) ==
  /\ clerk[c] = Waiting
  /\ r \in Made /\ refund[r].reference /\ refund[r].status # status
  /\ refund' = [refund EXCEPT ![r].status = status]
  /\ ToClerk(c, [pc |-> "sync", item |-> refund[r].item, row |-> r, guarded |-> FALSE])
  /\ UNCHANGED <<grade, returned, payStatus, given, refundFaults>>

Next ==
  \/ \E i \in Items : Return(i) \/ \E g \in Grades : Inspect(i, g)
  \/ \E c \in Clerks :
       \/ \E i \in Items : Read(c, i)
       \/ Look(c) \/ Create(c) \/ CallGateway(c) \/ Record(c)
       \/ SyncRead(c) \/ SyncWrite(c) \/ Fails(c)
       \/ \E r \in Refunds, s \in {"processed", "failed"} : RefundEvent(c, r, s)

Spec == Init /\ [][Next]_depositVars

-----------------------------------------------------------------------------
(* Every refund row has a shape its table allows.                          *)
TypeOK ==
  /\ \A r \in Made : refund[r] \in RefundRow
  /\ payStatus \in {"paid", "partially_refunded", "refunded"}

OneRowEach == \A r, s \in Made : refund[r].item = refund[s].item => r = s

(* As long as no item has two refunds: what is recorded as given back was, *)
(* once, though answers are lost and rows marked failed; the second deposit*)
(* of an order still finds its payment (refundDepositForOrderItem:         *)
(* payment, catch).                                                        *)
RecordedIsGiven ==
  OneRowEach => \A r \in Made :
    /\ given[refund[r].item] <= 1
    /\ refund[r].status = "processed" /\ refund[r].amount > 0 => given[refund[r].item] = 1

(* The requests that found no refund of the item and are about to give.    *)
Giving(i) == {c \in Clerks : clerk[c].pc \in {"create", "call"} /\ clerk[c].item = i}

(* Once an item has a refund, whatever became of it, asking again gives    *)
(* nothing: what was given and the requests on their way to giving, which  *)
(* looked before there was any, never become more                          *)
(* (refundDepositForOrderItem: existingRefund).                            *)
AskingAgainGivesNothing ==
  [][\A i \in Items : (\E r \in Made : refund[r].item = i) =>
       given'[i] + Cardinality(Giving(i)') <= given[i] + Cardinality(Giving(i))]_depositVars

(* All that was ever to be refunded of the payment, failed or not.         *)
Asked == SumFunctionOnSet([r \in Made |-> refund[r].amount], {r \in Made : refund[r].linked})

(* When no request is under way and none failed, a payment with refunds    *)
(* that stand says so, in whatever order requests and refund events came,  *)
(* and is not called refunded when part of it was never asked back         *)
(* (syncPaymentRefundStatus).                                              *)
StatusFollowsRefunds ==
  refundFaults = 0 /\ (\A c \in Clerks : clerk[c] = Waiting) /\ RefundTotal > 0 =>
    /\ payStatus # "paid"
    /\ Asked < AmountPaid => payStatus = "partially_refunded"
=============================================================================
