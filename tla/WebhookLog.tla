----------------------------- MODULE WebhookLog -----------------------------
(***************************************************************************)
(* How webhook events are taken in: handleRazorpayWebhook and dispatch     *)
(* (webhooks/razorpay.ts), with the record of failed attempts that the     *)
(* customer's own callback shares (recordPaymentFailure).  The gateway may *)
(* post an event at any time, several times at once, and again until it is *)
(* acknowledged; a handler may fail, or die with its process.  What an     *)
(* event does to payments and refunds is OrderPayments' business: here it  *)
(* is one idempotent effect.  The attempts counter and messages are left   *)
(* out.                                                                    *)
(***************************************************************************)
EXTENDS Integers, FiniteSets

CONSTANTS
  Events,       \* event ids
  Foreign,      \* those of no payment of ours, or of another amount
  Failures,     \* those that report a failed attempt (payment.failed)
  Handlers,     \* requests under way
  WebhookFaults \* bound: handlers that fail or die

ASSUME EventsAssumption == Foreign \subseteq Events /\ Failures \subseteq Events
ASSUME HandlersAssumption == IsFiniteSet(Handlers)

VARIABLES
  record,       \* record[e]: WebhookEvent.status, or "none"
  handler,      \* handler[h]: where a request is
  orderOpen,    \* the order is still pending_payment
  failureLog,   \* failureLog[e]: payment_failed entries of the attempt
  handled,      \* events whose dispatch returned
  acked,        \* events answered with a 200
  webhookFaults

webhookVars == <<record, handler, orderOpen, failureLog, handled, acked, webhookFaults>>

Free == [pc |-> "free"]
At(pc, e) == [pc |-> pc, event |-> e]

Finishing(e, outcome) == [pc |-> "finish", event |-> e, outcome |-> outcome]

Init ==
  /\ record = [e \in Events |-> "none"]
  /\ handler = [h \in Handlers |-> Free]
  /\ orderOpen = TRUE
  /\ failureLog = [e \in Events |-> 0]
  /\ handled = {}
  /\ acked = {}
  /\ webhookFaults = 0

Goes(h, to) == handler' = [handler EXCEPT ![h] = to]

(* The insert; the unique event id makes a second one fail (P2002).        *)
Receive(h, e) ==
  /\ handler[h] = Free
  /\ IF record[e] = "none"
     THEN record' = [record EXCEPT ![e] = "received"] /\ Goes(h, At("dispatch", e))
     ELSE Goes(h, At("found", e)) /\ UNCHANGED record
  /\ UNCHANGED <<orderOpen, failureLog, handled, acked, webhookFaults>>

(* Mutant of Settled: an event that was recorded at all is a duplicate.    *)
SettledOnceSeen(e) == record[e] # "none"

(* Mutant of Settled: an event that failed is done with, too.              *)
SettledOnceFailed(e) == record[e] \in {"processed", "ignored", "failed"}

Settled(e) == record[e] \in {"processed", "ignored"}

(* A settled event is acknowledged; one that failed, or is still in flight,*)
(* is processed again.                                                     *)
Found(h) ==
  LET e == handler[h].event IN
  /\ handler[h].pc = "found"
  /\ IF Settled(e)
     THEN acked' = acked \cup {e} /\ Goes(h, Free)
     ELSE Goes(h, At("dispatch", e)) /\ UNCHANGED acked
  /\ UNCHANGED <<record, orderOpen, failureLog, handled, webhookFaults>>

(* Everything but a failed attempt: one idempotent effect, or ignored, as  *)
(* what is found now says (a refund we have not stored yet, a capture of a *)
(* payment that failed); an event of none of ours is always ignored.       *)
Dispatch(h) ==
  LET e == handler[h].event IN
  /\ handler[h].pc = "dispatch"
  /\ e \notin Failures \ Foreign
  /\ handled' = handled \cup {e}
  /\ \E outcome \in {"processed", "ignored"} :
       /\ e \in Foreign => outcome = "ignored"
       /\ Goes(h, Finishing(e, outcome))
  /\ UNCHANGED <<record, orderOpen, failureLog, acked, webhookFaults>>

(* Mutant of MayRecord: nobody looks for an earlier entry.                 *)
MayRecordAgain(e) == orderOpen

(* recordPaymentFailure looks for an entry of this attempt, then writes    *)
(* one; a paid or closed order takes none.                                 *)
MayRecord(e) == orderOpen /\ failureLog[e] = 0

Look(h) ==
  LET e == handler[h].event IN
  /\ handler[h].pc \in {"dispatch", "callback"}
  /\ e \in Failures \ Foreign
  /\ IF MayRecord(e)
     THEN /\ Goes(h, [pc |-> "write", event |-> e, caller |-> handler[h].pc])
          /\ UNCHANGED handled
     ELSE /\ Goes(h, IF handler[h].pc = "callback" THEN Free ELSE Finishing(e, "processed"))
          /\ handled' = IF handler[h].pc = "callback" THEN handled ELSE handled \cup {e}
  /\ UNCHANGED <<record, orderOpen, failureLog, acked, webhookFaults>>

Write(h) ==
  LET e == handler[h].event IN
  /\ handler[h].pc = "write"
  /\ failureLog' = [failureLog EXCEPT ![e] = @ + 1]
  /\ IF handler[h].caller = "callback"
     THEN Goes(h, Free) /\ UNCHANGED handled
     ELSE Goes(h, Finishing(e, "processed")) /\ handled' = handled \cup {e}
  /\ UNCHANGED <<record, orderOpen, acked, webhookFaults>>

Finish(h) ==
  LET e == handler[h].event IN
  /\ handler[h].pc = "finish"
  /\ record' = [record EXCEPT ![e] = handler[h].outcome]
  /\ acked' = acked \cup {e}
  /\ Goes(h, Free)
  /\ UNCHANGED <<orderOpen, failureLog, handled, webhookFaults>>

(* An error marks the event failed, whatever it says now, and answers 500; *)
(* a dead process leaves the event as it is and answers nothing.           *)
Break(h) ==
  LET e == handler[h].event IN
  /\ handler[h].pc \in {"found", "dispatch", "write", "finish"}
  /\ handler[h].pc = "write" => handler[h].caller = "dispatch"
  /\ webhookFaults < WebhookFaults
  /\ webhookFaults' = webhookFaults + 1
  /\ \/ handler[h].pc # "found" /\ Goes(h, At("mark", e))
     \/ Goes(h, Free)
  /\ UNCHANGED <<record, orderOpen, failureLog, handled, acked>>

Mark(h) ==
  /\ handler[h].pc = "mark"
  /\ record' = [record EXCEPT ![handler[h].event] = "failed"]
  /\ Goes(h, Free)
  /\ UNCHANGED <<orderOpen, failureLog, handled, acked, webhookFaults>>

(* The customer's browser reports the same failed attempt.                 *)
Callback(h, e) ==
  /\ handler[h] = Free
  /\ Goes(h, At("callback", e))
  /\ UNCHANGED <<record, orderOpen, failureLog, handled, acked, webhookFaults>>

(* The order is paid, cancelled or released.                               *)
OrderMoves ==
  /\ orderOpen /\ orderOpen' = FALSE
  /\ UNCHANGED <<record, handler, failureLog, handled, acked, webhookFaults>>

Proceed(h) == Found(h) \/ Dispatch(h) \/ Look(h) \/ Write(h) \/ Finish(h) \/ Mark(h)

Next ==
  \/ \E h \in Handlers :
       \/ Proceed(h) \/ Break(h)
       \/ \E e \in Events : Receive(h, e)
       \/ \E e \in Failures : Callback(h, e)
  \/ OrderMoves

(* The gateway posts an event again until it is acknowledged.              *)
Redeliver(e) == e \notin acked /\ \E h \in Handlers : Receive(h, e)

(* A handler that began goes on, unless it fails or dies.                  *)
Spec ==
  /\ Init /\ [][Next]_webhookVars
  /\ \A h \in Handlers : WF_webhookVars(Proceed(h))
  /\ \A e \in Events : SF_webhookVars(Redeliver(e))

-----------------------------------------------------------------------------
(* What the gateway is told to forget has been dealt with: a 200 for an    *)
(* event in flight, failed or half done would lose it                      *)
(* (handleRazorpayWebhook: duplicates).                                    *)
AckedMeansHandled == acked \subseteq handled

(* The reports of a failed attempt that have looked and found no entry.    *)
Reporting(e) == {h \in Handlers : handler[h].pc = "write" /\ handler[h].event = e}

(* Once a failed attempt has an entry, reporting it again, by the browser  *)
(* or the gateway, adds none: its entries and the reports still on their   *)
(* way to writing one, which looked before there was any, never become     *)
(* more (recordPaymentFailure: "Repeats ... are recorded once").           *)
RepeatsAddNoEntry ==
  [][\A e \in Events : failureLog[e] > 0 =>
       failureLog'[e] + Cardinality(Reporting(e)') <= failureLog[e] + Cardinality(Reporting(e))]_webhookVars

(* Every event the gateway posts is dealt with and acknowledged in the end,*)
(* whichever handlers fail or die (handleRazorpayWebhook: "returns 500 so  *)
(* Razorpay retries").                                                     *)
EveryEventSettles == \A e \in Events : record[e] # "none" ~> e \in handled /\ e \in acked
=============================================================================
