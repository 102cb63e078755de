-------------------------- MODULE WebhookLogProofs --------------------------
(***************************************************************************)
(* What the gateway is told to forget has been dealt with, and repeated    *)
(* reports of a failed attempt add no entry, for any events, any number of *)
(* handlers at once and any number of faults.                              *)
(***************************************************************************)
EXTENDS WebhookLog, FiniteSetTheorems, TLAPS

HandlerType ==
  {Free}
  \cup [pc : {"dispatch", "found", "callback", "mark"}, event : Events]
  \cup [pc : {"finish"}, event : Events, outcome : {"processed", "ignored"}]
  \cup [pc : {"write"}, event : Events, caller : {"dispatch", "callback"}]

TypeOK ==
  /\ record \in [Events -> {"none", "received", "processed", "ignored", "failed"}]
  /\ handler \in [Handlers -> HandlerType]
  /\ failureLog \in [Events -> Nat]

(* Who says of an event that it was dealt with: a settled record, and a    *)
(* handler that is about to settle it.                                     *)
Inv ==
  /\ TypeOK
  /\ \A e \in Events : Settled(e) => e \in handled
  /\ \A h \in Handlers : handler[h].pc = "finish" => handler[h].event \in handled
  /\ acked \subseteq handled

(* The places a handler may be in, and what they name.                     *)
LEMMA Places ==
  /\ Free \in HandlerType /\ Free.pc = "free"
  /\ \A e \in Events :
       /\ \A pc \in {"dispatch", "found", "callback", "mark"} :
            At(pc, e) \in HandlerType /\ At(pc, e).pc = pc /\ At(pc, e).event = e
       /\ \A outcome \in {"processed", "ignored"} :
            /\ Finishing(e, outcome) \in HandlerType
            /\ Finishing(e, outcome).pc = "finish" /\ Finishing(e, outcome).event = e
       /\ \A c \in {"dispatch", "callback"} :
            /\ [pc |-> "write", event |-> e, caller |-> c] \in HandlerType
            /\ [pc |-> "write", event |-> e, caller |-> c].pc = "write"
            /\ [pc |-> "write", event |-> e, caller |-> c].event = e
BY DEF HandlerType, Free, At, Finishing

LEMMA AtPlace ==
  ASSUME NEW t \in HandlerType
  PROVE  /\ t.pc \in {"free", "dispatch", "found", "callback", "mark", "finish", "write"}
         /\ t.pc # "free" => t.event \in Events
         /\ t.pc = "finish" => t.outcome \in {"processed", "ignored"}
         /\ t.pc = "write" => t.caller \in {"dispatch", "callback"}
BY DEF HandlerType, Free, At, Finishing

LEMMA Going ==
  ASSUME handler \in [Handlers -> HandlerType], NEW h \in Handlers, NEW t \in HandlerType, Goes(h, t)
  PROVE  /\ handler' \in [Handlers -> HandlerType]
         /\ handler'[h] = t /\ \A k \in Handlers \ {h} : handler'[k] = handler[k]
BY DEF Goes

(* A handler goes on; it may only settle what was handled.                 *)
LEMMA GoesOn ==
  ASSUME Inv, NEW h \in Handlers, NEW t \in HandlerType, Goes(h, t),
         record' \in [Events -> {"none", "received", "processed", "ignored", "failed"}],
         failureLog' \in [Events -> Nat],
         handled \subseteq handled', acked' \subseteq acked \cup handled',
         \A e \in Events : Settled(e)' => Settled(e) \/ e \in handled,
         t.pc = "finish" => t.event \in handled'
  PROVE  Inv'
<1>1. TypeOK'
  BY Going DEF Inv, TypeOK
<1>2. \A k \in Handlers : (handler[k].pc = "finish" => handler[k].event \in handled)'
  <2>1. handler'[h] = t /\ \A k \in Handlers \ {h} : handler'[k] = handler[k]
    BY Going DEF Inv, TypeOK
  <2>2. QED
    BY <2>1 DEF Inv
<1>3. QED
  BY <1>1, <1>2 DEF Inv

(* Dispatching comes before settling and acknowledging; nobody forgets     *)
(* what was handled.                                                       *)
LEMMA InvStep ==
  ASSUME Inv, [Next]_webhookVars
  PROVE  Inv'
<1>0. /\ record \in [Events -> {"none", "received", "processed", "ignored", "failed"}]
      /\ failureLog \in [Events -> Nat]
      /\ \A h \in Handlers : handler[h] \in HandlerType
      /\ \A h \in Handlers : handler[h].pc = "finish" => handler[h].event \in handled
      /\ \A e \in Events : Settled(e) => e \in handled
  BY DEF Inv, TypeOK
<1>1. ASSUME NEW h \in Handlers, NEW e \in Events, Receive(h, e) PROVE Inv'
  <2>1. PICK t \in HandlerType : Goes(h, t) /\ t.pc # "finish"
    BY <1>1, Places DEF Receive
  <2>2. record' = record \/ record' = [record EXCEPT ![e] = "received"]
    BY <1>1 DEF Receive
  <2>3. QED
    BY <1>0, <1>1, <2>1, <2>2, GoesOn DEF Receive, Settled
<1>2. ASSUME NEW h \in Handlers, Found(h) PROVE Inv'
  <2>1. PICK e \in Events : e = handler[h].event
    BY <1>0, <1>2, AtPlace DEF Found
  <2>2. PICK t \in HandlerType : Goes(h, t) /\ t.pc # "finish"
    BY <1>2, <2>1, Places DEF Found
  <2>3. acked' \subseteq acked \cup handled
    BY <1>0, <1>2, <2>1 DEF Found
  <2>4. QED
    BY <1>0, <1>2, <2>2, <2>3, GoesOn DEF Found, Settled
<1>3. ASSUME NEW h \in Handlers, Dispatch(h) PROVE Inv'
  <2>1. PICK e \in Events : e = handler[h].event
    BY <1>0, <1>3, AtPlace DEF Dispatch
  <2>2. PICK outcome \in {"processed", "ignored"} : Goes(h, Finishing(e, outcome))
    BY <1>3, <2>1 DEF Dispatch
  <2>3. PICK t \in HandlerType : Goes(h, t) /\ t.event = e
    <3>1. Finishing(e, outcome) \in HandlerType /\ Finishing(e, outcome).event = e
      BY Places
    <3>. QED
      BY <2>2, <3>1
  <2>4. e \in handled' /\ handled \subseteq handled' /\ UNCHANGED <<record, failureLog, acked>>
    BY <1>3, <2>1 DEF Dispatch
  <2>5. QED
    BY <1>0, <2>3, <2>4, GoesOn DEF Settled
<1>4. ASSUME NEW h \in Handlers, Look(h) PROVE Inv'
  <2>1. PICK e \in Events : e = handler[h].event
    BY <1>0, <1>4, AtPlace DEF Look
  <2>2. handled \subseteq handled' /\ UNCHANGED <<record, failureLog, acked>>
    BY <1>4 DEF Look
  <2>3. \/ \E c \in {"dispatch", "callback"} : Goes(h, [pc |-> "write", event |-> e, caller |-> c])
        \/ Goes(h, Free)
        \/ Goes(h, Finishing(e, "processed")) /\ e \in handled'
    BY <1>4, <2>1 DEF Look
  <2>4. CASE \E c \in {"dispatch", "callback"} : Goes(h, [pc |-> "write", event |-> e, caller |-> c])
    BY <1>0, <2>1, <2>2, <2>4, Places, GoesOn DEF Settled
  <2>5. CASE Goes(h, Free)
    BY <1>0, <2>2, <2>5, Places, GoesOn DEF Settled
  <2>6. CASE Goes(h, Finishing(e, "processed")) /\ e \in handled'
    BY <1>0, <2>1, <2>2, <2>6, Places, GoesOn DEF Settled
  <2>7. QED
    BY <2>3, <2>4, <2>5, <2>6
<1>5. ASSUME NEW h \in Handlers, Write(h) PROVE Inv'
  <2>1. PICK e \in Events : e = handler[h].event
    BY <1>0, <1>5, AtPlace DEF Write
  <2>2. /\ handled \subseteq handled' /\ UNCHANGED <<record, acked>>
        /\ failureLog' = [failureLog EXCEPT ![e] = @ + 1]
    BY <1>5, <2>1 DEF Write
  <2>3. Goes(h, Free) \/ (Goes(h, Finishing(e, "processed")) /\ e \in handled')
    BY <1>5, <2>1 DEF Write
  <2>4. failureLog' \in [Events -> Nat]
    BY <1>0, <2>2
  <2>5. CASE Goes(h, Free)
    BY <1>0, <2>2, <2>4, <2>5, Places, GoesOn DEF Settled
  <2>6. CASE Goes(h, Finishing(e, "processed")) /\ e \in handled'
    <3>1. PICK t \in HandlerType : Goes(h, t) /\ t.event = e
      <4>1. Finishing(e, "processed") \in HandlerType /\ Finishing(e, "processed").event = e
        BY <2>1, Places
      <4>. QED
        BY <2>6, <4>1
    <3>2. QED
      BY <1>0, <2>2, <2>4, <2>6, <3>1, GoesOn, SMTT(20) DEF Settled
  <2>7. QED
    BY <2>3, <2>5, <2>6
<1>6. ASSUME NEW h \in Handlers, Finish(h) PROVE Inv'
  <2>1. PICK e \in Events : e = handler[h].event /\ e \in handled
    BY <1>0, <1>6, AtPlace DEF Finish
  <2>2. PICK outcome \in {"processed", "ignored"} : record' = [record EXCEPT ![e] = outcome]
    BY <1>0, <1>6, <2>1, AtPlace DEF Finish
  <2>3. QED
    BY <1>0, <1>6, <2>1, <2>2, Places, GoesOn DEF Finish, Settled
<1>7. ASSUME NEW h \in Handlers, Break(h) PROVE Inv'
  <2>1. PICK e \in Events : e = handler[h].event
    BY <1>0, <1>7, AtPlace DEF Break
  <2>2. Goes(h, Free) \/ Goes(h, At("mark", e))
    BY <1>7, <2>1 DEF Break
  <2>3. PICK t \in HandlerType : Goes(h, t) /\ t.pc # "finish"
    BY <2>1, <2>2, Places
  <2>4. QED
    BY <1>0, <1>7, <2>3, GoesOn DEF Break, Settled
<1>8. ASSUME NEW h \in Handlers, Mark(h) PROVE Inv'
  <2>1. PICK e \in Events : e = handler[h].event
    BY <1>0, <1>8, AtPlace DEF Mark
  <2>2. QED
    BY <1>0, <1>8, <2>1, Places, GoesOn DEF Mark, Settled
<1>9. ASSUME NEW h \in Handlers, NEW e \in Failures, Callback(h, e) PROVE Inv'
  <2>1. At("callback", e) \in HandlerType /\ At("callback", e).pc # "finish"
    BY Places, EventsAssumption
  <2>2. QED
    BY <1>0, <1>9, <2>1, GoesOn DEF Callback, Settled
<1>10. CASE OrderMoves \/ UNCHANGED webhookVars
  BY <1>10 DEF OrderMoves, webhookVars, Inv, TypeOK, Settled
<1>11. QED
  BY <1>1, <1>2, <1>3, <1>4, <1>5, <1>6, <1>7, <1>8, <1>9, <1>10 DEF Next, Proceed

LEMMA InvInit == Init => Inv
BY Places DEF Init, Inv, TypeOK, Settled

LEMMA InvAlways == Spec => []Inv
BY InvInit, InvStep, PTL DEF Spec

(* What is acknowledged was dispatched to its end, however the deliveries  *)
(* overlap, fail and are repeated (handleRazorpayWebhook).                 *)
THEOREM AcknowledgedIsHandled == Spec => []AckedMeansHandled
<1>1. Inv => AckedMeansHandled
  BY DEF Inv, AckedMeansHandled
<1>2. QED
  BY <1>1, InvAlways, PTL

-----------------------------------------------------------------------------
(* Repeats.                                                                *)

(* Entries, and the reports about to write one.                            *)
NotMore(e) ==
  failureLog'[e] + Cardinality(Reporting(e)') <= failureLog[e] + Cardinality(Reporting(e))

LEMMA ReportsCount ==
  ASSUME NEW e
  PROVE  IsFiniteSet(Reporting(e)) /\ Cardinality(Reporting(e)) \in Nat
<1>1. Reporting(e) \subseteq Handlers
  BY DEF Reporting
<1>2. QED
  BY <1>1, HandlersAssumption, FS_Subset, FS_CardinalityType

(* No new report, no new entry.                                            *)
LEMMA FewerReports ==
  ASSUME NEW e \in Events, failureLog[e] \in Nat, failureLog'[e] = failureLog[e],
         Reporting(e)' \subseteq Reporting(e)
  PROVE  NotMore(e)
<1>1. Cardinality(Reporting(e)') <= Cardinality(Reporting(e)) /\ Cardinality(Reporting(e)') \in Nat
  BY ReportsCount, FS_Subset, FS_CardinalityType
<1>2. QED
  BY <1>1, ReportsCount DEF NotMore

(* A report that looks once there is an entry goes no further, and one     *)
(* that writes is itself one report less.                                  *)
LEMMA ReportsStep ==
  ASSUME Inv, [Next]_webhookVars, NEW e \in Events, failureLog[e] > 0
  PROVE  NotMore(e)
<1> USE DEF Inv, TypeOK
<1>0. failureLog[e] \in Nat /\ \A h \in Handlers : handler[h] \in HandlerType
  OBVIOUS
<1>1. ASSUME failureLog' = failureLog, NEW h \in Handlers, NEW t, Goes(h, t), t.pc # "write" PROVE NotMore(e)
  <2>1. Reporting(e)' \subseteq Reporting(e)
    BY <1>1 DEF Reporting, Goes
  <2>2. QED
    BY <1>0, <1>1, <2>1, FewerReports
<1>2. ASSUME NEW h \in Handlers, NEW f, Receive(h, f) \/ Callback(h, f) PROVE NotMore(e)
  BY <1>1, <1>2 DEF Receive, Callback, At
<1>3. ASSUME NEW h \in Handlers, Found(h) \/ Dispatch(h) \/ Finish(h) \/ Break(h) \/ Mark(h) PROVE NotMore(e)
  BY <1>1, <1>3 DEF Found, Dispatch, Finish, Break, Mark, At, Finishing, Free
<1>4. ASSUME NEW h \in Handlers, Look(h) PROVE NotMore(e)
  <2>1. CASE MayRecord(handler[h].event)
    <3>1. handler[h].event # e
      BY <1>0, <2>1 DEF MayRecord
    <3>2. Reporting(e)' \subseteq Reporting(e)
      BY <1>4, <2>1, <3>1 DEF Reporting, Goes, Look
    <3>3. QED
      BY <1>0, <1>4, <3>2, FewerReports DEF Look
  <2>2. CASE ~ MayRecord(handler[h].event)
    BY <1>1, <1>4, <2>2 DEF Look, Free, Finishing
  <2>3. QED
    BY <2>1, <2>2
<1>5. ASSUME NEW h \in Handlers, Write(h) PROVE NotMore(e)
  <2>1. PICK f \in Events : f = handler[h].event
    BY <1>0, <1>5, AtPlace DEF Write
  <2>2. PICK t : Goes(h, t) /\ t.pc # "write"
    BY <1>5 DEF Write, Free, Finishing
  <2>3. failureLog' = [failureLog EXCEPT ![f] = @ + 1]
    BY <1>5, <2>1 DEF Write
  <2>4. CASE f # e
    <3>1. Reporting(e)' \subseteq Reporting(e)
      BY <2>2 DEF Reporting, Goes
    <3>2. QED
      BY <1>0, <2>3, <2>4, <3>1, FewerReports
  <2>5. CASE f = e
    <3>1. h \in Reporting(e) /\ Reporting(e)' \subseteq Reporting(e) \ {h}
      BY <1>5, <2>1, <2>2, <2>5 DEF Reporting, Goes, Write
    <3>2. Cardinality(Reporting(e) \ {h}) = Cardinality(Reporting(e)) - 1 /\ IsFiniteSet(Reporting(e) \ {h})
      BY <3>1, ReportsCount, FS_RemoveElement
    <3>3. Cardinality(Reporting(e)') <= Cardinality(Reporting(e)) - 1 /\ Cardinality(Reporting(e)') \in Nat
      BY <3>1, <3>2, FS_Subset, FS_CardinalityType
    <3>4. failureLog'[e] = failureLog[e] + 1
      BY <1>0, <2>3, <2>5
    <3>5. QED
      BY <1>0, <3>3, <3>4, ReportsCount DEF NotMore
  <2>6. QED
    BY <2>4, <2>5
<1>6. CASE OrderMoves \/ UNCHANGED webhookVars
  <2>1. UNCHANGED <<handler, failureLog>>
    BY <1>6 DEF OrderMoves, webhookVars
  <2>2. QED
    BY <1>0, <2>1, FewerReports DEF Reporting
<1>7. QED
  BY <1>2, <1>3, <1>4, <1>5, <1>6 DEF Next, Proceed

(* Once a failed attempt has an entry, no report of it that has not looked *)
(* yet adds another, however many browsers and deliveries repeat it        *)
(* (recordPaymentFailure).                                                 *)
THEOREM RepeatsAddNothing == Spec => RepeatsAddNoEntry
<1>1. Inv /\ [Next]_webhookVars => [\A e \in Events : failureLog[e] > 0 => NotMore(e)]_webhookVars
  BY ReportsStep
<1>2. QED
  BY <1>1, InvAlways, PTL DEF Spec, RepeatsAddNoEntry, NotMore
=============================================================================
