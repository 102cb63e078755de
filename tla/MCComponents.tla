---------------------------- MODULE MCComponents ----------------------------
(***************************************************************************)
(* Small instances of the components that share no rows with each other:   *)
(* deposits, sign-in, fulfilment, addresses, the catalogue and the amounts *)
(* charged.  One of them moves in a behaviour (part): steps of the others  *)
(* in between would change nothing it reads.  Sign-in moves in two parts,  *)
(* with codes and with reset links, which meet in the sessions alone.      *)
(***************************************************************************)
EXTENDS Integers, FiniteSets, TLC

CONSTANTS
  Items, ItemDeposit, Grades, AmountPaid, Refunds, Clerks, RefundFaults, NoRefund,
  Emails, Phones, Codes, Requests, Sessions, ResetLinks, MaxAttempts, NoOne, NoCode,
  Orders, Jobs, Operators, NoJob,
  Addresses, MaxAddresses, Texts, Deliverable, Parcels, NoAddress,
  Categories, Products, Colours, Sizes, Units, Lines, Editors, Missing,
  Base, Foreign, Places, CurrencyOf, Scale, Rates, Totals, Bills, Payments, PaySessions, MaxRefreshes, Nothing

VARIABLES
  part,
  grade, returned, refund, payStatus, clerk, given, refundFaults,
  user, otp, sent, compared, uses, session, link, request,
  rentals, status, events, dispatches, delivery, operator,
  address, recency, reading, parcel,
  category, product, colour, unit, line, wish, editor,
  rate, visit, bill, payment, opening, razorpay, seen, refreshes

Deposit == INSTANCE Deposits
Accounts == INSTANCE SignIn
Delivering == INSTANCE Fulfilment
Book == INSTANCE AddressBook
Shop == INSTANCE Catalogue
Money == INSTANCE Charges WITH Sessions <- PaySessions

depositVars == <<grade, returned, refund, payStatus, clerk, given, refundFaults>>
signInVars == <<user, otp, sent, compared, uses, session, link, request>>
fulfilmentVars == <<rentals, status, events, dispatches, delivery, operator>>
addressVars == <<address, recency, reading, parcel>>
catalogueVars == <<category, product, colour, unit, line, wish, editor>>
chargeVars == <<rate, visit, bill, payment, opening, razorpay, seen, refreshes>>

-----------------------------------------------------------------------------
(* What the program's tables and settings are: rows are never the mark of  *)
(* their absence, amounts are whole, a grade is a percentage, scale and    *)
(* totals are positive, every country's currency is a supported one; what  *)
(* was paid covers the deposits (payments/session.ts adds them up).        *)
ASSUME DepositsAssumption ==
  /\ IsFiniteSet(Items) /\ IsFiniteSet(Refunds) /\ IsFiniteSet(Clerks)
  /\ ItemDeposit \in [Items -> Nat] /\ Grades \subseteq 0..100
  /\ AmountPaid \in Nat /\ AmountPaid >= Deposit!SumFunctionOnSet(ItemDeposit, Items)
  /\ NoRefund \notin Deposit!RefundRow

ASSUME SignInAssumption ==
  MaxAttempts \in Nat /\ NoOne \notin Accounts!UserRow /\ NoCode \notin Accounts!OtpRow

ASSUME NoJobAssumption == NoJob \notin Delivering!DeliveryRow

ASSUME NoAddressAssumption == NoAddress \notin Book!AddressRow

ASSUME CatalogueAssumption ==
  Missing \notin Categories \cup Shop!ColourRow \cup Shop!UnitRow \cup Shop!LineRow

ASSUME ChargesAssumption ==
  /\ Scale \in Nat \ {0} /\ Rates \subseteq Nat /\ Totals \subseteq Nat \ {0}
  /\ \A place \in DOMAIN CurrencyOf : CurrencyOf[place] \in Money!Currencies
  /\ Nothing \notin Money!BillRow \cup Money!PaymentRow \cup Rates

-----------------------------------------------------------------------------
vars == <<part, depositVars, signInVars, fulfilmentVars, addressVars, catalogueVars, chargeVars>>

Init ==
  /\ part \in {"deposits", "accounts", "links", "delivering", "book", "shop", "money"}
  /\ Deposit!Init /\ Accounts!Init /\ Delivering!Init /\ Book!Init /\ Shop!Init /\ Money!Init

Next ==
  /\ UNCHANGED part
  /\ \/ /\ part = "deposits" /\ Deposit!Next
        /\ UNCHANGED <<signInVars, fulfilmentVars, addressVars, catalogueVars, chargeVars>>
     \/ /\ part = "accounts" /\ UNCHANGED link /\ Accounts!Next
        /\ UNCHANGED <<depositVars, fulfilmentVars, addressVars, catalogueVars, chargeVars>>
     \/ /\ part = "links" /\ UNCHANGED otp /\ Accounts!Next
        /\ UNCHANGED <<depositVars, fulfilmentVars, addressVars, catalogueVars, chargeVars>>
     \/ /\ part = "delivering" /\ Delivering!Next
        /\ UNCHANGED <<depositVars, signInVars, addressVars, catalogueVars, chargeVars>>
     \/ /\ part = "book" /\ Book!Next
        /\ UNCHANGED <<depositVars, signInVars, fulfilmentVars, catalogueVars, chargeVars>>
     \/ /\ part = "shop" /\ Shop!Next
        /\ UNCHANGED <<depositVars, signInVars, fulfilmentVars, addressVars, chargeVars>>
     \/ /\ part = "money" /\ Money!Next
        /\ UNCHANGED <<depositVars, signInVars, fulfilmentVars, addressVars, catalogueVars>>

Spec == Init /\ [][Next]_vars

TypeOK == Deposit!TypeOK /\ Accounts!TypeOK /\ Delivering!TypeOK /\ Book!TypeOK /\ Shop!TypeOK /\ Money!TypeOK

RecordedIsGiven == Deposit!RecordedIsGiven
AskingAgainGivesNothing == Deposit!AskingAgainGivesNothing
StatusFollowsRefunds == Deposit!StatusFollowsRefunds
AttemptsBounded == Accounts!AttemptsBounded
CodeServesOnce == Accounts!CodeServesOnce
DispatchedOnce == Delivering!DispatchedOnce
TimelineDated == Delivering!TimelineDated
OneDefault == Book!OneDefault
SentWhereDeliverable == Book!SentWhereDeliverable
NothingDangles == Shop!NothingDangles
OrderedStays == Shop!OrderedStays
ShownIsCharged == Money!ShownIsCharged

-----------------------------------------------------------------------------
MCItemDeposit == [i \in Items |-> 3]

MCCurrencyOf == [us |-> "USD"]

(* One set of workers and one of row names serve every part.               *)
MCSymmetry == Permutations(Clerks) \cup Permutations(Refunds)
=============================================================================
