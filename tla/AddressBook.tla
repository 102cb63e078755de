---------------------------- MODULE AddressBook -----------------------------
(***************************************************************************)
(* The saved addresses of one customer (addresses/service.ts), and what an *)
(* order keeps of one (placement.ts).  Each request is one transaction;    *)
(* those of the customer come one after the other, but a placement reads   *)
(* the address first and writes its order later.  recency stands for       *)
(* updatedAt: clearing a default flag touches the row, too.  The text of   *)
(* an address is a version of it; it passes today's rules or not.          *)
(***************************************************************************)
EXTENDS Integers, FiniteSets, SequencesExt

CONSTANTS
  Addresses,
  MaxAddresses, \* MAX_ADDRESSES
  Texts,        \* what the customer may enter
  Deliverable,  \* the texts that pass assertAddressDeliverable
  Parcels,      \* orders that are placed
  NoAddress

VARIABLES
  address,      \* address[a]: Address, or NoAddress
  recency,      \* saved addresses, the one touched last first
  reading,      \* the address a placement has read, or NoAddress
  parcel        \* parcel[o]: addressId and snapshot of an order, or NoAddress

addressVars == <<address, recency, reading, parcel>>

AddressRow == [isDefault : BOOLEAN, text : Texts]

Init ==
  /\ address = [a \in Addresses |-> NoAddress]
  /\ recency = << >>
  /\ reading = NoAddress
  /\ parcel = [o \in Parcels |-> NoAddress]

Saved == {a \in Addresses : address[a] # NoAddress}
Defaults == {a \in Saved : address[a].isDefault}

(* A row that is touched comes first; so does a default that is cleared.   *)
Touch(a, rows) == <<a>> \o RemoveFirst(rows, a)

TouchOneOf(cleared) == IF cleared = {} THEN recency ELSE Touch(CHOOSE d \in cleared : TRUE, recency)

(* Mutant of MakesDefault: only who asks for it gets a default.            *)
MakesDefaultAsked(asked) == asked

(* The first address is always the default.                                *)
MakesDefault(asked) == asked \/ Saved = {}

CreateAddress(a, text, asked) ==
  LET makeDefault == MakesDefault(asked)
      cleared == IF makeDefault THEN Defaults ELSE {}
  IN /\ a \notin Saved
     /\ Cardinality(Saved) < MaxAddresses
     /\ address' = [b \in Addresses |->
          IF b = a THEN [isDefault |-> makeDefault, text |-> text]
          ELSE IF b \in cleared THEN [address[b] EXCEPT !.isDefault = FALSE] ELSE address[b]]
     /\ recency' = Touch(a, TouchOneOf(cleared))
     /\ UNCHANGED <<reading, parcel>>

(* The flag is set, or left: a default is only given up for another one.   *)
UpdateAddress(a, text, asked) ==
  LET cleared == IF asked /\ a \in Saved \ Defaults THEN Defaults ELSE {} IN
  /\ a \in Saved
  /\ address' = [b \in Addresses |->
       IF b = a THEN [isDefault |-> asked \/ address[a].isDefault, text |-> text]
       ELSE IF b \in cleared THEN [address[b] EXCEPT !.isDefault = FALSE] ELSE address[b]]
  /\ recency' = Touch(a, TouchOneOf(cleared))
  /\ UNCHANGED <<reading, parcel>>

(* promoteNewestAsDefault: the address touched last becomes the default.   *)
(* Orders keep their snapshot, their addressId is set to null.             *)
DeleteAddress(a) ==
  LET rest == RemoveFirst(recency, a)
      promoted == IF a \in Defaults /\ rest # << >> THEN {Head(rest)} ELSE {}
  IN /\ a \in Saved
     /\ address' = [b \in Addresses |-> IF b = a THEN NoAddress
                                        ELSE IF b \in promoted THEN [address[b] EXCEPT !.isDefault = TRUE]
                                        ELSE address[b]]
     /\ recency' = rest
     /\ parcel' = [o \in Parcels |-> IF parcel[o] # NoAddress /\ parcel[o].id = a
                                     THEN [parcel[o] EXCEPT !.id = NoAddress] ELSE parcel[o]]
     /\ UNCHANGED reading

(* buildDraft reads and checks the address; the order is written later with*)
(* what was read, unless the address is gone (foreign key).                *)
PlaceRead(a) ==
  /\ reading = NoAddress
  /\ a \in Saved /\ address[a].text \in Deliverable
  /\ reading' = [id |-> a, text |-> address[a].text]
  /\ UNCHANGED <<address, recency, parcel>>

(* Mutant of Snapshot: the order takes the address as it is now.           *)
SnapshotNow == [id |-> reading.id, text |-> address[reading.id].text]

Snapshot == reading

PlaceWrite(o) ==
  /\ reading # NoAddress
  /\ parcel[o] = NoAddress
  /\ parcel' = IF reading.id \in Saved THEN [parcel EXCEPT ![o] = Snapshot] ELSE parcel
  /\ reading' = NoAddress
  /\ UNCHANGED <<address, recency>>

Next ==
  \/ \E a \in Addresses :
       \/ \E t \in Texts, asked \in BOOLEAN : CreateAddress(a, t, asked) \/ UpdateAddress(a, t, asked)
       \/ DeleteAddress(a) \/ PlaceRead(a)
  \/ \E o \in Parcels : PlaceWrite(o)

Spec == Init /\ [][Next]_addressVars

-----------------------------------------------------------------------------
(* recency lists what is saved, once.                                      *)
TypeOK ==
  /\ \A a \in Saved : address[a] \in AddressRow
  /\ Len(recency) = Cardinality(Saved) /\ ToSet(recency) = Saved

(* Whatever is saved, changed and deleted, a customer with addresses has   *)
(* exactly one default (updateAddress: "so the user never ends up with     *)
(* none").                                                                 *)
OneDefault == Cardinality(Defaults) = (IF Saved = {} THEN 0 ELSE 1)

(* An order is sent where the rules allowed it, also when the address was  *)
(* edited between the check and the order (assertAddressDeliverable,       *)
(* addressSnapshot).                                                       *)
SentWhereDeliverable == \A o \in Parcels : parcel[o] # NoAddress => parcel[o].text \in Deliverable
=============================================================================
