------------------------------ MODULE Checkout ------------------------------
(***************************************************************************)
(* From the bag to the order: cart/service.ts, cart/validation.ts,         *)
(* coupons/service.ts, orders/placement.ts and the part of                 *)
(* payments/finalize.ts that empties the bag.                              *)
(*                                                                         *)
(* One product of one colour and size is rented and sold.  A bag line is   *)
(* a row with an identity of its own; the customer's devices change it in  *)
(* requests that read first and write later.  The customer reviews the     *)
(* amount (Review) and submits it under an idempotency key, as often as    *)
(* the network makes them.  A placement reads the order of its key, prices *)
(* the bag and looks for the same checkout (BeginPlace, Draft), and creates*)
(* the order in one transaction (Create); how transactions compete for     *)
(* garments is Allocation's business.                                      *)
(***************************************************************************)
EXTENDS Quotes, Functions

CONSTANTS
  Customers, LineIds, Orders, Keys,
  Workers,      \* requests that read now and write later
  Prices,       \* prices the console may set
  Deposit,      \* of a rental
  Stock,        \* garments of the variant
  MaxQty,       \* maxQuantityPerLine
  MaxLines,     \* lines of one bag
  TheCoupon,    \* the one coupon code
  TheMethod,    \* the delivery method
  ListPrice,    \* the prices to begin with
  MaxEdits,     \* bound: changes by the console and by other customers
  MaxMoves,     \* bound: requests that change the bag
  NoRow

LineRow == [owner : Customers, mode : Modes, qty : 1..MaxQty]

(* The lines of a bag or of an order, at their prices of that moment.      *)
BagLines == UNION {[modes -> [price : Prices, deposit : {0, Deposit}, qty : 1..MaxQty]] : modes \in SUBSET Modes}

Statuses == {"pending", "closed", "confirmed", "cancelled"}

OrderRow == [customer : Customers, key : Keys, status : Statuses, paid : BOOLEAN,
             items : BagLines, coupon : BOOLEAN, quote : QuoteRow,
             fingerprint : BagLines \X BOOLEAN \X Nat, source : SUBSET LineIds]

ReviewRow == [customer : Customers, amount : Nat \cup {NoRow}]

ASSUME CheckoutAssumption ==
  /\ Prices \subseteq Nat \ {0} /\ Deposit \in Nat /\ Stock \in Nat
  /\ MaxQty \in Nat \ {0} /\ MaxLines \in Nat \ {0} /\ MaxEdits \in Nat /\ MaxMoves \in Nat
  /\ ListPrice \in [Modes -> Prices]
  /\ TheCoupon \in Coupon /\ TheMethod \in Method
  /\ IsFiniteSet(Orders) /\ NoRow \notin LineRow \cup OrderRow \cup ReviewRow

VARIABLES
  price,        \* price[m]: Product.rentPricePaise, buyPricePaise
  published,    \* Product.isActive
  open,         \* the coupon is active and within its dates
  free,         \* garments nobody holds
  bag,          \* bag[l]: CartItem
  code,         \* customers whose cart has the coupon code
  order,        \* order[o]: Order with its items, or NoRow
  redeemed,     \* orders with a CouponRedemption
  job,          \* job[w]: what a request has read
  reviewed,     \* history: amount a customer reviewed before using a key, if any
  answers,      \* history: <<key, order>> the customer was sent to pay
  edits, moves

vars == <<price, published, open, free, bag, code, order, redeemed, job,
          reviewed, answers, edits, moves>>

shop == <<price, published, open, edits>>

Idle == [pc |-> "idle"]

Init ==
  /\ price = ListPrice
  /\ published = TRUE
  /\ open = TRUE
  /\ free = Stock
  /\ bag = [l \in LineIds |-> NoRow]
  /\ code = {}
  /\ order = [o \in Orders |-> NoRow]
  /\ redeemed = {}
  /\ job = [w \in Workers |-> Idle]
  /\ reviewed = [k \in Keys |-> NoRow]
  /\ answers = {}
  /\ edits = 0
  /\ moves = 0

Rows(c) == {l \in LineIds : bag[l] # NoRow /\ bag[l].owner = c}
RowOf(c, m) == {l \in Rows(c) : bag[l].mode = m}
Placed == {o \in Orders : order[o] # NoRow}
OrdersOf(c) == {o \in Placed : order[o].customer = c}

(* Mutant of Redemptions: every order with the coupon counts.              *)
RedemptionsOfOrders(c) == Cardinality({o \in OrdersOf(c) : order[o].coupon})

Redemptions(c) == Cardinality(redeemed \cap OrdersOf(c))

QtyOf(lines) == SumFunctionOnSet([m \in DOMAIN lines |-> lines[m].qty], DOMAIN lines)

-----------------------------------------------------------------------------
(* The bag.  A line is blocked when the product is gone or fewer garments  *)
(* are free than it asks for; blocked lines are not priced.                *)
Blocked(l) == ~published \/ free < bag[l].qty

PricedLines(c) ==
  LET ok == {l \in Rows(c) : ~Blocked(l)}
      lineOf(m) == CHOOSE l \in ok : bag[l].mode = m
  IN [m \in {bag[l].mode : l \in ok} |->
        [price |-> price[m], deposit |-> IF m = "rent" THEN Deposit ELSE 0,
         qty |-> bag[lineOf(m)].qty]]

CouponOk(c) == CouponApplies(TheCoupon, PricedLines(c), open, Cardinality(redeemed), Redemptions(c))

Evaluation(c) ==
  [lines |-> PricedLines(c),
   coupon |-> c \in code /\ CouponOk(c),
   quote |-> BagQuote(PricedLines(c), TheCoupon, c \in code /\ CouponOk(c), TheMethod)]

CanPlace(c) ==
  /\ Rows(c) # {}
  /\ \A l \in Rows(c) : ~Blocked(l)
  /\ c \in code => CouponOk(c)

Move == moves < MaxMoves /\ moves' = moves + 1

(* addCartItem and one line of mergeCartLines: the new quantity is worked  *)
(* out from the row as read.                                               *)
InBag(c, m) == IF RowOf(c, m) = {} THEN 0 ELSE bag[CHOOSE l \in RowOf(c, m) : TRUE].qty

RoomFor(c, m) == RowOf(c, m) # {} \/ Cardinality(Rows(c)) < MaxLines

AddRead(w, c, m, n) ==
  LET qty == InBag(c, m) + n IN
  /\ job[w] = Idle
  /\ published /\ RoomFor(c, m)
  /\ qty <= MaxQty /\ qty <= free
  /\ job' = [job EXCEPT ![w] = [pc |-> "put", customer |-> c, mode |-> m, qty |-> qty]]
  /\ Move
  /\ UNCHANGED <<shop, free, bag, code, order, redeemed, reviewed, answers>>

MergeRead(w, c, m, n) ==
  LET wanted == IF InBag(c, m) > n THEN InBag(c, m) ELSE n
      qty == Lesser(Lesser(wanted, MaxQty), free)
  IN /\ job[w] = Idle
     /\ published /\ RoomFor(c, m)
     /\ qty > 0
     /\ job' = [job EXCEPT ![w] = [pc |-> "put", customer |-> c, mode |-> m, qty |-> qty]]
     /\ Move
     /\ UNCHANGED <<shop, free, bag, code, order, redeemed, reviewed, answers>>

(* Mutant of NewQty: the database adds to the quantity.                    *)
NewQtyAdded(old, qty) == old + 1

(* The upsert by (cart, variant, size, mode) writes the quantity worked    *)
(* out before, whatever the row says now.                                  *)
NewQty(old, qty) == qty

Put(w) ==
  LET j == job[w]
      row(qty) == [owner |-> j.customer, mode |-> j.mode, qty |-> qty]
  IN /\ j.pc = "put"
     /\ IF RowOf(j.customer, j.mode) # {}
        THEN \E l \in RowOf(j.customer, j.mode) :
               bag' = [bag EXCEPT ![l] = row(NewQty(bag[l].qty, j.qty))]
        ELSE \E l \in LineIds :
               bag[l] = NoRow /\ bag' = [bag EXCEPT ![l] = row(NewQty(0, j.qty))]
     /\ job' = [job EXCEPT ![w] = Idle]
     /\ UNCHANGED <<shop, moves, free, code, order, redeemed, reviewed, answers>>

Update(l, qty) ==
  /\ bag[l] # NoRow
  /\ published /\ qty <= free
  /\ bag' = [bag EXCEPT ![l].qty = qty]
  /\ Move
  /\ UNCHANGED <<shop, free, code, order, redeemed, job, reviewed, answers>>

Remove(l) ==
  /\ bag[l] # NoRow
  /\ bag' = [bag EXCEPT ![l] = NoRow]
  /\ Move
  /\ UNCHANGED <<shop, free, code, order, redeemed, job, reviewed, answers>>

ApplyCoupon(c) ==
  /\ c \notin code
  /\ DOMAIN PricedLines(c) # {} /\ CouponOk(c)
  /\ code' = code \cup {c}
  /\ Move
  /\ UNCHANGED <<shop, free, bag, order, redeemed, job, reviewed, answers>>

RemoveCoupon(c) ==
  /\ c \in code
  /\ code' = code \ {c}
  /\ Move
  /\ UNCHANGED <<shop, free, bag, order, redeemed, job, reviewed, answers>>

-----------------------------------------------------------------------------
(* The review screen; the client draws a fresh key for what it shows.      *)
Review(c, k) ==
  /\ reviewed[k] = NoRow
  /\ CanPlace(c)
  /\ reviewed' = [reviewed EXCEPT ![k] = [customer |-> c, amount |-> Evaluation(c).quote.grand]]
  /\ UNCHANGED <<shop, moves, free, bag, code, order, redeemed, job, answers>>

(* legacyCheckout: an older shop submits under a key without an amount.    *)
LegacyCheckout(c, k) ==
  /\ reviewed[k] = NoRow
  /\ reviewed' = [reviewed EXCEPT ![k] = [customer |-> c, amount |-> NoRow]]
  /\ UNCHANGED <<shop, moves, free, bag, code, order, redeemed, job, answers>>

OrderOfKey(k) == {o \in Placed : order[o].key = k}

(* placeOrder: an order of this key is the answer; else the bag is priced. *)
BeginPlace(w, k) ==
  /\ job[w] = Idle
  /\ reviewed[k] # NoRow
  /\ IF OrderOfKey(k) # {}
     THEN answers' = answers \cup {<<k, o>> : o \in OrderOfKey(k)} /\ UNCHANGED job
     ELSE job' = [job EXCEPT ![w] = [pc |-> "price", key |-> k]] /\ UNCHANGED answers
  /\ UNCHANGED <<shop, moves, free, bag, code, order, redeemed, reviewed>>

(* Mutant of Agreed: the amount is not compared with the reviewed one.     *)
AgreedAlways(k, draft) == TRUE

(* Same lines, prices, coupon and total: the checkout fingerprint.  An     *)
(* unpaid order with the same one is the answer, unless less than a minute *)
(* of its hold is left, which may be the case at any time.                 *)
Fingerprint(draft) == <<draft.lines, draft.coupon, draft.quote.grand>>

Twins(c, draft) ==
  {o \in OrdersOf(c) : order[o].status = "pending" /\ order[o].fingerprint = Fingerprint(draft)}

Agreed(k, draft) == reviewed[k].amount \in {NoRow, draft.quote.grand}

Draft(w) ==
  LET k == job[w].key
      c == reviewed[k].customer
      draft == Evaluation(c)
      refused == ~CanPlace(c) \/ ~Agreed(k, draft)
      done == job' = [job EXCEPT ![w] = Idle]
  IN /\ job[w].pc = "price"
     /\ \/ refused /\ done /\ UNCHANGED answers
        \/ /\ ~refused
           /\ \E o \in Twins(c, draft) : answers' = answers \cup {<<k, o>>}
           /\ done
        \/ /\ ~refused
           /\ job' = [job EXCEPT ![w] = [pc |-> "create", key |-> k, draft |-> draft, source |-> Rows(c)]]
           /\ UNCHANGED answers
     /\ UNCHANGED <<shop, moves, free, bag, code, order, redeemed, reviewed>>

(* Mutant of ItemsOf: the items carry the product's price of the moment.   *)
ItemsRepriced(draft) == [m \in DOMAIN draft.lines |-> [draft.lines[m] EXCEPT !.price = price[m]]]

(* What the order's items say, from the draft.                             *)
ItemsOf(draft) == draft.lines

(* The transaction: supersede, allocate, insert.  The key is unique: the   *)
(* loser of two equal keys rolls back and answers with the winner.         *)
Create(w) ==
  LET k == job[w].key
      c == reviewed[k].customer
      draft == job[w].draft
      older == {o \in OrdersOf(c) : order[o].status = "pending"}
      regained == SumFunctionOnSet([o \in older |-> QtyOf(order[o].items)], older)
      need == QtyOf(draft.lines)
      row == [customer |-> c, key |-> k, status |-> "pending", paid |-> FALSE,
              items |-> ItemsOf(draft), coupon |-> draft.coupon, quote |-> draft.quote,
              fingerprint |-> Fingerprint(draft), source |-> job[w].source]
  IN /\ job[w].pc = "create"
     /\ job' = [job EXCEPT ![w] = Idle]
     /\ \/ /\ OrderOfKey(k) = {} /\ need <= free + regained
           /\ \E o \in Orders \ Placed :
                /\ order' = [p \in Orders |-> IF p = o THEN row
                                              ELSE IF p \in older THEN [order[p] EXCEPT !.status = "closed"]
                                              ELSE order[p]]
                /\ answers' = answers \cup {<<k, o>>}
           /\ free' = free + regained - need
        \/ /\ need > free + regained
           /\ UNCHANGED <<order, free, answers>>
        \/ /\ OrderOfKey(k) # {} /\ need <= free + regained
           /\ answers' = answers \cup {<<k, o>> : o \in OrderOfKey(k)}
           /\ UNCHANGED <<order, free>>
     /\ UNCHANGED <<shop, moves, bag, code, redeemed, reviewed>>

-----------------------------------------------------------------------------
(* confirmPaidOrder: the redemption is written, and the bag loses the lines*)
(* the order was made from and its coupon.                                 *)
Confirmed(o) ==
  /\ order' = [order EXCEPT ![o].status = "confirmed", ![o].paid = TRUE]
  /\ redeemed' = IF order[o].coupon THEN redeemed \cup {o} ELSE redeemed
  /\ bag' = [l \in LineIds |-> IF l \in order[o].source /\ l \in Rows(order[o].customer)
                               THEN NoRow ELSE bag[l]]
  /\ code' = IF order[o].coupon THEN code \ {order[o].customer} ELSE code

Pay(o) ==
  /\ o \in Placed /\ order[o].status = "pending"
  /\ Confirmed(o)
  /\ UNCHANGED <<shop, moves, free, job, reviewed, answers>>

(* A payment after the hold was given up takes the garments again, or is   *)
(* refunded.                                                               *)
PayLate(o) ==
  /\ o \in Placed /\ order[o].status = "closed"
  /\ QtyOf(order[o].items) <= free
  /\ Confirmed(o)
  /\ free' = free - QtyOf(order[o].items)
  /\ UNCHANGED <<shop, moves, job, reviewed, answers>>

CancelConfirmed(o) ==
  /\ o \in Placed /\ order[o].status = "confirmed"
  /\ order' = [order EXCEPT ![o].status = "cancelled"]
  /\ free' = free + QtyOf(order[o].items)
  /\ UNCHANGED <<shop, moves, bag, code, redeemed, job, reviewed, answers>>

(* Mutant of Close: the bag is emptied with the order.                     *)
CloseEmptying(o) ==
  /\ o \in Placed /\ order[o].status = "pending"
  /\ order' = [order EXCEPT ![o].status = "closed"]
  /\ free' = free + QtyOf(order[o].items)
  /\ bag' = [l \in LineIds |-> IF l \in order[o].source THEN NoRow ELSE bag[l]]
  /\ UNCHANGED <<shop, moves, code, redeemed, job, reviewed, answers>>

Close(o) ==
  /\ o \in Placed /\ order[o].status = "pending"
  /\ order' = [order EXCEPT ![o].status = "closed"]
  /\ free' = free + QtyOf(order[o].items)
  /\ UNCHANGED <<shop, moves, bag, code, redeemed, job, reviewed, answers>>

(* The console edits the product and the coupon; other customers take      *)
(* garments.                                                               *)
EditProduct ==
  /\ \/ \E m \in Modes, p \in Prices : price' = [price EXCEPT ![m] = p] /\ UNCHANGED published
     \/ published' = ~published /\ UNCHANGED price
  /\ UNCHANGED <<open, free>>

EditCoupon == open' = ~open /\ UNCHANGED <<price, published, free>>

OthersPlace == free > 0 /\ free' = free - 1 /\ UNCHANGED <<price, published, open>>

Edit ==
  /\ edits < MaxEdits /\ edits' = edits + 1
  /\ EditProduct \/ EditCoupon \/ OthersPlace
  /\ UNCHANGED <<moves, bag, code, order, redeemed, job, reviewed, answers>>

Next ==
  \/ \E c \in Customers :
       \/ \E w \in Workers, m \in Modes, n \in 1..MaxQty : AddRead(w, c, m, n) \/ MergeRead(w, c, m, n)
       \/ ApplyCoupon(c) \/ RemoveCoupon(c)
       \/ \E k \in Keys : Review(c, k) \/ LegacyCheckout(c, k)
  \/ \E l \in LineIds : Remove(l) \/ \E qty \in 1..MaxQty : Update(l, qty)
  \/ \E w \in Workers : Put(w) \/ Draft(w) \/ Create(w) \/ \E k \in Keys : BeginPlace(w, k)
  \/ \E o \in Orders : Pay(o) \/ PayLate(o) \/ Close(o) \/ CancelConfirmed(o)
  \/ Edit

Spec == Init /\ [][Next]_vars

-----------------------------------------------------------------------------
(* Every row has a shape its table allows, and however requests overlap, no*)
(* line grows past the limit (cart/service.ts, maxQuantityPerLine).        *)
TypeOK ==
  /\ price \in [Modes -> Prices] /\ published \in BOOLEAN /\ open \in BOOLEAN
  /\ free \in Nat
  /\ \A l \in LineIds : bag[l] # NoRow => bag[l] \in LineRow
  /\ \A l, n \in LineIds : /\ l # n /\ bag[l] # NoRow /\ bag[n] # NoRow
                           => <<bag[l].owner, bag[l].mode>> # <<bag[n].owner, bag[n].mode>>
  /\ code \subseteq Customers /\ redeemed \subseteq Placed
  /\ \A o \in Placed : order[o] \in OrderRow
  /\ answers \subseteq Keys \X Placed

(* The customer is never sent to pay another amount than the one reviewed, *)
(* nor the order of somebody whose checkout looks the same (a key belongs  *)
(* to one customer): by a retry of the key, by a second submit that finds  *)
(* the first one's order, or after a price, a coupon or the stock changed  *)
(* (placement.ts: expectedTotalPaise, fingerprintOf).                      *)
ChargedAsReviewed ==
  \A a \in answers : /\ order[a[2]].customer = reviewed[a[1]].customer
                     /\ reviewed[a[1]].amount \in {NoRow, order[a[2]].quote.grand}

(* The amount of an order is that of its own items at their own prices: the*)
(* discount is the fairest the coupon allows, and deposits and delivery are*)
(* owed in full (placement.ts, pricing/quote.ts, coupons/evaluate.ts).     *)
OrderAddsUp ==
  \A o \in Placed :
    LET items == order[o].items
        off == IF order[o].coupon THEN FairDiscount(TheCoupon, items) ELSE 0
        goods == GoodsTotal(items) - off
    IN order[o].quote.grand = goods + DeliveryFee(TheMethod, goods) + DepositTotal(items)

(* An order that is made, superseded, lapses or is cancelled leaves the bag*)
(* and its coupon alone; only a payment empties it (placement.ts: "does NOT*)
(* touch the cart").                                                       *)
BagKeptUntilPaid ==
  [][\A o \in Orders : order'[o] # order[o] /\ order'[o].status # "confirmed"
                       => bag' = bag /\ code' = code]_vars

(* Whoever has paid nothing with the coupon may still use it, however many *)
(* checkouts they abandoned (coupons/evaluate.ts).                         *)
AbandonedKeepsCoupon ==
  \A c \in Customers :
    (\A o \in OrdersOf(c) : order[o].coupon => ~order[o].paid) => Redemptions(c) = 0
=============================================================================
