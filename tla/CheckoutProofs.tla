--------------------------- MODULE CheckoutProofs ---------------------------
(***************************************************************************)
(* From the bag to the amount charged, for any number of customers, bags,  *)
(* devices, keys and orders, any prices, coupon and delivery method.       *)
(*                                                                         *)
(* The argument: a placement that reads the bag and writes the order later *)
(* carries in its draft all the order will be, agreed with the amount      *)
(* reviewed under its key, and a key is reviewed once; so an order is what *)
(* was reviewed under the key it was made with, and a second key is sent to*)
(* it only if the fingerprint, amount included, is that of its own draft.  *)
(* An order keeps its items, quote and fingerprint, and a redemption is    *)
(* written with a payment and never taken back.                            *)
(***************************************************************************)
EXTENDS Checkout, SumTheorems

-----------------------------------------------------------------------------
(* The arithmetic of a bag.                                                *)

LEMMA Settings ==
  /\ Prices \subseteq Nat /\ Deposit \in Nat /\ Stock \in Nat /\ MaxQty \in Nat
  /\ ListPrice \in [Modes -> Prices]
  /\ TheCoupon.value \in Nat /\ TheCoupon.cap \in Nat /\ TheCoupon.scope \in Modes \cup {"any"}
  /\ TheCoupon.kind \in {"percent", "flat"}
  /\ TheMethod.fee \in Nat /\ TheMethod.freeFrom \in Nat
  /\ IsFiniteSet(Orders)
  /\ NoRow \notin LineRow /\ NoRow \notin OrderRow /\ NoRow \notin ReviewRow
<1>1. TheCoupon \in Coupon /\ TheMethod \in Method
  BY CheckoutAssumption
<1>2. /\ TheCoupon.value \in Nat /\ TheCoupon.cap \in Nat /\ TheCoupon.scope \in Modes \cup {"any"}
      /\ TheCoupon.kind \in {"percent", "flat"}
  BY <1>1 DEF Coupon
<1>3. TheMethod.fee \in Nat /\ TheMethod.freeFrom \in Nat
  BY <1>1 DEF Method
<1>. QED
  BY <1>2, <1>3, CheckoutAssumption

LEMMA BagLinesAre ==
  ASSUME NEW lines \in BagLines
  PROVE  /\ DOMAIN lines \subseteq Modes
         /\ \A m \in DOMAIN lines : /\ lines[m].price \in Prices /\ lines[m].price \in Nat
                                    /\ lines[m].deposit \in {0, Deposit} /\ lines[m].deposit \in Nat
                                    /\ lines[m].qty \in 1..MaxQty /\ lines[m].qty \in Nat
<1>1. PICK modes \in SUBSET Modes : lines \in [modes -> [price : Prices, deposit : {0, Deposit}, qty : 1..MaxQty]]
  BY DEF BagLines
<1>2. \A m \in DOMAIN lines : /\ lines[m].price \in Prices /\ lines[m].deposit \in {0, Deposit}
                              /\ lines[m].qty \in 1..MaxQty
  BY <1>1
<1>3. \A p \in Prices : p \in Nat
  BY Settings
<1>4. \A d \in {0, Deposit} : d \in Nat
  BY Settings
<1>5. \A n \in 1..MaxQty : n \in Nat
  BY Settings
<1>6. DOMAIN lines \subseteq Modes
  BY <1>1
<1>. QED
  BY <1>2, <1>3, <1>4, <1>5, <1>6

LEMMA BagLinesFrom ==
  ASSUME NEW modes \in SUBSET Modes, NEW lines,
         lines \in [modes -> [price : Prices, deposit : {0, Deposit}, qty : 1..MaxQty]]
  PROVE  lines \in BagLines
BY DEF BagLines

LEMMA QuantityIsNat ==
  ASSUME NEW lines \in BagLines
  PROVE  QtyOf(lines) \in Nat
<1>1. PICK f : f = [m \in DOMAIN lines |-> lines[m].qty]
  OBVIOUS
<1>2. IsFiniteSet(Modes)
  <2>1. Modes = {"rent"} \cup {"buy"}
    BY DEF Modes
  <2>. QED
    BY <2>1, FS_Singleton, FS_Union
<1>3. IsFiniteSet(DOMAIN lines)
  BY <1>2, BagLinesAre, FS_Subset
<1>4. \A m \in DOMAIN lines : f[m] \in Nat
  BY <1>1, BagLinesAre
<1>5. SumOver(f, DOMAIN lines) \in Nat
  BY <1>3, <1>4, SumIsNat
<1>. QED
  BY <1>1, <1>5 DEF QtyOf, SumOver

LEMMA ProductIsNat ==
  ASSUME NEW a \in Nat, NEW b \in Nat
  PROVE  a * b \in Nat
OBVIOUS

LEMMA Totals ==
  ASSUME NEW lines \in BagLines
  PROVE  /\ \A m \in Modes : Subtotal(lines, m) \in Nat
         /\ GoodsTotal(lines) \in Nat /\ DepositTotal(lines) \in Nat
         /\ Eligible(TheCoupon, lines) \in Nat /\ Eligible(TheCoupon, lines) <= GoodsTotal(lines)
<1>1. \A m \in DOMAIN lines : lines[m].price * lines[m].qty \in Nat /\ lines[m].deposit * lines[m].qty \in Nat
  BY BagLinesAre, ProductIsNat
<1>2. \A m \in Modes : Subtotal(lines, m) \in Nat
  BY <1>1 DEF Subtotal
<1>3. DepositTotal(lines) \in Nat
  BY <1>1 DEF DepositTotal
<1>4. /\ GoodsTotal(lines) \in Nat
      /\ \A m \in Modes : Subtotal(lines, m) <= GoodsTotal(lines)
  BY <1>2 DEF GoodsTotal, Modes
<1>5. /\ Eligible(TheCoupon, lines) \in Nat
      /\ Eligible(TheCoupon, lines) <= GoodsTotal(lines)
  BY <1>2, <1>4, Settings DEF Eligible
<1>. QED
  BY <1>2, <1>3, <1>4, <1>5

LEMMA Percent ==
  ASSUME NEW n \in Nat
  PROVE  /\ n \div 100 \in Nat
         /\ \A d \in Nat : d * 100 <= n <=> d <= n \div 100
OBVIOUS

(* The discount worked out is the fairest one.                             *)
LEMMA DiscountIsFair ==
  ASSUME NEW lines \in BagLines
  PROVE  /\ CouponDiscount(TheCoupon, lines) \in Nat
         /\ CouponDiscount(TheCoupon, lines) <= Eligible(TheCoupon, lines)
         /\ CouponDiscount(TheCoupon, lines) = FairDiscount(TheCoupon, lines)
<1>1. PICK e \in Nat, v \in Nat, cap \in Nat :
        e = Eligible(TheCoupon, lines) /\ v = TheCoupon.value /\ cap = TheCoupon.cap
  BY Totals, Settings
<1>2. e * v \in Nat
  BY ProductIsNat
<1>3. PICK face \in Nat : /\ face = FaceValue(TheCoupon, e)
                          /\ \A d \in Nat : d <= face <=> IF TheCoupon.kind = "percent"
                                                          THEN d * 100 <= e * v
                                                          ELSE d <= v
  <2>1. CASE TheCoupon.kind = "percent"
    <3>1. /\ (e * v) \div 100 \in Nat
          /\ \A d \in Nat : d * 100 <= e * v <=> d <= (e * v) \div 100
      BY <1>2, Percent
    <3>. QED
      BY <1>1, <2>1, <3>1 DEF FaceValue
  <2>2. CASE TheCoupon.kind # "percent"
    BY <1>1, <2>2 DEF FaceValue
  <2>. QED
    BY <2>1, <2>2
<1>4. PICK best \in Nat : best = Lesser(Lesser(face, cap), e)
  BY DEF Lesser
<1>5. CouponDiscount(TheCoupon, lines) = best
  BY <1>1, <1>3, <1>4 DEF CouponDiscount
<1>6. best <= e /\ best <= cap /\ best <= face
  BY <1>4 DEF Lesser
<1>7. \A d \in Nat : d <= e /\ d <= cap /\ d <= face => d <= best
  BY <1>4 DEF Lesser
<1>8. \A d : d \in Allowed(TheCoupon, lines) <=> d \in Nat /\ d <= e /\ d <= cap /\ d <= face
  BY <1>1, <1>3 DEF Allowed
<1>9. PICK allowed : allowed = Allowed(TheCoupon, lines)
  OBVIOUS
<1>10. best \in allowed /\ \A d \in allowed : d \in Nat /\ best >= d
  BY <1>6, <1>7, <1>8, <1>9
<1>11. Max(allowed) = best
  <2>1. \A d \in allowed : (\A y \in allowed : d >= y) => d = best
    BY <1>10
  <2>. QED
    BY <1>10, <2>1 DEF Max
<1>. QED
  BY <1>1, <1>5, <1>6, <1>9, <1>11 DEF FairDiscount

(* What the quote of a bag is made of.                                     *)
LEMMA QuoteAddsUp ==
  ASSUME NEW lines \in BagLines, NEW applied \in BOOLEAN
  PROVE  /\ BagQuote(lines, TheCoupon, applied, TheMethod) \in QuoteRow
         /\ LET off == IF applied THEN FairDiscount(TheCoupon, lines) ELSE 0
                goods == GoodsTotal(lines) - off
            IN BagQuote(lines, TheCoupon, applied, TheMethod).grand
                 = goods + DeliveryFee(TheMethod, goods) + DepositTotal(lines)
<1>1. PICK total \in Nat, deposits \in Nat, off \in Nat :
        /\ total = GoodsTotal(lines) /\ deposits = DepositTotal(lines) /\ off <= total
        /\ off = IF applied THEN CouponDiscount(TheCoupon, lines) ELSE 0
        /\ off = IF applied THEN FairDiscount(TheCoupon, lines) ELSE 0
  <2>1. /\ CouponDiscount(TheCoupon, lines) = FairDiscount(TheCoupon, lines)
        /\ CouponDiscount(TheCoupon, lines) \in Nat
        /\ CouponDiscount(TheCoupon, lines) <= GoodsTotal(lines)
    BY Totals, DiscountIsFair
  <2>. QED
    BY <2>1, Totals
<1>2. Lesser(off, total) = off
  BY <1>1 DEF Lesser
<1>3. PICK goods \in Nat : goods = total - off
  BY <1>1
<1>4. PICK fee \in Nat : fee = DeliveryFee(TheMethod, goods)
  BY Settings DEF DeliveryFee
<1>5. Quote(lines, off, 0).discount = off /\ Quote(lines, off, 0).subtotal = total
  BY <1>1, <1>2 DEF Quote
<1>6. BagQuote(lines, TheCoupon, applied, TheMethod) = Quote(lines, off, fee)
  BY <1>1, <1>3, <1>4, <1>5 DEF BagQuote
<1>7. Quote(lines, off, fee) = [subtotal |-> total, discount |-> off, fee |-> fee,
                                deposits |-> deposits, grand |-> total - off + fee + deposits]
  BY <1>1, <1>2 DEF Quote
<1>8. total - off + fee + deposits \in Nat /\ total - off + fee + deposits = goods + fee + deposits
  BY <1>1, <1>3
<1>9. Quote(lines, off, fee) \in QuoteRow
  BY <1>7, <1>8 DEF QuoteRow
<1>. QED
  BY <1>1, <1>3, <1>4, <1>6, <1>7, <1>8, <1>9

-----------------------------------------------------------------------------
(* The inductive invariant.                                                *)

DraftRow == [lines : BagLines, coupon : BOOLEAN, quote : QuoteRow]

PutJob == [pc : {"put"}, customer : Customers, mode : Modes, qty : 1..MaxQty]
PriceJob == [pc : {"price"}, key : Keys]
CreateJob == [pc : {"create"}, key : Keys, draft : DraftRow, source : SUBSET LineIds]
AnyJob == {Idle} \cup PutJob \cup PriceJob \cup CreateJob

Fair(lines, coupon, quote) == quote = BagQuote(lines, TheCoupon, coupon, TheMethod)

(* The amount is the one this customer reviewed before using the key.      *)
Matches(k, c, amount) ==
  reviewed[k] # NoRow /\ reviewed[k].customer = c /\ reviewed[k].amount \in {NoRow, amount}

ShopInv ==
  /\ price \in [Modes -> Prices] /\ published \in BOOLEAN /\ open \in BOOLEAN
  /\ free \in Nat /\ code \subseteq Customers

BagInv ==
  /\ bag \in [LineIds -> LineRow \cup {NoRow}]
  /\ \A l, n \in LineIds : /\ l # n /\ bag[l] # NoRow /\ bag[n] # NoRow
                           => <<bag[l].owner, bag[l].mode>> # <<bag[n].owner, bag[n].mode>>

(* A request that prices a bag or inserts an order has a key that was used, *)
(* and its draft is the one it compared with the reviewed amount.          *)
JobsInv ==
  /\ job \in [Workers -> AnyJob]
  /\ \A w \in Workers :
       /\ job[w] \in PriceJob => reviewed[job[w].key] # NoRow
       /\ job[w] \in CreateJob =>
            /\ Fair(job[w].draft.lines, job[w].draft.coupon, job[w].draft.quote)
            /\ Matches(job[w].key, reviewed[job[w].key].customer, job[w].draft.quote.grand)

(* An order is what its draft was, under the key it was submitted with.    *)
OrdersInv ==
  /\ order \in [Orders -> OrderRow \cup {NoRow}]
  /\ \A o \in Placed :
       /\ Fair(order[o].items, order[o].coupon, order[o].quote)
       /\ order[o].fingerprint = <<order[o].items, order[o].coupon, order[o].quote.grand>>
       /\ Matches(order[o].key, order[o].customer, order[o].quote.grand)
  /\ redeemed \subseteq Placed
  /\ \A o \in redeemed : order[o].coupon /\ order[o].paid

AnswersInv ==
  /\ answers \subseteq Keys \X Placed
  /\ \A a \in answers : Matches(a[1], order[a[2]].customer, order[a[2]].quote.grand)

CheckoutInv ==
  /\ ShopInv /\ BagInv /\ JobsInv /\ OrdersInv /\ AnswersInv
  /\ reviewed \in [Keys -> ReviewRow \cup {NoRow}]

-----------------------------------------------------------------------------
(* The rows of the tables.                                                 *)

LEMMA OrderIs ==
  ASSUME NEW row \in OrderRow
  PROVE  /\ row.customer \in Customers /\ row.key \in Keys /\ row.status \in Statuses
         /\ row.paid \in BOOLEAN /\ row.coupon \in BOOLEAN
         /\ row.items \in BagLines /\ row.quote \in QuoteRow /\ row.source \subseteq LineIds
         /\ row # NoRow
BY Settings DEF OrderRow

LEMMA OrderMoves ==
  ASSUME NEW row \in OrderRow, NEW s \in Statuses, NEW next, next = [row EXCEPT !.status = s]
  PROVE  /\ next \in OrderRow /\ next # NoRow
         /\ next.customer = row.customer /\ next.key = row.key /\ next.items = row.items
         /\ next.coupon = row.coupon /\ next.quote = row.quote /\ next.paid = row.paid
         /\ next.fingerprint = row.fingerprint /\ next.status = s
<1>1. next \in OrderRow
  BY DEF OrderRow
<1>2. /\ next.customer = row.customer /\ next.key = row.key /\ next.items = row.items
      /\ next.coupon = row.coupon /\ next.quote = row.quote /\ next.paid = row.paid
      /\ next.fingerprint = row.fingerprint /\ next.status = s
  BY DEF OrderRow
<1>. QED
  BY <1>1, <1>2, OrderIs

LEMMA OrderPays ==
  ASSUME NEW row \in OrderRow, NEW next, next = [row EXCEPT !.status = "confirmed", !.paid = TRUE]
  PROVE  /\ next \in OrderRow /\ next # NoRow
         /\ next.customer = row.customer /\ next.key = row.key /\ next.items = row.items
         /\ next.coupon = row.coupon /\ next.quote = row.quote /\ next.paid = TRUE
         /\ next.fingerprint = row.fingerprint /\ next.status = "confirmed"
<1>1. next \in OrderRow
  BY DEF OrderRow, Statuses
<1>2. /\ next.customer = row.customer /\ next.key = row.key /\ next.items = row.items
      /\ next.coupon = row.coupon /\ next.quote = row.quote /\ next.paid = TRUE
      /\ next.fingerprint = row.fingerprint /\ next.status = "confirmed"
  BY DEF OrderRow
<1>. QED
  BY <1>1, <1>2, OrderIs

LEMMA JobIs ==
  ASSUME NEW j \in AnyJob
  PROVE  /\ j = Idle => j \notin PriceJob /\ j \notin CreateJob
         /\ j \in PutJob => j \notin PriceJob /\ j \notin CreateJob
         /\ j.pc = "put" => j \in PutJob
         /\ j.pc = "price" => j \in PriceJob
         /\ j.pc = "create" => j \in CreateJob
         /\ j \in PutJob => j.customer \in Customers /\ j.mode \in Modes /\ j.qty \in 1..MaxQty
         /\ j \in PriceJob => j.key \in Keys /\ j \notin CreateJob
         /\ j \in CreateJob => /\ j.key \in Keys /\ j.source \subseteq LineIds /\ j \notin PriceJob
                               /\ j.draft.lines \in BagLines /\ j.draft.coupon \in BOOLEAN
                               /\ j.draft.quote \in QuoteRow
<1>1. Idle.pc = "idle"
  BY DEF Idle
<1>2. j \in PutJob => j.pc = "put" /\ j.customer \in Customers /\ j.mode \in Modes /\ j.qty \in 1..MaxQty
  BY DEF PutJob
<1>3. j \in PriceJob => j.pc = "price" /\ j.key \in Keys
  BY DEF PriceJob
<1>4. j \in CreateJob => j.pc = "create" /\ j.key \in Keys /\ j.source \subseteq LineIds /\ j.draft \in DraftRow
  BY DEF CreateJob
<1>5. j.draft \in DraftRow => /\ j.draft.lines \in BagLines /\ j.draft.coupon \in BOOLEAN
                              /\ j.draft.quote \in QuoteRow
  BY DEF DraftRow
<1>. QED
  BY <1>1, <1>2, <1>3, <1>4, <1>5 DEF AnyJob

LEMMA QuoteIs ==
  ASSUME NEW q \in QuoteRow
  PROVE  q.grand \in Nat
BY DEF QuoteRow

-----------------------------------------------------------------------------
(* What a request reads.                                                   *)

LEMMA LineIs ==
  ASSUME BagInv, NEW l \in LineIds, bag[l] # NoRow
  PROVE  /\ bag[l] \in LineRow
         /\ bag[l].owner \in Customers /\ bag[l].mode \in Modes /\ bag[l].qty \in 1..MaxQty
<1>1. bag[l] \in LineRow
  BY DEF BagInv
<1>. QED
  BY <1>1 DEF LineRow

LEMMA BagIsPriced ==
  ASSUME CheckoutInv, NEW c \in Customers
  PROVE  /\ PricedLines(c) \in BagLines
         /\ Evaluation(c) \in DraftRow
         /\ Fair(Evaluation(c).lines, Evaluation(c).coupon, Evaluation(c).quote)
         /\ Evaluation(c).lines \in BagLines /\ Evaluation(c).coupon \in BOOLEAN
         /\ Evaluation(c).quote \in QuoteRow /\ Evaluation(c).quote.grand \in Nat
<1>. DEFINE ok == {l \in Rows(c) : ~Blocked(l)}
            lineOf(m) == CHOOSE l \in ok : bag[l].mode = m
            modes == {bag[l].mode : l \in ok}
<1>1. BagInv /\ ShopInv
  BY DEF CheckoutInv
<1>2. \A l \in ok : l \in LineIds /\ bag[l] # NoRow
  BY DEF Rows
<1>3. modes \subseteq Modes
  BY <1>1, <1>2, LineIs
<1>4. \A m \in modes : lineOf(m) \in ok
  OBVIOUS
<1>5. \A m \in modes : bag[lineOf(m)].qty \in 1..MaxQty
  BY <1>1, <1>2, <1>4, LineIs
<1>6. \A m \in modes : price[m] \in Prices
  BY <1>1, <1>3 DEF ShopInv
<1>7. PricedLines(c) = [m \in modes |-> [price |-> price[m], deposit |-> IF m = "rent" THEN Deposit ELSE 0,
                                        qty |-> bag[lineOf(m)].qty]]
  BY DEF PricedLines
<1>8. PricedLines(c) \in [modes -> [price : Prices, deposit : {0, Deposit}, qty : 1..MaxQty]]
  <2>. HIDE DEF modes, lineOf
  <2>. QED
    BY <1>5, <1>6, <1>7
<1>9. PricedLines(c) \in BagLines
  <2>. HIDE DEF modes
  <2>. QED
    BY <1>3, <1>8, BagLinesFrom
<1>10. PICK lines : lines = PricedLines(c)
  OBVIOUS
<1>11. PICK applied \in BOOLEAN : applied = (c \in code /\ CouponOk(c))
  OBVIOUS
<1>12. Evaluation(c) = [lines |-> lines, coupon |-> applied, quote |-> BagQuote(lines, TheCoupon, applied, TheMethod)]
  BY <1>10, <1>11 DEF Evaluation
<1>13. BagQuote(lines, TheCoupon, applied, TheMethod) \in QuoteRow
  BY <1>9, <1>10, <1>11, QuoteAddsUp
<1>14. Evaluation(c) \in DraftRow
  BY <1>9, <1>10, <1>11, <1>12, <1>13 DEF DraftRow
<1>15. /\ Evaluation(c).lines = lines /\ Evaluation(c).coupon = applied
       /\ Evaluation(c).quote = BagQuote(lines, TheCoupon, applied, TheMethod)
  BY <1>12
<1>. QED
  BY <1>9, <1>10, <1>11, <1>13, <1>14, <1>15, QuoteIs DEF Fair

-----------------------------------------------------------------------------
(* What a step leaves of the jobs, the orders and the answers.             *)

(* A key keeps what was reviewed under it.                                 *)
KeysKeep == \A k \in Keys : reviewed[k] # NoRow => reviewed'[k] = reviewed[k]

(* A job a request may take up in this step.                               *)
NewJob(j) ==
  /\ j \in AnyJob
  /\ j \in PriceJob => reviewed'[j.key] # NoRow
  /\ j \in CreateJob => /\ Fair(j.draft.lines, j.draft.coupon, j.draft.quote)
                        /\ Matches(j.key, reviewed[j.key].customer, j.draft.quote.grand)

LEMMA JobsKeep ==
  ASSUME CheckoutInv, KeysKeep,
         job' = job \/ \E w \in Workers, j \in AnyJob : NewJob(j) /\ job' = [job EXCEPT ![w] = j]
  PROVE  JobsInv'
<1>1. JobsInv
  BY DEF CheckoutInv
<1>2. job' \in [Workers -> AnyJob]
  BY <1>1 DEF JobsInv
<1>3. ASSUME NEW v \in Workers
      PROVE  job'[v] = job[v] \/ NewJob(job'[v])
  BY <1>1 DEF JobsInv
<1>4. ASSUME NEW v \in Workers, job'[v] \in PriceJob
      PROVE  reviewed'[job'[v].key] # NoRow
  <2>1. CASE NewJob(job'[v])
    BY <1>4, <2>1 DEF NewJob
  <2>2. CASE job'[v] = job[v]
    <3>1. reviewed[job[v].key] # NoRow /\ job[v].key \in Keys
      BY <1>1, <1>4, <2>2, JobIs DEF JobsInv
    <3>. QED
      BY <2>2, <3>1 DEF KeysKeep
  <2>. QED
    BY <1>3, <2>1, <2>2
<1>5. ASSUME NEW i \in CreateJob, Matches(i.key, reviewed[i.key].customer, i.draft.quote.grand)
      PROVE  /\ reviewed'[i.key] # NoRow
             /\ reviewed'[i.key].amount \in {NoRow, i.draft.quote.grand}
  <2>1. i.key \in Keys
    BY JobIs DEF AnyJob
  <2>. QED
    BY <1>5, <2>1 DEF Matches, KeysKeep
<1>6. ASSUME NEW v \in Workers, job'[v] \in CreateJob
      PROVE  /\ Fair(job'[v].draft.lines, job'[v].draft.coupon, job'[v].draft.quote)
             /\ reviewed'[job'[v].key] # NoRow
             /\ reviewed'[job'[v].key].amount \in {NoRow, job'[v].draft.quote.grand}
  <2>1. CASE NewJob(job'[v])
    BY <1>5, <1>6, <2>1 DEF NewJob
  <2>2. CASE job'[v] = job[v]
    <3>1. /\ Fair(job[v].draft.lines, job[v].draft.coupon, job[v].draft.quote)
          /\ Matches(job[v].key, reviewed[job[v].key].customer, job[v].draft.quote.grand)
      BY <1>1, <1>6, <2>2 DEF JobsInv
    <3>. QED
      BY <1>5, <1>6, <2>2, <3>1
  <2>. QED
    BY <1>3, <2>1, <2>2
<1>. QED
  BY <1>2, <1>4, <1>6 DEF JobsInv, Matches, Fair

(* The order keeps all but its status, and once paid it stays paid.        *)
Kept(o) ==
  /\ order'[o] # NoRow
  /\ order'[o].customer = order[o].customer /\ order'[o].key = order[o].key
  /\ order'[o].items = order[o].items /\ order'[o].coupon = order[o].coupon
  /\ order'[o].quote = order[o].quote /\ order'[o].fingerprint = order[o].fingerprint
  /\ order[o].paid => order'[o].paid

(* What OrdersInv says of each order, of the next state.                   *)
GoodNext(o) ==
  /\ Fair(order'[o].items, order'[o].coupon, order'[o].quote)
  /\ order'[o].fingerprint = <<order'[o].items, order'[o].coupon, order'[o].quote.grand>>
  /\ reviewed'[order'[o].key] # NoRow
  /\ reviewed'[order'[o].key].customer = order'[o].customer
  /\ reviewed'[order'[o].key].amount \in {NoRow, order'[o].quote.grand}

Answered(a) ==
  /\ a[1] \in Keys /\ a[2] \in Orders /\ order'[a[2]] # NoRow
  /\ reviewed'[a[1]] # NoRow
  /\ reviewed'[a[1]].customer = order'[a[2]].customer
  /\ reviewed'[a[1]].amount \in {NoRow, order'[a[2]].quote.grand}

LEMMA KeptIsGood ==
  ASSUME CheckoutInv, KeysKeep, NEW o \in Placed, Kept(o)
  PROVE  GoodNext(o)
<1>1. order[o] \in OrderRow
  BY DEF CheckoutInv, OrdersInv, Placed
<1>2. order[o].key \in Keys
  BY <1>1, OrderIs
<1>3. /\ Fair(order[o].items, order[o].coupon, order[o].quote)
      /\ order[o].fingerprint = <<order[o].items, order[o].coupon, order[o].quote.grand>>
      /\ Matches(order[o].key, order[o].customer, order[o].quote.grand)
  BY DEF CheckoutInv, OrdersInv
<1>. QED
  BY <1>2, <1>3 DEF Kept, GoodNext, Matches, KeysKeep

LEMMA OrdersKeep ==
  ASSUME CheckoutInv, KeysKeep,
         order' \in [Orders -> OrderRow \cup {NoRow}],
         \A o \in Orders : order'[o] # NoRow => GoodNext(o),
         \A o \in Placed : Kept(o),
         redeemed' \subseteq Orders,
         \A o \in redeemed' : o \in redeemed \/ (order'[o] # NoRow /\ order'[o].coupon /\ order'[o].paid)
  PROVE  OrdersInv'
<1>1. Placed' = {o \in Orders : order'[o] # NoRow}
  BY DEF Placed
<1>2. OrdersInv
  BY DEF CheckoutInv
<1>3. \A o \in redeemed' : order'[o] # NoRow /\ order'[o].coupon /\ order'[o].paid
  <2>1. \A o \in redeemed : o \in Placed /\ order[o].coupon /\ order[o].paid
    BY <1>2 DEF OrdersInv
  <2>. QED
    BY <2>1 DEF Kept
<1>. QED
  BY <1>1, <1>3 DEF OrdersInv, GoodNext, Matches, Fair

LEMMA AnswersKeep ==
  ASSUME CheckoutInv, KeysKeep, \A o \in Placed : Kept(o),
         \A a \in answers' : a \in answers \/ (a = <<a[1], a[2]>> /\ Answered(a))
  PROVE  AnswersInv'
<1>1. Placed' = {o \in Orders : order'[o] # NoRow}
  BY DEF Placed
<1>2. AnswersInv
  BY DEF CheckoutInv
<1>3. ASSUME NEW a \in answers
      PROVE  a = <<a[1], a[2]>> /\ Answered(a)
  <2>1. a = <<a[1], a[2]>> /\ a[1] \in Keys /\ a[2] \in Placed
    BY <1>2 DEF AnswersInv
  <2>2. Matches(a[1], order[a[2]].customer, order[a[2]].quote.grand)
    BY <1>2 DEF AnswersInv
  <2>3. a[2] \in Orders /\ Kept(a[2])
    BY <2>1 DEF Placed
  <2>. QED
    BY <2>1, <2>2, <2>3 DEF Kept, KeysKeep, Matches, Answered
<1>4. \A a \in answers' : a = <<a[1], a[2]>> /\ Answered(a)
  BY <1>3
<1>5. answers' \subseteq Keys \X Placed'
  BY <1>1, <1>4 DEF Answered
<1>. QED
  BY <1>4, <1>5 DEF AnswersInv, Answered, Matches

LEMMA Unmoved ==
  ASSUME CheckoutInv, UNCHANGED order
  PROVE  /\ order' \in [Orders -> OrderRow \cup {NoRow}]
         /\ \A o \in Placed : Kept(o)
         /\ Placed' = Placed
BY DEF CheckoutInv, OrdersInv, Kept, Placed

(* A step that leaves the orders alone and reviews no used key again.      *)
LEMMA OrdersQuiet ==
  ASSUME CheckoutInv, KeysKeep, UNCHANGED <<order, redeemed>>
  PROVE  OrdersInv'
<1>1. /\ order' \in [Orders -> OrderRow \cup {NoRow}]
      /\ \A o \in Placed : Kept(o)
  BY Unmoved
<1>2. \A o \in Orders : order'[o] # NoRow => GoodNext(o)
  BY <1>1, KeptIsGood DEF Placed
<1>3. redeemed \subseteq Orders
  BY DEF CheckoutInv, OrdersInv, Placed
<1>. QED
  BY <1>1, <1>2, <1>3, OrdersKeep

-----------------------------------------------------------------------------
(* The steps of the bag.                                                   *)

LEMMA PutIs ==
  ASSUME NEW c \in Customers, NEW m \in Modes, NEW n \in 1..MaxQty, NEW j,
         j = [pc |-> "put", customer |-> c, mode |-> m, qty |-> n]
  PROVE  j \in PutJob
BY DEF PutJob

LEMMA LineFrom ==
  ASSUME NEW c \in Customers, NEW m \in Modes, NEW n \in 1..MaxQty, NEW row,
         row = [owner |-> c, mode |-> m, qty |-> n]
  PROVE  row \in LineRow /\ row # NoRow /\ row.owner = c /\ row.mode = m
BY Settings DEF LineRow

(* Nothing changes but the bag, the shop, the coupon in the cart and jobs  *)
(* that write to the bag.                                                  *)
LEMMA BagStep ==
  ASSUME CheckoutInv, ShopInv', BagInv', UNCHANGED <<order, redeemed, reviewed, answers>>,
         job' = job \/ \E w \in Workers, j \in {Idle} \cup PutJob : job' = [job EXCEPT ![w] = j]
  PROVE  CheckoutInv'
<1>1. KeysKeep
  BY DEF KeysKeep
<1>2. \A j \in {Idle} \cup PutJob : j \in AnyJob /\ NewJob(j)
  <2>1. \A j \in {Idle} \cup PutJob : j \in AnyJob
    BY DEF AnyJob
  <2>2. \A j \in {Idle} \cup PutJob : j \notin PriceJob /\ j \notin CreateJob
    BY <2>1, JobIs
  <2>. QED
    BY <2>1, <2>2 DEF NewJob
<1>3. JobsInv'
  BY <1>1, <1>2, JobsKeep
<1>4. OrdersInv'
  BY <1>1, OrdersQuiet
<1>5. AnswersInv'
  BY <1>1, Unmoved, AnswersKeep
<1>6. reviewed' \in [Keys -> ReviewRow \cup {NoRow}]
  BY DEF CheckoutInv
<1>. QED
  BY <1>3, <1>4, <1>5, <1>6 DEF CheckoutInv

LEMMA BagQuiet ==
  ASSUME CheckoutInv
  PROVE  /\ UNCHANGED bag => BagInv'
         /\ UNCHANGED <<shop, free, code>> => ShopInv'
BY DEF CheckoutInv, BagInv, ShopInv, shop

LEMMA InBagIs ==
  ASSUME BagInv, NEW c \in Customers, NEW m \in Modes
  PROVE  InBag(c, m) \in Nat /\ InBag(c, m) <= MaxQty
<1>1. CASE RowOf(c, m) = {}
  BY <1>1, Settings DEF InBag
<1>2. CASE RowOf(c, m) # {}
  <2>1. PICK l \in RowOf(c, m) : InBag(c, m) = bag[l].qty
    <3>1. (CHOOSE l \in RowOf(c, m) : TRUE) \in RowOf(c, m)
      BY <1>2
    <3>. QED
      BY <1>2, <3>1 DEF InBag
  <2>2. l \in LineIds /\ bag[l] # NoRow
    BY DEF RowOf, Rows
  <2>3. bag[l].qty \in 1..MaxQty
    BY <2>2, LineIs
  <2>. QED
    BY <2>1, <2>3, Settings
<1>. QED
  BY <1>1, <1>2

LEMMA ReadStep ==
  ASSUME CheckoutInv, NEW w \in Workers, NEW c \in Customers, NEW m \in Modes, NEW n \in 1..MaxQty,
         AddRead(w, c, m, n) \/ MergeRead(w, c, m, n)
  PROVE  CheckoutInv'
<1>1. BagInv /\ ShopInv
  BY DEF CheckoutInv
<1>2. PICK had \in Nat : had = InBag(c, m) /\ had <= MaxQty
  BY <1>1, InBagIs
<1>3. free \in Nat /\ MaxQty \in Nat /\ n \in Nat /\ n > 0 /\ n <= MaxQty
  BY <1>1, Settings DEF ShopInv
<1>4. PICK qty \in 1..MaxQty : job' = [job EXCEPT ![w] = [pc |-> "put", customer |-> c, mode |-> m, qty |-> qty]]
  <2>1. CASE AddRead(w, c, m, n)
    <3>1. had + n \in 1..MaxQty
      BY <1>2, <1>3, <2>1 DEF AddRead
    <3>. QED
      BY <1>2, <2>1, <3>1 DEF AddRead
  <2>2. CASE MergeRead(w, c, m, n)
    <3>1. PICK wanted \in Nat : wanted = IF had > n THEN had ELSE n
      BY <1>2, <1>3
    <3>2. PICK qty \in Nat : qty = Lesser(Lesser(wanted, MaxQty), free) /\ qty <= MaxQty
      BY <1>3, <3>1 DEF Lesser
    <3>3. qty > 0 /\ job' = [job EXCEPT ![w] = [pc |-> "put", customer |-> c, mode |-> m, qty |-> qty]]
      BY <1>2, <2>2, <3>1, <3>2 DEF MergeRead
    <3>4. qty \in 1..MaxQty
      BY <1>3, <3>2, <3>3
    <3>. QED
      BY <3>3, <3>4
  <2>. QED
    BY <2>1, <2>2
<1>5. PICK j \in PutJob : job' = [job EXCEPT ![w] = j]
  BY <1>4, PutIs
<1>6. UNCHANGED <<shop, free, bag, code, order, redeemed, reviewed, answers>>
  BY DEF AddRead, MergeRead
<1>. QED
  BY <1>5, <1>6, BagQuiet, BagStep

LEMMA PutStep ==
  ASSUME CheckoutInv, NEW w \in Workers, Put(w)
  PROVE  CheckoutInv'
<1>1. BagInv
  BY DEF CheckoutInv
<1>2. job[w] \in PutJob
  BY JobIs DEF CheckoutInv, JobsInv, Put
<1>3. PICK c \in Customers, m \in Modes, n \in 1..MaxQty :
        c = job[w].customer /\ m = job[w].mode /\ n = job[w].qty
  BY <1>2, JobIs DEF CheckoutInv, JobsInv
<1>4. PICK row : row = [owner |-> c, mode |-> m, qty |-> n]
  OBVIOUS
<1>5. row \in LineRow /\ row # NoRow /\ row.owner = c /\ row.mode = m
  BY <1>4, LineFrom
<1>6. PICK l \in LineIds :
        /\ bag' = [bag EXCEPT ![l] = row]
        /\ \A k \in LineIds : k # l /\ bag[k] # NoRow => <<bag[k].owner, bag[k].mode>> # <<c, m>>
  <2>1. CASE RowOf(c, m) # {}
    <3>1. PICK l \in RowOf(c, m) : bag' = [bag EXCEPT ![l] = row]
      BY <1>3, <1>4, <2>1 DEF Put, NewQty
    <3>2. l \in LineIds /\ bag[l] # NoRow /\ bag[l].owner = c /\ bag[l].mode = m
      BY DEF RowOf, Rows
    <3>. QED
      BY <1>1, <3>1, <3>2 DEF BagInv
  <2>2. CASE RowOf(c, m) = {}
    <3>1. PICK l \in LineIds : bag' = [bag EXCEPT ![l] = row]
      BY <1>3, <1>4, <2>2 DEF Put, NewQty
    <3>2. \A k \in LineIds : bag[k] # NoRow => ~(bag[k].owner = c /\ bag[k].mode = m)
      BY <2>2 DEF RowOf, Rows
    <3>. QED
      BY <3>1, <3>2
  <2>. QED
    BY <2>1, <2>2
<1>7. BagInv'
  BY <1>1, <1>5, <1>6 DEF BagInv
<1>8. ShopInv'
  BY BagQuiet DEF Put
<1>9. /\ UNCHANGED <<order, redeemed, reviewed, answers>>
      /\ job' = [job EXCEPT ![w] = Idle]
  BY DEF Put
<1>. QED
  BY <1>7, <1>8, <1>9, BagStep

LEMMA ChangeStep ==
  ASSUME CheckoutInv, NEW l \in LineIds, NEW n \in 1..MaxQty, Update(l, n) \/ Remove(l)
  PROVE  CheckoutInv'
<1>1. BagInv
  BY DEF CheckoutInv
<1>2. BagInv'
  <2>1. CASE Update(l, n)
    <3>1. PICK row : row = [bag[l] EXCEPT !.qty = n]
      OBVIOUS
    <3>2. bag[l] \in LineRow
      BY <1>1, <2>1, LineIs DEF Update
    <3>3. row \in LineRow /\ row.owner = bag[l].owner /\ row.mode = bag[l].mode
      BY <3>1, <3>2 DEF LineRow
    <3>4. bag' = [bag EXCEPT ![l] = row] /\ bag[l] # NoRow
      BY <2>1, <3>1 DEF Update
    <3>. QED
      BY <1>1, <3>3, <3>4 DEF BagInv
  <2>2. CASE Remove(l)
    BY <1>1, <2>2 DEF Remove, BagInv
  <2>. QED
    BY <2>1, <2>2
<1>3. UNCHANGED <<shop, free, code, order, redeemed, job, reviewed, answers>>
  BY DEF Update, Remove
<1>. QED
  BY <1>2, <1>3, BagQuiet, BagStep

LEMMA CouponStep ==
  ASSUME CheckoutInv, NEW c \in Customers, ApplyCoupon(c) \/ RemoveCoupon(c)
  PROVE  CheckoutInv'
<1>1. UNCHANGED <<shop, free, bag, order, redeemed, job, reviewed, answers>>
  BY DEF ApplyCoupon, RemoveCoupon
<1>2. code' \subseteq Customers
  BY DEF ApplyCoupon, RemoveCoupon, CheckoutInv, ShopInv
<1>3. ShopInv'
  BY <1>1, <1>2 DEF ShopInv, shop, CheckoutInv
<1>. QED
  BY <1>1, <1>3, BagQuiet, BagStep

LEMMA EditStep ==
  ASSUME CheckoutInv, Edit
  PROVE  CheckoutInv'
<1>1. UNCHANGED <<bag, code, order, redeemed, job, reviewed, answers>>
  BY DEF Edit
<1>2. ShopInv
  BY DEF CheckoutInv
<1>3. ShopInv'
  <2>1. CASE EditProduct
    BY <1>1, <1>2, <2>1 DEF EditProduct, ShopInv
  <2>2. CASE EditCoupon
    BY <1>1, <1>2, <2>2 DEF EditCoupon, ShopInv
  <2>3. CASE OthersPlace
    BY <1>1, <1>2, <2>3 DEF OthersPlace, ShopInv
  <2>. QED
    BY <2>1, <2>2, <2>3 DEF Edit
<1>. QED
  BY <1>1, <1>3, BagQuiet, BagStep

-----------------------------------------------------------------------------
(* The steps of a checkout.                                                *)

LEMMA ReviewIs ==
  ASSUME NEW c \in Customers, NEW amount \in Nat \cup {NoRow}, NEW row,
         row = [customer |-> c, amount |-> amount]
  PROVE  row \in ReviewRow
BY DEF ReviewRow

LEMMA ReviewStep ==
  ASSUME CheckoutInv, NEW c \in Customers, NEW k \in Keys, Review(c, k) \/ LegacyCheckout(c, k)
  PROVE  CheckoutInv'
<1>1. reviewed \in [Keys -> ReviewRow \cup {NoRow}]
  BY DEF CheckoutInv
<1>2. PICK row \in ReviewRow : reviewed[k] = NoRow /\ reviewed' = [reviewed EXCEPT ![k] = row]
  <2>1. CASE Review(c, k)
    <3>1. Evaluation(c).quote.grand \in Nat
      BY BagIsPriced
    <3>. QED
      BY <2>1, <3>1, ReviewIs DEF Review
  <2>2. CASE LegacyCheckout(c, k)
    BY <2>2, ReviewIs DEF LegacyCheckout
  <2>. QED
    BY <2>1, <2>2
<1>3. KeysKeep /\ reviewed' \in [Keys -> ReviewRow \cup {NoRow}]
  BY <1>1, <1>2 DEF KeysKeep
<1>4. UNCHANGED <<shop, free, bag, code, order, redeemed, job, answers>>
  BY DEF Review, LegacyCheckout
<1>5. JobsInv'
  BY <1>3, <1>4, JobsKeep
<1>6. OrdersInv'
  BY <1>3, <1>4, OrdersQuiet
<1>7. AnswersInv'
  BY <1>3, <1>4, Unmoved, AnswersKeep
<1>. QED
  BY <1>3, <1>4, <1>5, <1>6, <1>7, BagQuiet DEF CheckoutInv

(* The answer to a key whose order is there is an order of that key, for   *)
(* the customer and the amount reviewed under it.                          *)
LEMMA KeyIsAnswered ==
  ASSUME CheckoutInv, UNCHANGED <<order, reviewed>>, NEW k \in Keys, NEW o \in OrderOfKey(k)
  PROVE  Answered(<<k, o>>)
<1>1. o \in Placed /\ o \in Orders /\ order[o].key = k
  BY DEF OrderOfKey, Placed
<1>2. Matches(k, order[o].customer, order[o].quote.grand)
  BY <1>1 DEF CheckoutInv, OrdersInv
<1>. QED
  BY <1>1, <1>2 DEF Answered, Matches, Placed

LEMMA PriceIs ==
  ASSUME NEW k \in Keys, NEW j, j = [pc |-> "price", key |-> k]
  PROVE  j \in AnyJob /\ j \in PriceJob /\ j \notin CreateJob /\ j.key = k
<1>1. j \in PriceJob
  BY DEF PriceJob
<1>. QED
  BY <1>1, JobIs DEF AnyJob

LEMMA IdleIs == Idle \in AnyJob /\ Idle \notin PriceJob /\ Idle \notin CreateJob
<1>1. Idle \in AnyJob
  BY DEF AnyJob
<1>. QED
  BY <1>1, JobIs

LEMMA BeginStep ==
  ASSUME CheckoutInv, NEW w \in Workers, NEW k \in Keys, BeginPlace(w, k)
  PROVE  CheckoutInv'
<1>1. UNCHANGED <<shop, free, bag, code, order, redeemed, reviewed>>
  BY DEF BeginPlace
<1>2. KeysKeep
  BY <1>1 DEF KeysKeep
<1>3. PICK j : j = [pc |-> "price", key |-> k]
  OBVIOUS
<1>4. j \in AnyJob /\ NewJob(j)
  BY <1>1, <1>3, PriceIs DEF NewJob, BeginPlace
<1>5. JobsInv'
  <2>1. job' = job \/ job' = [job EXCEPT ![w] = j]
    BY <1>3 DEF BeginPlace
  <2>. QED
    BY <1>2, <1>4, <2>1, JobsKeep
<1>6. OrdersInv'
  BY <1>1, <1>2, OrdersQuiet
<1>7. AnswersInv'
  <2>1. \A a \in answers' : a \in answers \/ \E o \in OrderOfKey(k) : a = <<k, o>>
    BY DEF BeginPlace
  <2>2. \A a \in answers' : a \in answers \/ (a = <<a[1], a[2]>> /\ Answered(a))
    BY <1>1, <2>1, KeyIsAnswered
  <2>. QED
    BY <1>1, <1>2, <2>2, Unmoved, AnswersKeep
<1>8. reviewed' \in [Keys -> ReviewRow \cup {NoRow}]
  BY <1>1 DEF CheckoutInv
<1>. QED
  BY <1>1, <1>5, <1>6, <1>7, <1>8, BagQuiet DEF CheckoutInv

LEMMA CreateIs ==
  ASSUME NEW k \in Keys, NEW draft \in DraftRow, NEW source \in SUBSET LineIds, NEW j,
         j = [pc |-> "create", key |-> k, draft |-> draft, source |-> source]
  PROVE  j \in AnyJob /\ j \in CreateJob /\ j \notin PriceJob /\ j.key = k /\ j.draft = draft
<1>1. j \in CreateJob
  BY DEF CreateJob
<1>. QED
  BY <1>1, JobIs DEF AnyJob

LEMMA DraftStep ==
  ASSUME CheckoutInv, NEW w \in Workers, Draft(w)
  PROVE  CheckoutInv'
<1>1. UNCHANGED <<shop, free, bag, code, order, redeemed, reviewed>>
  BY DEF Draft
<1>2. KeysKeep
  BY <1>1 DEF KeysKeep
<1>3. job[w] \in PriceJob /\ job[w].key \in Keys /\ reviewed[job[w].key] # NoRow
  BY JobIs DEF Draft, CheckoutInv, JobsInv
<1>4. PICK k \in Keys : k = job[w].key
  BY <1>3
<1>5. reviewed[k] \in ReviewRow
  BY <1>3, <1>4 DEF CheckoutInv
<1>6. PICK c \in Customers : c = reviewed[k].customer
  BY <1>5 DEF ReviewRow
<1>7. PICK draft \in DraftRow :
        /\ draft = Evaluation(c) /\ Fair(draft.lines, draft.coupon, draft.quote)
        /\ draft.quote \in QuoteRow
  BY BagIsPriced
<1>8. Agreed(k, draft) => Matches(k, c, draft.quote.grand)
  BY <1>3, <1>4, <1>6 DEF Agreed, Matches
<1>9. PICK source \in SUBSET LineIds : source = Rows(c)
  BY DEF Rows
<1>10. PICK j : j = [pc |-> "create", key |-> k, draft |-> draft, source |-> source]
  OBVIOUS
<1>11. \/ job' = [job EXCEPT ![w] = Idle] /\ UNCHANGED answers
       \/ /\ Agreed(k, draft) /\ job' = [job EXCEPT ![w] = Idle]
          /\ \E o \in Twins(c, draft) : answers' = answers \cup {<<k, o>>}
       \/ Agreed(k, draft) /\ job' = [job EXCEPT ![w] = j] /\ UNCHANGED answers
  BY <1>4, <1>6, <1>7, <1>9, <1>10 DEF Draft
<1>12. JobsInv'
  <2>1. Agreed(k, draft) => j \in AnyJob /\ NewJob(j)
    BY <1>6, <1>7, <1>8, <1>10, CreateIs DEF NewJob
  <2>2. Idle \in AnyJob /\ NewJob(Idle)
    BY IdleIs DEF NewJob
  <2>. QED
    BY <1>2, <1>11, <2>1, <2>2, JobsKeep
<1>13. AnswersInv'
  <2>1. ASSUME NEW o \in Twins(c, draft), Agreed(k, draft)
        PROVE  Answered(<<k, o>>)
    <3>1. o \in Placed /\ o \in Orders /\ order[o].customer = c /\ order[o].fingerprint = Fingerprint(draft)
      BY DEF Twins, OrdersOf, Placed
    <3>2. order[o].fingerprint = <<order[o].items, order[o].coupon, order[o].quote.grand>>
      BY <3>1 DEF CheckoutInv, OrdersInv
    <3>3. order[o].quote.grand = draft.quote.grand
      BY <3>1, <3>2 DEF Fingerprint
    <3>. QED
      BY <1>1, <1>8, <2>1, <3>1, <3>3 DEF Answered, Matches, Placed
  <2>2. \A a \in answers' : a \in answers \/ (a = <<a[1], a[2]>> /\ Answered(a))
    BY <1>11, <2>1
  <2>. QED
    BY <1>1, <1>2, <2>2, Unmoved, AnswersKeep
<1>14. OrdersInv'
  BY <1>1, <1>2, OrdersQuiet
<1>15. reviewed' \in [Keys -> ReviewRow \cup {NoRow}]
  BY <1>1 DEF CheckoutInv
<1>. QED
  BY <1>1, <1>12, <1>13, <1>14, <1>15, BagQuiet DEF CheckoutInv

-----------------------------------------------------------------------------
(* The steps of an order.                                                  *)

LEMMA OrderMade ==
  ASSUME NEW k \in Keys, NEW c \in Customers, NEW draft \in DraftRow, NEW source \in SUBSET LineIds, NEW row,
         row = [customer |-> c, key |-> k, status |-> "pending", paid |-> FALSE,
                items |-> ItemsOf(draft), coupon |-> draft.coupon, quote |-> draft.quote,
                fingerprint |-> Fingerprint(draft), source |-> source]
  PROVE  /\ row \in OrderRow /\ row # NoRow
         /\ row.customer = c /\ row.key = k /\ row.items = draft.lines /\ row.coupon = draft.coupon
         /\ row.quote = draft.quote
         /\ row.fingerprint = <<draft.lines, draft.coupon, draft.quote.grand>>
<1>1. draft.lines \in BagLines /\ draft.coupon \in BOOLEAN /\ draft.quote \in QuoteRow
  BY DEF DraftRow
<1>2. Fingerprint(draft) \in BagLines \X BOOLEAN \X Nat
  BY <1>1, QuoteIs DEF Fingerprint
<1>3. row \in OrderRow
  BY <1>1, <1>2 DEF OrderRow, ItemsOf, Statuses
<1>. QED
  BY <1>3, OrderIs DEF ItemsOf, Fingerprint

(* A step that changes orders, none of whose customers' jobs but one that  *)
(* ends: what is left to show of it.                                       *)
LEMMA OrderStep ==
  ASSUME CheckoutInv, ShopInv', BagInv', UNCHANGED reviewed,
         job' = job \/ \E w \in Workers : job' = [job EXCEPT ![w] = Idle],
         order' \in [Orders -> OrderRow \cup {NoRow}],
         \A o \in Orders : order'[o] # NoRow => (o \in Placed /\ Kept(o)) \/ GoodNext(o),
         \A o \in Placed : Kept(o),
         redeemed' \subseteq Orders,
         \A o \in redeemed' : o \in redeemed \/ (order'[o] # NoRow /\ order'[o].coupon /\ order'[o].paid),
         \A a \in answers' : a \in answers \/ (a = <<a[1], a[2]>> /\ Answered(a))
  PROVE  CheckoutInv'
<1>1. KeysKeep
  BY DEF KeysKeep
<1>2. JobsInv'
  <2>1. Idle \in AnyJob /\ NewJob(Idle)
    BY IdleIs DEF NewJob
  <2>. QED
    BY <1>1, <2>1, JobsKeep
<1>3. \A o \in Orders : order'[o] # NoRow => GoodNext(o)
  BY <1>1, KeptIsGood
<1>4. OrdersInv'
  BY <1>1, <1>3, OrdersKeep
<1>5. AnswersInv'
  BY <1>1, AnswersKeep
<1>6. reviewed' \in [Keys -> ReviewRow \cup {NoRow}]
  BY DEF CheckoutInv
<1>. QED
  BY <1>2, <1>4, <1>5, <1>6 DEF CheckoutInv

(* What the orders' items ask for is a number of garments.                 *)
LEMMA ItemsAreNat ==
  ASSUME CheckoutInv
  PROVE  /\ \A o \in Placed : order[o] \in OrderRow /\ QtyOf(order[o].items) \in Nat
         /\ \A older \in SUBSET Placed :
              SumFunctionOnSet([o \in older |-> QtyOf(order[o].items)], older) \in Nat
<1>1. ASSUME NEW o \in Placed
      PROVE  order[o] \in OrderRow /\ QtyOf(order[o].items) \in Nat
  <2>1. order[o] \in OrderRow
    BY DEF CheckoutInv, OrdersInv, Placed
  <2>. QED
    BY <2>1, OrderIs, QuantityIsNat
<1>2. ASSUME NEW older \in SUBSET Placed
      PROVE  SumFunctionOnSet([o \in older |-> QtyOf(order[o].items)], older) \in Nat
  <2>1. PICK f : f = [o \in older |-> QtyOf(order[o].items)]
    OBVIOUS
  <2>2. IsFiniteSet(older)
    BY Settings, FS_Subset DEF Placed
  <2>3. \A o \in older : f[o] \in Nat
    BY <1>1, <2>1
  <2>4. SumOver(f, older) \in Nat
    BY <2>2, <2>3, SumIsNat
  <2>. QED
    BY <2>1, <2>4 DEF SumOver
<1>. QED
  BY <1>1, <1>2

LEMMA CreateStep ==
  ASSUME CheckoutInv, NEW w \in Workers, Create(w)
  PROVE  CheckoutInv'
<1>1. UNCHANGED <<shop, bag, code, redeemed, reviewed>> /\ job' = [job EXCEPT ![w] = Idle]
  BY DEF Create
<1>2. job[w] \in CreateJob
  BY JobIs DEF Create, CheckoutInv, JobsInv
<1>3. PICK k \in Keys, draft \in DraftRow, source \in SUBSET LineIds :
        k = job[w].key /\ draft = job[w].draft /\ source = job[w].source
  BY <1>2 DEF CreateJob
<1>4. Fair(draft.lines, draft.coupon, draft.quote) /\ Matches(k, reviewed[k].customer, draft.quote.grand)
  BY <1>2, <1>3 DEF CheckoutInv, JobsInv
<1>5. PICK c \in Customers : c = reviewed[k].customer
  <2>1. reviewed[k] \in ReviewRow
    BY <1>4 DEF Matches, CheckoutInv
  <2>. QED
    BY <2>1 DEF ReviewRow
<1>6. PICK row : row = [customer |-> c, key |-> k, status |-> "pending", paid |-> FALSE,
                        items |-> ItemsOf(draft), coupon |-> draft.coupon, quote |-> draft.quote,
                        fingerprint |-> Fingerprint(draft), source |-> source]
  OBVIOUS
<1>7. PICK older : older = {o \in OrdersOf(c) : order[o].status = "pending"}
  OBVIOUS
<1>8. PICK regained \in Nat : regained = SumFunctionOnSet([o \in older |-> QtyOf(order[o].items)], older)
  <2>1. older \in SUBSET Placed
    BY <1>7 DEF OrdersOf
  <2>. QED
    BY <2>1, ItemsAreNat
<1>9. PICK need \in Nat : need = QtyOf(draft.lines)
  BY QuantityIsNat DEF DraftRow
<1>10. free \in Nat
  BY DEF CheckoutInv, ShopInv
<1>11. \/ /\ need <= free + regained /\ free' = free + regained - need
          /\ \E o \in Orders \ Placed :
               /\ order' = [p \in Orders |-> IF p = o THEN row
                                             ELSE IF p \in older THEN [order[p] EXCEPT !.status = "closed"]
                                             ELSE order[p]]
               /\ answers' = answers \cup {<<k, o>>}
       \/ UNCHANGED <<order, free>> /\ UNCHANGED answers
       \/ UNCHANGED <<order, free>> /\ answers' = answers \cup {<<k, o>> : o \in OrderOfKey(k)}
  BY <1>3, <1>5, <1>6, <1>7, <1>8, <1>9 DEF Create
<1>12. ShopInv' /\ BagInv'
  <2>1. free' \in Nat
    BY <1>8, <1>9, <1>10, <1>11
  <2>2. code' \subseteq Customers
    BY <1>1 DEF CheckoutInv, ShopInv
  <2>. QED
    BY <1>1, <2>1, <2>2, BagQuiet DEF CheckoutInv, ShopInv, shop
<1>13. CASE UNCHANGED order
  <2>1. \A a \in answers' : a \in answers \/ \E o \in OrderOfKey(k) : a = <<k, o>>
    <3>1. ~(\E o \in Orders \ Placed : order' = [p \in Orders |-> IF p = o THEN row
                                             ELSE IF p \in older THEN [order[p] EXCEPT !.status = "closed"]
                                             ELSE order[p]])
      <4>1. row # NoRow
        BY <1>6, OrderMade
      <4>. QED
        BY <1>13, <4>1 DEF Placed
    <3>. QED
      BY <1>11, <3>1
  <2>2. \A a \in answers' : a \in answers \/ (a = <<a[1], a[2]>> /\ Answered(a))
    BY <1>1, <1>13, <2>1, KeyIsAnswered
  <2>3. redeemed \subseteq Orders
    BY DEF CheckoutInv, OrdersInv, Placed
  <2>. QED
    BY <1>1, <1>12, <1>13, <2>2, <2>3, Unmoved, OrderStep DEF Placed
<1>14. ASSUME NEW o \in Orders \ Placed,
              order' = [p \in Orders |-> IF p = o THEN row
                                         ELSE IF p \in older THEN [order[p] EXCEPT !.status = "closed"]
                                         ELSE order[p]],
              answers' = answers \cup {<<k, o>>}
       PROVE  CheckoutInv'
  <2>1. /\ row \in OrderRow /\ row # NoRow
        /\ row.customer = c /\ row.key = k /\ row.items = draft.lines /\ row.coupon = draft.coupon
        /\ row.quote = draft.quote
        /\ row.fingerprint = <<draft.lines, draft.coupon, draft.quote.grand>>
    BY <1>6, OrderMade
  <2>2. order'[o] = row
    BY <1>14
  <2>3. ASSUME NEW p \in Placed
        PROVE  Kept(p) /\ order'[p] \in OrderRow
    <3>1. p # o /\ p \in Orders /\ order[p] \in OrderRow
      BY ItemsAreNat DEF Placed
    <3>2. CASE p \in older
      <4>1. PICK next : next = [order[p] EXCEPT !.status = "closed"]
        OBVIOUS
      <4>2. order'[p] = next
        BY <1>14, <3>1, <3>2, <4>1
      <4>4. "closed" \in Statuses
        BY DEF Statuses
      <4>5. /\ next \in OrderRow /\ next # NoRow
            /\ next.customer = order[p].customer /\ next.key = order[p].key /\ next.items = order[p].items
            /\ next.coupon = order[p].coupon /\ next.quote = order[p].quote
            /\ next.fingerprint = order[p].fingerprint /\ next.paid = order[p].paid
        BY <3>1, <4>1, <4>4, OrderMoves
      <4>. QED
        BY <4>2, <4>5 DEF Kept
    <3>3. CASE p \notin older
      <4>1. order'[p] = order[p]
        BY <1>14, <3>1, <3>3
      <4>. QED
        BY <3>1, <4>1, OrderIs DEF Kept
    <3>. QED
      BY <3>2, <3>3
  <2>4. \A p \in Orders : p # o /\ p \notin Placed => order'[p] = NoRow
    BY <1>7, <1>14 DEF OrdersOf, Placed
  <2>5. order' \in [Orders -> OrderRow \cup {NoRow}]
    <3>1. order' = [p \in Orders |-> order'[p]]
      BY <1>14
    <3>2. \A p \in Orders : order'[p] \in OrderRow \cup {NoRow}
      BY <2>1, <2>2, <2>3, <2>4
    <3>. QED
      BY <3>1, <3>2
  <2>6. GoodNext(o) /\ Answered(<<k, o>>)
    BY <1>1, <1>4, <1>5, <2>1, <2>2 DEF GoodNext, Answered, Matches
  <2>7. \A p \in Orders : order'[p] # NoRow => (p \in Placed /\ Kept(p)) \/ GoodNext(p)
    BY <2>3, <2>4, <2>6
  <2>8. redeemed \subseteq Orders
    BY DEF CheckoutInv, OrdersInv, Placed
  <2>9. \A a \in answers' : a \in answers \/ (a = <<a[1], a[2]>> /\ Answered(a))
    BY <1>14, <2>6
  <2>. QED
    BY <1>1, <1>12, <2>3, <2>5, <2>7, <2>8, <2>9, OrderStep
<1>. QED
  BY <1>11, <1>13, <1>14

(* One order becomes the given row, which keeps what it was made from.     *)
LEMMA OrderBecomes ==
  ASSUME CheckoutInv, NEW o \in Placed, NEW next \in OrderRow,
         order' = [order EXCEPT ![o] = next],
         next.customer = order[o].customer, next.key = order[o].key, next.items = order[o].items,
         next.coupon = order[o].coupon, next.quote = order[o].quote,
         next.fingerprint = order[o].fingerprint, order[o].paid => next.paid
  PROVE  /\ order' \in [Orders -> OrderRow \cup {NoRow}]
         /\ \A p \in Placed : Kept(p)
         /\ \A p \in Orders : order'[p] # NoRow => p \in Placed /\ Kept(p)
         /\ order'[o] = next /\ \A p \in Orders : p # o => order'[p] = order[p]
<1>1. order \in [Orders -> OrderRow \cup {NoRow}] /\ o \in Orders
  BY DEF CheckoutInv, OrdersInv, Placed
<1>2. order'[o] = next /\ \A p \in Orders : p # o => order'[p] = order[p]
  BY <1>1
<1>3. order' \in [Orders -> OrderRow \cup {NoRow}]
  BY <1>1
<1>4. ASSUME NEW p \in Placed PROVE Kept(p)
  <2>1. CASE p = o
    BY <1>2, <2>1, OrderIs DEF Kept
  <2>2. CASE p # o
    BY <1>2, <2>2 DEF Kept, Placed
  <2>. QED
    BY <2>1, <2>2
<1>5. \A p \in Orders : order'[p] # NoRow => p \in Placed
  BY <1>2 DEF Placed
<1>. QED
  BY <1>2, <1>3, <1>4, <1>5

LEMMA ConfirmedStep ==
  ASSUME CheckoutInv, NEW o \in Orders, Pay(o) \/ PayLate(o)
  PROVE  CheckoutInv'
<1>1. /\ o \in Placed /\ Confirmed(o)
      /\ UNCHANGED <<shop, moves, job, reviewed, answers>>
  BY DEF Pay, PayLate
<1>2. order[o] \in OrderRow /\ QtyOf(order[o].items) \in Nat
  BY <1>1, ItemsAreNat
<1>3. PICK next : next = [order[o] EXCEPT !.status = "confirmed", !.paid = TRUE]
  OBVIOUS
<1>4. order' = [order EXCEPT ![o] = next]
  <2>1. order \in [Orders -> OrderRow \cup {NoRow}]
    BY DEF CheckoutInv, OrdersInv
  <2>2. PICK moved : moved = [order[o] EXCEPT !.status = "confirmed"]
    OBVIOUS
  <2>3. PICK half : half = [order EXCEPT ![o] = moved]
    OBVIOUS
  <2>4. half[o] = moved
    BY <2>1, <2>3
  <2>5. order' = [half EXCEPT ![o] = [moved EXCEPT !.paid = TRUE]]
    BY <1>1, <2>1, <2>2, <2>3, <2>4 DEF Confirmed
  <2>6. next = [moved EXCEPT !.paid = TRUE]
    BY <1>3, <2>2
  <2>. QED
    BY <2>1, <2>3, <2>5, <2>6
<1>5. /\ next \in OrderRow /\ next # NoRow
      /\ next.customer = order[o].customer /\ next.key = order[o].key /\ next.items = order[o].items
      /\ next.coupon = order[o].coupon /\ next.quote = order[o].quote /\ next.paid = TRUE
      /\ next.fingerprint = order[o].fingerprint
  BY <1>2, <1>3, OrderPays
<1>6. /\ order' \in [Orders -> OrderRow \cup {NoRow}]
      /\ \A p \in Placed : Kept(p)
      /\ \A p \in Orders : order'[p] # NoRow => p \in Placed /\ Kept(p)
      /\ order'[o] = next
  BY <1>1, <1>4, <1>5, OrderBecomes
<1>7. ShopInv'
  <2>1. code' \subseteq Customers
    BY <1>1 DEF Confirmed, CheckoutInv, ShopInv
  <2>2. free' \in Nat
    <3>1. free \in Nat
      BY DEF CheckoutInv, ShopInv
    <3>2. CASE Pay(o)
      BY <3>1, <3>2 DEF Pay
    <3>3. CASE PayLate(o)
      BY <1>2, <3>1, <3>3 DEF PayLate
    <3>. QED
      BY <3>2, <3>3
  <2>. QED
    BY <1>1, <2>1, <2>2 DEF CheckoutInv, ShopInv, shop
<1>8. BagInv'
  <2>1. bag' = [l \in LineIds |-> IF l \in order[o].source /\ l \in Rows(order[o].customer)
                                  THEN NoRow ELSE bag[l]]
    BY <1>1 DEF Confirmed
  <2>2. \A l \in LineIds : bag'[l] = NoRow \/ bag'[l] = bag[l]
    BY <2>1
  <2>3. bag' \in [LineIds -> LineRow \cup {NoRow}]
    <3>1. \A l \in LineIds : bag[l] \in LineRow \cup {NoRow}
      BY DEF CheckoutInv, BagInv
    <3>2. bag' = [l \in LineIds |-> bag'[l]]
      BY <2>1
    <3>. QED
      BY <2>2, <3>1, <3>2
  <2>4. \A l, n \in LineIds : /\ l # n /\ bag[l] # NoRow /\ bag[n] # NoRow
                              => <<bag[l].owner, bag[l].mode>> # <<bag[n].owner, bag[n].mode>>
    BY DEF CheckoutInv, BagInv
  <2>5. \A l, n \in LineIds : /\ l # n /\ bag'[l] # NoRow /\ bag'[n] # NoRow
                              => <<bag'[l].owner, bag'[l].mode>> # <<bag'[n].owner, bag'[n].mode>>
    BY <2>2, <2>4
  <2>. QED
    BY <2>3, <2>5 DEF BagInv
<1>9. /\ redeemed' \subseteq Orders
      /\ \A p \in redeemed' : p \in redeemed \/ (order'[p] # NoRow /\ order'[p].coupon /\ order'[p].paid)
  <2>1. redeemed \subseteq Orders /\ o \in Orders
    BY DEF CheckoutInv, OrdersInv, Placed
  <2>2. redeemed' = redeemed \/ (redeemed' = redeemed \cup {o} /\ order[o].coupon)
    BY <1>1 DEF Confirmed
  <2>3. order[o].coupon => order'[o] # NoRow /\ order'[o].coupon /\ order'[o].paid
    BY <1>5, <1>6
  <2>. QED
    BY <2>1, <2>2, <2>3
<1>. QED
  BY <1>1, <1>6, <1>7, <1>8, <1>9, OrderStep

LEMMA EndStep ==
  ASSUME CheckoutInv, NEW o \in Orders, Close(o) \/ CancelConfirmed(o)
  PROVE  CheckoutInv'
<1>1. /\ o \in Placed /\ free' = free + QtyOf(order[o].items)
      /\ UNCHANGED <<shop, bag, code, redeemed, job, reviewed, answers>>
  BY DEF Close, CancelConfirmed
<1>2. order[o] \in OrderRow /\ QtyOf(order[o].items) \in Nat
  BY <1>1, ItemsAreNat
<1>3. PICK s \in Statuses : order' = [order EXCEPT ![o].status = s]
  BY DEF Close, CancelConfirmed, Statuses
<1>4. PICK next : next = [order[o] EXCEPT !.status = s]
  OBVIOUS
<1>5. order' = [order EXCEPT ![o] = next]
  BY <1>3, <1>4
<1>6. /\ next \in OrderRow /\ next # NoRow
      /\ next.customer = order[o].customer /\ next.key = order[o].key /\ next.items = order[o].items
      /\ next.coupon = order[o].coupon /\ next.quote = order[o].quote /\ next.paid = order[o].paid
      /\ next.fingerprint = order[o].fingerprint
  BY <1>2, <1>4, OrderMoves
<1>7. /\ order' \in [Orders -> OrderRow \cup {NoRow}]
      /\ \A p \in Placed : Kept(p)
      /\ \A p \in Orders : order'[p] # NoRow => p \in Placed /\ Kept(p)
  BY <1>1, <1>5, <1>6, OrderBecomes
<1>8. ShopInv'
  BY <1>1, <1>2 DEF CheckoutInv, ShopInv, shop
<1>9. redeemed' \subseteq Orders
  BY <1>1 DEF CheckoutInv, OrdersInv, Placed
<1>. QED
  BY <1>1, <1>7, <1>8, <1>9, BagQuiet, OrderStep

LEMMA Starts == Init => CheckoutInv
<1>. SUFFICES ASSUME Init PROVE CheckoutInv
  OBVIOUS
<1>1. Placed = {}
  BY DEF Init, Placed
<1>2. ShopInv /\ BagInv
  BY Settings DEF Init, ShopInv, BagInv
<1>3. OrdersInv /\ AnswersInv
  BY <1>1 DEF Init, OrdersInv, AnswersInv
<1>4. JobsInv
  <2>1. job \in [Workers -> AnyJob] /\ \A w \in Workers : job[w] = Idle
    BY IdleIs DEF Init
  <2>. QED
    BY <2>1, IdleIs DEF JobsInv
<1>. QED
  BY <1>2, <1>3, <1>4 DEF Init, CheckoutInv

LEMMA StutterStep ==
  ASSUME CheckoutInv, UNCHANGED vars
  PROVE  CheckoutInv'
<1>1. UNCHANGED <<shop, free, bag, code, order, redeemed, job, reviewed, answers>>
  BY DEF vars, shop
<1>. QED
  BY <1>1, BagQuiet, BagStep

LEMMA Steps == CheckoutInv /\ [Next]_vars => CheckoutInv'
<1>. SUFFICES ASSUME CheckoutInv, [Next]_vars PROVE CheckoutInv'
  OBVIOUS
<1>1. ASSUME NEW c \in Customers, NEW w \in Workers, NEW m \in Modes, NEW n \in 1..MaxQty,
             AddRead(w, c, m, n) \/ MergeRead(w, c, m, n)
      PROVE  CheckoutInv'
  BY <1>1, ReadStep
<1>2. ASSUME NEW c \in Customers, ApplyCoupon(c) \/ RemoveCoupon(c)
      PROVE  CheckoutInv'
  BY <1>2, CouponStep
<1>3. ASSUME NEW c \in Customers, NEW k \in Keys, Review(c, k) \/ LegacyCheckout(c, k)
      PROVE  CheckoutInv'
  BY <1>3, ReviewStep
<1>4. ASSUME NEW l \in LineIds, Remove(l)
      PROVE  CheckoutInv'
  <2>1. 1 \in 1..MaxQty
    BY CheckoutAssumption
  <2>. QED
    BY <1>4, <2>1, ChangeStep
<1>5. ASSUME NEW l \in LineIds, NEW n \in 1..MaxQty, Update(l, n)
      PROVE  CheckoutInv'
  BY <1>5, ChangeStep
<1>6. ASSUME NEW w \in Workers, Put(w) \/ Draft(w) \/ Create(w) \/ \E k \in Keys : BeginPlace(w, k)
      PROVE  CheckoutInv'
  BY <1>6, PutStep, DraftStep, CreateStep, BeginStep
<1>7. ASSUME NEW o \in Orders, Pay(o) \/ PayLate(o) \/ Close(o) \/ CancelConfirmed(o)
      PROVE  CheckoutInv'
  BY <1>7, ConfirmedStep, EndStep
<1>8. CASE Edit
  BY <1>8, EditStep
<1>9. CASE UNCHANGED vars
  BY <1>9, StutterStep
<1>. QED
  BY <1>1, <1>2, <1>3, <1>4, <1>5, <1>6, <1>7, <1>8, <1>9 DEF Next

LEMMA Always == Spec => []CheckoutInv
<1>. QED
  BY Starts, Steps, PTL DEF Spec

-----------------------------------------------------------------------------
(* Every row keeps its shape, no line outgrows the limit, no two lines are *)
(* the same and garments are never lent twice, however requests that read  *)
(* first and write later overlap (cart/service.ts, orders/placement.ts).   *)
THEOREM RowsKeepShape == Spec => []TypeOK
<1>1. CheckoutInv => TypeOK
  <2>. SUFFICES ASSUME CheckoutInv PROVE TypeOK
    OBVIOUS
  <2>1. ShopInv /\ BagInv /\ OrdersInv /\ AnswersInv
    BY DEF CheckoutInv
  <2>2. \A o \in Placed : order[o] \in OrderRow
    BY <2>1 DEF OrdersInv, Placed
  <2>. QED
    BY <2>1, <2>2 DEF ShopInv, BagInv, OrdersInv, AnswersInv, TypeOK
<1>. QED
  BY <1>1, Always, PTL

(* A customer is only ever sent to pay the amount they reviewed, and not   *)
(* the order of somebody whose checkout looks the same, for any number of  *)
(* keys, devices, repeats and changes of price, coupon and stock           *)
(* (placement.ts: expectedTotalPaise, fingerprintOf).                      *)
THEOREM ChargedWhatWasReviewed == Spec => []ChargedAsReviewed
<1>1. CheckoutInv => ChargedAsReviewed
  BY DEF CheckoutInv, AnswersInv, ChargedAsReviewed, Matches
<1>. QED
  BY <1>1, Always, PTL

(* An order's amount is that of its own items, less the fairest discount,  *)
(* for any prices, coupon and delivery method (pricing/quote.ts,           *)
(* coupons/evaluate.ts, shipping/methods.ts).                              *)
THEOREM OrdersAddUp == Spec => []OrderAddsUp
<1>1. CheckoutInv => OrderAddsUp
  <2>. SUFFICES ASSUME CheckoutInv, NEW o \in Placed
                PROVE  LET items == order[o].items
                           off == IF order[o].coupon THEN FairDiscount(TheCoupon, items) ELSE 0
                           goods == GoodsTotal(items) - off
                       IN order[o].quote.grand = goods + DeliveryFee(TheMethod, goods) + DepositTotal(items)
    BY DEF OrderAddsUp
  <2>1. order[o] \in OrderRow
    BY ItemsAreNat
  <2>2. PICK items \in BagLines, coupon \in BOOLEAN : items = order[o].items /\ coupon = order[o].coupon
    BY <2>1, OrderIs
  <2>3. order[o].quote = BagQuote(items, TheCoupon, coupon, TheMethod)
    BY <2>2 DEF CheckoutInv, OrdersInv, Fair
  <2>. QED
    BY <2>2, <2>3, QuoteAddsUp
<1>. QED
  BY <1>1, Always, PTL

(* Whoever has paid nothing with the coupon may still use it: redemptions  *)
(* are paid orders with the coupon (coupons/evaluate.ts).                  *)
THEOREM CouponSurvives == Spec => []AbandonedKeepsCoupon
<1>1. CheckoutInv => AbandonedKeepsCoupon
  <2>. SUFFICES ASSUME CheckoutInv, NEW c \in Customers,
                       \A o \in OrdersOf(c) : order[o].coupon => ~order[o].paid
                PROVE  Redemptions(c) = 0
    BY DEF AbandonedKeepsCoupon
  <2>1. \A o \in redeemed : order[o].coupon /\ order[o].paid
    BY DEF CheckoutInv, OrdersInv
  <2>2. redeemed \cap OrdersOf(c) = {}
    BY <2>1
  <2>. QED
    BY <2>2, FS_EmptySet DEF Redemptions
<1>. QED
  BY <1>1, Always, PTL

(* Only a payment empties the bag and takes the coupon out of it: an order *)
(* that is made, superseded, closed or cancelled leaves both alone         *)
(* (placement.ts: "does NOT touch the cart").                              *)
THEOREM BagSurvives == Spec => BagKeptUntilPaid
<1>1. ASSUME CheckoutInv, [Next]_vars, NEW o \in Orders, order'[o] # order[o], order'[o].status # "confirmed"
      PROVE  bag' = bag /\ code' = code
  <2>1. ASSUME NEW p \in Orders, Pay(p) \/ PayLate(p)
        PROVE  FALSE
    <3>1. p \in Placed /\ Confirmed(p)
      BY <2>1 DEF Pay, PayLate
    <3>2. order \in [Orders -> OrderRow \cup {NoRow}] /\ order[p] \in OrderRow
      BY <1>1, <3>1, ItemsAreNat DEF CheckoutInv, OrdersInv
    <3>3. PICK moved : moved = [order[p] EXCEPT !.status = "confirmed"]
      OBVIOUS
    <3>4. PICK half : half = [order EXCEPT ![p] = moved]
      OBVIOUS
    <3>5. half[p] = moved /\ moved.status = "confirmed"
      BY <3>2, <3>3, <3>4 DEF OrderRow
    <3>6. order' = [half EXCEPT ![p] = [moved EXCEPT !.paid = TRUE]]
      BY <3>1, <3>2, <3>3, <3>4, <3>5 DEF Confirmed
    <3>7. order'[p] = [moved EXCEPT !.paid = TRUE] /\ \A q \in Orders : q # p => order'[q] = order[q]
      BY <3>2, <3>4, <3>6
    <3>8. order'[p].status = "confirmed"
      BY <3>5, <3>7
    <3>. QED
      BY <1>1, <3>7, <3>8
  <2>2. ASSUME NEW c \in Customers, NEW w \in Workers, NEW m \in Modes, NEW n \in 1..MaxQty,
               AddRead(w, c, m, n) \/ MergeRead(w, c, m, n)
        PROVE  FALSE
    BY <1>1, <2>2 DEF AddRead, MergeRead
  <2>3. ASSUME NEW c \in Customers, \/ ApplyCoupon(c) \/ RemoveCoupon(c)
                                    \/ \E k \in Keys : Review(c, k) \/ LegacyCheckout(c, k)
        PROVE  FALSE
    BY <1>1, <2>3 DEF ApplyCoupon, RemoveCoupon, Review, LegacyCheckout
  <2>4. ASSUME NEW l \in LineIds, Remove(l) \/ \E n \in 1..MaxQty : Update(l, n)
        PROVE  FALSE
    BY <1>1, <2>4 DEF Remove, Update
  <2>5. ASSUME NEW w \in Workers, Put(w) \/ Draft(w) \/ \E k \in Keys : BeginPlace(w, k)
        PROVE  FALSE
    BY <1>1, <2>5 DEF Put, Draft, BeginPlace
  <2>6. CASE \E w \in Workers : Create(w)
    BY <2>6 DEF Create
  <2>7. CASE \E p \in Orders : Close(p) \/ CancelConfirmed(p)
    BY <2>7 DEF Close, CancelConfirmed
  <2>8. CASE Edit \/ UNCHANGED vars
    BY <1>1, <2>8 DEF Edit, vars
  <2>. QED
    BY <1>1, <2>1, <2>2, <2>3, <2>4, <2>5, <2>6, <2>7, <2>8 DEF Next
<1>2. CheckoutInv /\ [Next]_vars =>
        [\A o \in Orders : order'[o] # order[o] /\ order'[o].status # "confirmed"
                           => bag' = bag /\ code' = code]_vars
  BY <1>1
<1>. QED
  BY <1>2, Always, PTL DEF Spec, BagKeptUntilPaid
=============================================================================
