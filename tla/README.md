# Loopwear backend: TLA+ models and proofs

Loopwear rents and sells garments. One physical garment (`GarmentUnit`) is
promised to orders over windows of days, an order holds its garments while a
payment gateway takes the money, and operators move garments through return,
laundry and back to the rack. The backend is a TypeScript service on
PostgreSQL (Prisma), and what makes it hard is that many requests, webhooks and
a cron job work on the same rows, each in several database calls.

This directory holds models of that core and of the parts around it (bag, coupon,
checkout, webhooks, deposits, sign-in, delivery, addresses, catalogue, currencies),
runs of TLC over small instances, and proofs checked by TLAPS that hold for every
size. Paths below are relative to
`src/`, the repository's root.

    tlc -config MCAllocationStock.cfg MCAllocation     # check one run
    tlapm AllocationProofs.tla                         # check one module of proofs

`PROJECT.json` lists the runs, the mutants that show each property can fail,
the lines each definition models, the hazards and the theorems.

## 1. Inventory

| Component | State | Operations | Talks to | What makes it correct |
|---|---|---|---|---|
| Availability calendar (`modules/availability`) | none; reads `OrderItem`, `Order.status`, `GarmentUnit.stage` | `isUnitAvailableFor`, `findFree`, `findBuyable` | allocation, catalogue, cart | no two live orders have one garment over intersecting days; a sold garment is never rented |
| Stock allocation (`orders/inventory.ts`) | `GarmentUnit.stage`, `currentOrderId`, row locks | allocate, reserve, release, mark sold, return sold, re-reserve | calendar, every change of an order | whatever the candidate list said, each garment is promised once; holds end with their order |
| Order placement (`orders/placement.ts`) | `Order`, `OrderItem`, idempotency key, fingerprint | `previewOrder`; `placeOrder`: replay, price, compare, supersede, allocate, insert | bag, quotes, allocation, closing, addresses, currency | all of a bag or nothing; nobody is charged another amount than the one reviewed; a retried submit makes one order |
| Closing and cancelling (`orders/lifecycle.ts`, `orders/service.ts`) | `Order.status` | `closeUnpaidOrder`, `cancelOrder` | allocation, refunds | stock and money go back once |
| Payment sessions (`payments/session.ts`) | `Payment` (one active per order by a partial unique index), gateway | `createPaymentSession`: find, retire, insert | gateway | never two payable sessions; a paid one is not retired |
| Finalization (`payments/finalize.ts`) | `Payment.status`, `Order.status` | `finalizeOrderPayment`, `confirmPaidOrder` | allocation, refunds, coupons, cart | one payment confirms; late or extra money is refunded |
| Refunds (`payments/refunds.ts`) | `Refund`, `Payment.status`, `Order.status`, gateway | `refundPaymentFully`, `syncPaymentRefundStatus` | gateway | money goes back once: deposits, a payment whose order no longer stands, one the order does not need |
| Verification (`payments/service.ts`) | — | client confirmations | gateway, finalization | nothing is paid on the client's word |
| Deposits (`payments/service.ts`) | `Refund` of an item, `Payment.status` | `refundDepositForOrderItem`, refund events | garments, gateway, refunds | asking again for a deposit gives nothing; a second one still finds its payment; what the payment says follows its refunds |
| Webhooks (`webhooks/razorpay.ts`) | `WebhookEvent` | log, dispatch, retry; the record of failed attempts | finalization, refunds | an acknowledged event was dealt with; repeats change nothing |
| Release job (`jobs/releaseAbandonedReservations.ts`) | — | expired orders: reconcile, close | gateway, finalization, closing | every hold ends; paid orders are not closed |
| Garment state machine (`console/lifecycle`) | `GarmentUnit.stage`, `condition`, return dates | `transitionGarmentUnit` | allocation, deposits | checked before it circulates; terminal stages are terminal |
| Laundry batches (`console/laundry`) | `LaundryBatch`, `BatchItem` | create, advance | garments | garments move with their batch and only from the stage before |
| Console orders (`console/orders`) | `Order.status`, `OrderEvent` | `setOrderStatus` | allocation, cancellation, delivery | garments leave once, with somebody to bring them |
| Delivery jobs and timeline (`console/delivery`, `jobs/delayedDeliveries.ts`, `orders/timeline.ts`) | `DeliveryJob` | create, complete, flag; the steps the customer sees | console orders | what the timeline shows as done has its date |
| Bag (`modules/cart`) | `Cart`, `CartItem` | add, merge, update, remove, coupon | quotes, stock, placement | limits hold however requests overlap; only a payment empties it |
| Coupons and quotes (`modules/coupons`, `pricing/quote.ts`, `shipping/methods.ts`) | `Coupon`, `CouponRedemption` | evaluate, quote | bag, placement, finalization | the discount is the fairest the coupon allows; abandoned checkouts do not use it up |
| Currency (`lib/fx.ts`, `middleware/currency.ts`, `jobs/fxRates.ts`) | `FxRate`, the order's currency and rate | resolve, convert, refresh | placement, sessions, refunds | what is shown is charged and returned |
| Address book (`modules/addresses`) | `Address` | create, update, delete | placement | one default; orders go where they were checked |
| Sign-in (`modules/auth`) | `User`, `OtpCode`, `Session`, `PasswordResetToken` | sign up, codes, sign in, reset | SMS, mail, Google | attempts are bounded; a code serves once, and only the newest; sessions belong to verified accounts |
| Catalogue console (`console/products`, `console/categories`, `wishlist`) | `Product`, `ProductVariant`, `VariantSize`, `GarmentUnit`, `Category`, `WishlistItem` | create, change, delete | bag, orders, garments | nothing refers to a row that is gone |
| Catalogue reads, customers, analytics, notifications, couriers, facilities, uploads, HTTP layer | their rows | reads and single-row edits | | left out: section 8 |

What is hard, by kind (the lines are in `PROJECT.json`, "hazards"):

- **rows read, then written by id**: garment moves, releases, batches, session
  retirement, the refund's last write of `Order.status`;
- **transactions that lock rows one by one** while rivals do the same;
- **steps between transactions**, where a process may die: the refund after the
  claim, the gateway call after the `Refund` row, the job's reconciliation;
- **the gateway's own time**: captures after the hold ran out, webhooks late,
  repeated, lost or ahead of the row they refer to, refunds that fail later;
- **an index that guards less, or more, than it seems to**: the one active payment of
  an order keeps out a retired session that is paid after all, and lets a second
  payment in once a deposit of the first went back;
- **counts and checks made before a write**: limits of the bag and the coupon,
  references to what is deleted, the address and the prices of a draft, attempts
  at a code: what holds then is what the write's own guard, a unique index or a
  foreign key holds.

## 2. Modules

| Module | Models | Kind |
|---|---|---|
| `Calendar` | the rules of `availability/service.ts`, as predicates on lines | operators |
| `Bookings` | what allocation promises: an order books all its garments in one step | abstract |
| `Allocation` | `inventory.ts` and the transactions that call it | detailed, implements `Bookings` |
| `AllocationClaims` | what a comment says of stock that the code does not do | properties |
| `OrderMoney` | what payment handling promises: a ledger | abstract |
| `OrderPayments` | sessions, verification, webhooks, finalization, refunds, cancellation, release job | detailed, implements `OrderMoney` |
| `PaymentClaims` | what a document says of payments that the code does not do | properties |
| `GarmentLifecycle` | garment moves, laundry batches, and orders that reserve, release, sell and dispatch, as reads and later writes | detailed |
| `GarmentClaims` | what a comment says of garments that the code does not do | properties |
| `Quotes` | `quote.ts`, `evaluate.ts`, `methods.ts`: totals, discount, delivery fee; and the discount stated without its arithmetic | operators |
| `Checkout` | bag, coupon, review, `placeOrder` around its transaction, and what a payment does to the bag | detailed, uses `Quotes` |
| `WebhookLog` | `handleRazorpayWebhook` and `recordPaymentFailure`: duplicates, retries, dying handlers | detailed |
| `Deposits` | `refundDepositForOrderItem`, `syncPaymentRefundStatus`, refund events | detailed |
| `DepositClaims` | what the README says of deposits that the code does not do | properties |
| `SignIn` | `auth/otp.ts`, `auth/service.ts` | detailed |
| `Fulfilment` | `setOrderStatus`, delivery jobs, the delayed flag, the timeline | detailed |
| `AddressBook` | `addresses/service.ts` and the snapshot an order keeps | detailed |
| `Catalogue` | products, colours, sizes, garments, categories, wishes and lines, with the foreign keys between them | detailed |
| `Charges` | rates, the currency of a request, and the amounts of orders, sessions and refunds | detailed |
| `MCAllocation`, `MCOrderPayments`, `MCGarments`, `MCCheckout`, `MCComponents` | finite instances | model checking |
| `SumTheorems` | sums over finite sets, which quantities and refund totals are | lemmas |
| `BookingsProofs`, `AllocationProofs`, `OrderPaymentsProofs`, `GarmentProofs`, `WebhookLogProofs`, `CheckoutProofs`, `ComponentsProofs` | the theorems about the modules they extend; `ComponentsProofs` is about the composition `MCComponents` | proofs |

### Allocation

A placement is a transaction of several steps: it supersedes the customer's
older unpaid orders (`BeginPlace`), reads candidates without locks
(`ReadCandidates`), takes them one by one with `FOR UPDATE SKIP LOCKED`
(`SkipUnit`, `LockUnit`, the re-check being the guard of `LockUnit`), and commits
(`CommitPlace`) or rolls back (`OutOfStock`, `Rollback`). The re-reservation of a
late payment has the same shape (`BeginLate`, `Relock`, `GiveUpLate`,
`CommitLate`). `lock` is the row lock of a garment; the locks on order rows are
derived from the open transactions (`OrderRowFree`). Other transactions take one
step, enabled when the rows they write are free. The isolation level is
PostgreSQL's read committed: a statement sees what has been committed, and what
its own transaction wrote (`StageSeen`, `ActiveSeen`).

`OrderItem` rows are `items[o]`, a set of bookings (a unit and the line it
serves); they are never deleted, and count while the order is live (`Active`).
Garments are of one colour and size, the case in which orders compete.

### OrderPayments

A worker is a request, a webhook delivery or a job run. One step is one
transaction or one call to the gateway, so every interleaving of two requests
between their calls is explored. `payment`, `refund` and `status` are the rows;
`gateway` and `returned` are what the gateway knows; the `pc` of a job names the
place in the code. The partial unique index is `Blocked`: a claim that would
make a second active payment fails and the request ends in an error. `Crash`
and the faulty branches of gateway calls spend from `MaxFaults`.

Amounts matter as far as the code tells them apart: a payment is given back in parts
(`DepositRead`, `DepositCreate`: a deposit of an order that was packed) or what is left
of it (`RefundRead`, `RefundCreate`), and `RefundSync` sets the payment to
`partially_refunded` or `refunded` by the sum of its refunds that did not fail. A
payment with a deposit given back is no longer in the index, so another payment of
its order, captured late, is claimed and given back as one the order does not need
(`FinalizeRefund`). Money of another amount or currency than was asked for is
`mismatched`: it is kept for review and nothing claims it.

### GarmentLifecycle

Every request that reads a garment and later writes it by id is a read step,
which keeps what it read in `job`, and a write step. `setOrderStatus`,
`closeUnpaidOrder` and `cancelOrder` lock their order's row from the guarded
update to the commit, never the garments they found. `ConfirmLate` is the payment of a
closed order, which takes its garments back first.

History variables, which guard no action, let the properties speak of the past:
`due[u]`, the checks a garment still owes since it was last worn; `left[o]`, the
garments that left with an order; and `lost`, the garments on which an update was
lost, that is written over by a request that had read the garment before it
(`missed[w]`: what others moved since worker `w` read; `Overwrites`). Nothing in the code
keeps two requests from doing that to each other; the properties are about every
garment it has not happened to.

`Allocation` and `GarmentLifecycle` look at the same functions from two sides.
`Allocation` has the calendar and the locks of competing orders, and takes the
unlocked reads of releases, dispatches and operators as current;
`GarmentLifecycle` has no calendar, and lets those reads grow stale.

### Checkout

The bag is `bag[l]`, rows with an identity of their own, because a paid order
deletes the rows it was made from, not what they say. A request that adds to it
works out the quantity from the row as read (`AddRead`, `MergeRead`) and writes
it later (`Put`). The customer reviews an amount and draws a key for it
(`Review`; `LegacyCheckout` for the older entry, which submits no amount), and
any number of submits use the key: `BeginPlace` answers with the order of the key,
`Draft` prices the bag, refuses what differs from the amount reviewed and answers
with an unpaid twin (same fingerprint), `Create` is the transaction, reduced to a
count of free garments since `Allocation` has its locks. `answers` remembers which
order each key was sent to pay; `reviewed` what was shown for it. Prices, the
product, the coupon and the stock change at any time (`Edit`). Payments, also late
ones, write the redemption and empty the bag (`Confirmed`).

### WebhookLog

`record[e]` is the row of an event, unique by its id. A handler inserts or finds
it (`Receive`, `Found`), dispatches, writes the outcome and answers; it may fail
(`Break`, then `Mark`) or die at any step. `handled` and `acked` are history: the
events whose dispatch returned and those answered with 200. A failed attempt is
looked for and then written (`Look`, `Write`), by webhooks and the customer's own
report.

### Deposits, SignIn, Fulfilment, AddressBook, Catalogue, Charges

Each models one component by itself, in the style above: what a request reads is
kept in `clerk`, `request`, `operator`, `reading`, `editor`, `visit` or `opening` until it
writes. They share no rows, so `MCComponents` puts them in one state and lets one
of them move in a behaviour (`part`): interleaving two of them would multiply the
states and reach nothing new, as no step of one changes a variable another reads.
Sign-in is explored in two parts, one without reset links and one without codes,
because the two share no row but the sessions, which both only add and revoke.

`Deposits` says which item a deposit is of, whether it was asked back before
(`Look`), and has the read and the write of `syncPaymentRefundStatus` apart;
`OrderPayments` has the same refunds next to all else that happens to a payment, and
takes the synchronisation as one step. Requests for deposits overlap, also for one item.
`Fulfilment` has the status changes whose garments are in `GarmentLifecycle`.
`Charges` has the sessions of an order (`BeginSession`, `Retire`, `InsertPayment`,
`GiveUp`), its close and a change of gateway again, for what each payment charges: an
order may come to have several payments.

## 3. Runs

| Run | Instance | Distinct states | Shows |
|---|---|---|---|
| `allocation` | 2 garments, 2 orders of one customer, bags that touch, overlap, need two garments, or mix a rental and a purchase, 3 days | 1.3 M | types, no double booking, live holds and how they end, sales, and the refinement of `Bookings` |
| `payments_safety` | 1 order, 2 payments, 3 refunds, 2 workers, and 2 faults, 2 deposits or one of each | 420 k | kept orders are paid, one whole refund, refunds that are owed, the lifecycle, and the refinement of `OrderMoney` |
| `payments_lanes` | two gateways, 2 refunds, 1 of them a deposit, no faults | 1.6 M | nothing is called paid without money, though sessions are retired under way |
| `payments_liveness` | 1 order, 2 payments, 1 refund, 2 workers, 1 fault, fairness | 66 k | every expired hold ends; captured money is claimed; kept money of a cancelled order is refunded |
| `garments` | 1 garment, 2 orders that rent it, 1 that buys it, 1 batch, 2 requests that overlap | 4.8 M | worn garments are checked before they circulate; what needs review stays off the rack; returns are recorded on the right order |
| `checkout` | 1 customer, 2 bag lines, 2 orders, 2 keys, 2 requests, 2 garments, 2 prices, 3 changes: of the bag, or one of them of the shop | 670 k | charged as reviewed, amounts that add up, limits, and a bag and coupon spent by payments only |
| `webhooks` | 3 events (a payment, a failed attempt, one of no order of ours), 2 handlers, 2 faults, fairness | 270 k | what is acknowledged was handled; every event posted is handled in the end; once a failed attempt has an entry, later reports add none |
| `components` | per part: 2 deposits, 2 requests and 1 fault; 2 accounts on 1 phone, 2 codes, 2 attempts; 1 order, 2 jobs, 2 operators; 3 addresses; 1 product, 2 colours, 2 categories, 2 lines, 2 console requests; 1 foreign order, 2 payments, 2 sessions, 2 refreshes | 1.4 M | the properties of `Deposits`, `SignIn`, `Fulfilment`, `AddressBook`, `Catalogue` and `Charges` |

The other runs (`claim_*`) each check one sentence of a comment or document that
the code does not keep; TLC finds a way there. They are the findings of section 7.

**Bounds.** The hazards are races of two actors over one row, so two workers and
two orders produce them. The two orders of `allocation` are one customer's: where their
placements overlap they do not see each other and compete like strangers, and otherwise
the second supersedes the first, whose late payment then competes with it. Two payments
are the least with which the unique index matters; of three refunds two may be
deposits, one of each payment or both of one, and the third what is left (one is enough
where the question is whether money goes back at all); two faults and two deposits at
once are left out (`MCFocus`). Days matter only where a
purchase meets a rental (`now < BufferedEnd`) and where one rental ends on the day the
next begins; `MaxDay` is that day. A single batch already lists a garment that has
moved on, been worn and come back; that two batches may list it at once is left to the
theorem `WornIsChecked`, which has any number. `garments` stops at the first update that
is lost, after which, with one garment, its properties say nothing more; and the buyer
meets one order that rents, and requests one after the other (`MCFocus`): the theorems of
section 5 ask for none of this. `MaxFaults` bounds crashes and outages. One order is
enough in `OrderPayments` because no step relates the rows of two orders; `Allocation`
is where orders meet. In `checkout`, two orders let a second submit supersede, repeat or
follow the first one; three changes let the bag differ at review, draft and payment, or
prices, stock or the coupon change in between (`MCFocus`); a coupon of half the rentals, at most 2, from 3, meets its minimum, its cap and
the limit of free delivery with prices 2 and 3. In `webhooks`, two handlers and two
faults let a late failing duplicate overwrite a settled event, twice. In `components`,
two requests of a kind race, and a third row (address, colour, job) is what a wrong
choice falls on; a deposit is due in full or, by the condition found, not at all; totals 3 and 4 and rates 1/2 and 3/2 round up, down and not at all.
The theorems of
section 5 remove the bounds for the properties they name. Symmetry is used only for
identities no constant tells apart (garments, workers, refunds, bag rows, keys,
orders), in runs without liveness.

**Deadlock** is not checked: in all the models everything may have been cancelled,
sold, refunded, acknowledged or deleted, or the bounds be used up, and then nothing is
left to do.

## 4. Fairness

`OrderPayments!FairSpec` assumes that

- a request that has begun makes progress (`WF` of `Progress`): the process runs,
  and calls to the database and the gateway return or fail;
- a payment the customer authorised is captured and an accepted refund is settled
  (`WF` of `Capture`, `Settle`): the gateway's own promises, automatic capture;
- the gateway repeats an event until it is answered, and the scheduler starts the
  release job every few minutes (`jobs/scheduler.ts`), so a webhook or job run
  that can start again and again does start (`SF`). Strong fairness is needed only
  because the number of workers is a bound of the model: a delivery finds a free
  one again and again, not always;
- time passes (`WF` of `Expire`).

`WebhookLog!Spec` assumes that a handler that began goes on unless it fails or dies
(`WF` of `Proceed`: the process runs), and that the gateway posts an event again until
it is answered with 200 (`SF` of `Redeliver`: retries are its promise, and what the
500 of a failed dispatch asks for; strong because a handler is free again and again,
not always). `WebhookFaults` makes failures finitely many: with an event that fails
for ever there is nothing to settle.

Nothing is assumed of customers, who may never pay, of operators, or of the end
of a refund the gateway refuses. Faults are finitely many by `MaxFaults`.

## 5. Proofs

Every safety property and every refinement the passing runs check is also proved, for
any numbers of garments, orders, bags, days, payments, workers, faults, batches,
customers, keys, codes, addresses and rows. The runs found out first whether a
property, and the invariant its proof needs, holds; the theorem removes the bounds.

**Stock.** `BookingsProofs!CalendarSafe`: whatever books and releases by the rules of
`Calendar`, no garment is promised twice. The rule for one new line against one
old line excludes every clash, and stays excluded as days pass.

`AllocationProofs`: `TypeCorrect`; `PickedStaysFree`; `Refinement` (every step is
a step of `Bookings`); and by the two, `NeverDoubleBooked`. That no garment is
double-booked is not inductive: it says nothing of open transactions. `Inv` adds that
what a transaction has picked is locked by it and is free at this moment, counting
the orders it is about to supersede as gone, and that no two transactions close the
same order. It is kept because a rival booking needs the same garment lock, and a
superseded order cannot be paid while its row is locked. From `Inv`, with `HoldInv`
(nobody owns what is on the rack; a paid order holds rentals only, since what it buys
was sold to it), follow `HoldsStayLive` and `HoldsEndWithTheirOrder`; `OneBuyerEach`
follows from `Inv` and the calendar, in which a purchase excludes all others.

**Payments.** `OrderPaymentsProofs`: `TypeCorrect` and `PaidIsCaptured` hold with any
number of gateways. The others assume `OneLane`, that the configuration names one gateway
(with two, a new session may retire a payment that was recorded meanwhile: section 7).

- `KeptArePaid`, `OnlyOwedRefunds`: the invariant adds to the rows what each request in
  progress may rely on (`JobInv`). Until an order is packed, a payment of it that is being
  refunded stays recorded as paid until the order is marked refunded, and meanwhile the
  unique index lets no other payment reopen the order. Once it is packed, deposits free the
  index and another payment may be claimed and given back; what protects the payment the
  order stands on is that no request looked at it for a whole refund when the order was
  packed, and none may begin to (`KeptInv`): a claim refunds only the payment it claimed,
  and a packed order cannot be cancelled.
- `RefundsOnlyOnce`: nothing locks a payment between reading its refunds and
  writing the row, so the invariant must name who may be in between. `OnceInv`: what
  sends a request there, a claim of a payment the order cannot use or the cancellation of
  the order the payment paid, happens once in the payment's life. Rows of deposits and
  rows of what is left are told apart: of the second there is at most one.
- `LedgerIsKept`: every step is a step of the ledger `OrderMoney` or leaves it alone;
  `HandInv` adds that a refund has one request which still reports on it, and that what
  the shop calls refunded the gateway was asked to return. The sums of refunds rest on
  `SumTheorems`.
- `OrdersMoveAlong`: only the moves of the life cycle, although the step that
  marks an order refunded has no guard of its own.

**Garments.** `GarmentProofs`: `TypeCorrect`, `WornIsChecked`, `RackIsFit`,
`ReturnsRecorded`, for any number of requests that overlap, of every garment on which
no update was lost (`claim_retired` shows a lost one). `Owed` bounds the checks a garment
may owe by its stage alone; `JobInv` says that what a request has read stays good enough
of the garments no other request moved since (`Sure`), because the placements and
confirmations that come between only take garments from the rack.

**Checkout.** `CheckoutProofs`: `RowsKeepShape`, `ChargedWhatWasReviewed`, `OrdersAddUp`,
`CouponSurvives`, `BagSurvives`. What a customer is charged is not inductive: it says
nothing of a placement that has read the bag and not yet inserted its order, nor of a
second key that may be sent to the first one's order. `CheckoutInv` carries the reviewed
amount along that way: a key is reviewed once; a draft agrees with what was reviewed
under its key (`JobsInv`); an order is what its draft was, and its fingerprint is of its
own items and amount (`OrdersInv`), so an equal fingerprint is an equal amount. That
amounts add up rests on two lemmas about `Quotes`: `DiscountIsFair` (the minima of
`evaluate.ts` are the largest discount the coupon allows, rounding included) and
`QuoteAddsUp` (cutting the discount twice cuts it once, and no amount is negative).
That garments are not lent beyond their number needs the quantity of an order to be a
natural number, a sum over its lines and over the orders superseded.

**Webhooks.** `WebhookLogProofs`: `AcknowledgedIsHandled`, whose invariant adds the
settled records and the handlers about to settle one; `RepeatsAddNothing`: once an event
has an entry, the entries and the reports about to write one are together never more than
they were, because a report that looks now finds the entry. Only those that looked before
there was any may still add theirs.

**Components.** `ComponentsProofs` proves of `MCComponents`, part by part:

- `AskingAgain`: a request that looks for a refund of its item finds the row there is,
  also a failed one, so only those that looked before are still on their way to giving.
  `RecordedWasGiven`: as long as no item has two rows (`OneRowEach`; `claim_deposit_once`
  shows two), a request about to call the gateway has the one row of its item, and nothing
  was given back for it (`GivenBehindRows`).
- `PaymentSaysRefunded`: a refund that stands shows in the payment's status, or is on the
  list of a request (`StatusIsUnderWay`); nobody calls a payment refunded while part of it
  was never asked back (`NotYetAll`). The sums are of any number of refunds
  (`SumTheorems`). No serialisation of requests is assumed.
- `AttemptsStayBounded`, `CodesServeOnce`: what was compared with a code is what
  its row counted (`RowsCount`), no two phones have one code (`RowsApart`).
- `GarmentsLeaveOnce`, `PassedStepsAreDated`: what an operator is about to do starts from the
  status read (`MovesAllowed`), and the guarded update fails if it has moved on; so
  the garments of an order have left as often as its status says (`LeftOnce`), and each
  status has behind it the events of those it came by (`PassedIsDated`).
- `OneDefaultAlways`, `OrdersGoWhereAllowed`: the order of the last changes lists the
  saved addresses (`RecencyLists`), so there is one to promote; an order under way keeps
  the row that was checked.
- `NothingEverDangles`: what stands refers to what stands (`RowsStand`); what an editor
  counted is not relied on. `OrdersStay`: a line that was ordered keeps its product (this
  one is proved and checked by no run).
- `WhatIsShownIsCharged`: every payment of an order, however many its sessions made, is of
  the order's amount at the order's rate, and so is every session under way
  (`OpeningsFit`).
- `TypesStay`: the types of all six.

**Assumptions.** Those on constants are named where they are declared (`LinesAssumption`,
`OrderOfAssumption`, `CheckoutAssumption`, `DepositsAssumption`, ...) and evaluated by the
runs. They say that the mark of a missing row is no row, that identities name what they
should, that amounts, prices and rates are whole and not negative, and that orders,
handlers and refunds are finitely many, and that what an order is charged contains its
deposits (`payments/session.ts:65`). One theorem's hypothesis is not an assumption of the
models: `OneLane`, stated in the theorems of `OrderPaymentsProofs` that need it;
`payments_lanes` has two gateways. That no update was lost (`lost`) and that no item has
two rows (`OneRowEach`) are conditions within the properties: about states, not about what
requests may do.

**Sums.** `SumFunctionOnSet` is defined by a choice of the next element. Theorems for
induction that take an operator cannot be instantiated here, so `SumTheorems` has induction
as a statement about a *set* of subsets (`SubsetInduction`, from the well-foundedness of
strict inclusion on finite sets), and proves from it that the choice does not matter.

**Only model-checked**: liveness, that is `HoldsEnd`, `CapturedIsClaimed`,
`RefundsComplete` and `EveryEventSettles`. They need fairness and `ENABLED`, which the
prover does not reason about. The findings of section 7 are counterexamples and have
nothing to prove.

## 6. What the models leave out

- Names, texts, pictures, messages and the transition log; bags of several colours
  and sizes.
- `Allocation`: `cancelled` also stands for `payment_failed`, `shipped` for
  everything after it, `processing` for the stages from returned to ready.
  What comes before the transaction is in `Checkout`.
- `OrderPayments`: which item a deposit is of (`Deposits`), currencies (`Charges`), the
  `WebhookEvent` table and failed attempts (`WebhookLog`), coupons (`Checkout`), what a
  person does with money held for review, and the job's batch of 200. A
  transaction is one step: it starts with a guarded update of the payment or
  order row, which orders it with its rivals; the deadlock two transactions may
  run into by locking those rows in opposite order aborts one of them, which the
  model has as a fault. Garments are not in this model.
- `CapturedIsClaimed` excepts a payment while another one of its order is active:
  one captured after its session was retired may never be claimed, which is the
  finding `claim_late_payment`.
- `GarmentLifecycle`: the garments of one release, dispatch or batch are read in one
  step and written in one step; the code alternates, row by row. Placements and
  confirmations are atomic, because their reads are under locks or in the
  `UPDATE` itself.
- `Checkout`: a key belongs to one customer, so the refusal of a key somebody else used
  (`placement.ts:143`) never comes up; one product of one colour and size, so a line is its mode; dates, sizes
  and addresses of a line; the notices of `revalidateCart`. Garments are a count
  (`free`): the calendar is in `Allocation`. Two confirmations, or a confirmation and
  a submit, are ordered by the locks `Allocation` and `OrderPayments` model.
- `WebhookLog`: the signature check before the log; what an event does is one idempotent
  effect; whether an event is ignored is fixed for each event, where the code may find at
  one delivery what it did not find at another (`razorpay.ts:131`, `razorpay.ts:157`).
- `Deposits`: one order with one payment; the other things that happen to it are in
  `OrderPayments`. `StatusFollowsRefunds` is stated for quiet moments, when no gateway
  call or write failed and some refund stands.
- `SignIn`: cooldowns, daily caps, expiry and wrong passwords only refuse, so the model
  has the choice; hashes, tokens and messages are left out, and a code is its own
  identity: no two codes are alike.
- `AddressBook`: the requests of one customer come one after the other (section 7).
- `Fulfilment`: couriers and zones. `TimelineDated` excepts the return leg, which an
  operator may skip.
- `Catalogue`: of outfits and reviews there are none, as nothing in the program writes
  them.
- `Charges`: a rate is a fraction of a small scale; the rounding is the code's. Looking
  a country up by network address is a choice.

## 7. Findings

Each has a run that ends in a counterexample; the wording and both source lines
are in `PROJECT.json`.

| Run | The code |
|---|---|
| `claim_turnaround` | keeps turnaround days after rentals already booked, not after the one being booked |
| `claim_late_payment` | never records a retired payment that is paid while another stands |
| `claim_retired` | lets a stale move bring a retired garment back |
| `claim_deposit_once` | gives the deposit of an item back twice when two requests for it overlap: it looks for a refund and makes one without a lock or a unique index |

Met while modelling, without a run of their own. Where a module is named, its model
has the steps.

Stock and garments:

- two overlapping checkouts of a customer do not see each other and both stay unpaid,
  with stock (`placement.ts:182`; `docs/CHECKOUT_ORDER_FLOW.md:204` says a new order
  supersedes the older ones): `Allocation`;
- a batch moves its garments to ready without looking at their condition, so one marked
  `needs_review` while it was washed becomes ready (`laundry/service.ts:98`;
  `stateMachine.ts:45` says it must never): `GarmentLifecycle`, where `FitOnRack` still
  keeps it off the rack;
- an operator may reserve a garment for no order (`stateMachine.ts:12`), and no
  releasing path finds it;
- an order ships without a garment that is still out, and takes along one that another
  order, perhaps still unpaid, holds (`console/orders/service.ts:148`; `README.md:96` says
  an unpaid order keeps its stock): the exception in `HoldEndsWithItsOrder`;
- releases and batches write by id what they read without a lock
  (`inventory.ts:100`, `laundry/service.ts:86`), the pattern of `claim_retired`.

Payments and refunds:

- a new session on another lane retires, by id alone, a payment that was recorded as
  paid since it was read (`session.ts:107`; `finalize.ts:33` says nothing undoes it); the
  repeated webhook claims it again, as a duplicate of itself, and its money goes back
  while the order stands (`finalize.ts:23` calls repeats harmless): `OrderPayments` with
  two gateways, which is why the theorems assume `OneLane`;
- a process that dies between the cancellation and the `Refund` row leaves no trace
  of the debt (`finalize.ts:97`; `refunds.ts:34`, "nothing is silently dropped", is about
  refunds that fail): the exception in `RefundsComplete`;
- a payment keeps its status when its only refund is reported failed after it was
  recorded as processed, because `syncPaymentRefundStatus` returns early on a sum of zero
  (`refunds.ts:24`; `refunds.ts:13` says the status follows the sum): the exception in
  `StatusFollowsRefunds`;
- two syncs at once may leave an order that cost nothing but its deposits
  `partially_refunded` though all of it went back (`refunds.ts:26`): `Deposits`, where
  `StatusFollowsRefunds` says which of the two it is only where part was never asked back;
- a deposit refund that failed is returned as it is and never tried again
  (`payments/service.ts:218`): `Deposits`;
- a deposit given back through Stripe is sent in base paise, whatever currency was
  charged (`payments/service.ts:253`; whole refunds convert, `refunds.ts:54`);
- a refund event that comes before the row has its reference is acknowledged and lost
  (`webhooks/razorpay.ts:157`);
- a duplicate that fails late writes `failed` over `processed`
  (`webhooks/razorpay.ts:89`), and reports of one failed attempt that overlap each
  leave an entry (`payments/service.ts:132`; the comment at `payments/service.ts:101` says
  they are recorded once): `WebhookLog`, where `RepeatsAddNoEntry` counts the reports
  under way;
- the release job takes 200 orders in no order: as many whose gateway cannot be reached
  may keep it from the others (`releaseAbandonedReservations.ts:62`).

Bag, coupons and currencies:

- a rate refreshed, or another currency asked for, between review and submit changes
  what a foreign customer is charged: the comparison is in the base currency, and the
  fingerprint has no currency (`placement.ts:153`, `placement.ts:66`;
  `placement.ts:107` says placement refuses if anything moves);
- a currency without a rate is charged one to one in that currency (`fx.ts:70`;
  `fx.ts:58` calls it base-currency pricing), and yen have no minor unit
  (`fx.ts:74`): `Charges` has the first;
- two additions at once lose one of the two, or pass the limit of lines in a bag
  (`cart/service.ts:229`, `cart/service.ts:225`): `Checkout`;
- a coupon's limit may be passed by orders placed while it still applied and paid late,
  and a cancelled order keeps its redemption (`finalize.ts:118`): `Checkout`;
- a paid order deletes the bag rows it was made from, so a quantity raised meanwhile
  is lost, and a line removed and added again stays (`finalize.ts:127`): `Checkout`.

Accounts, delivery, addresses, catalogue:

- two resets with one link both go through, and two requests for a link leave two
  (`auth/service.ts:216`, `auth/service.ts:198`); a sign-in under way during a reset
  begins its session after it: `SignIn`;
- the job that flags deliveries writes by id: one completed meanwhile becomes delayed
  (`delayedDeliveries.ts:16`); an operator may close a rental that never came back
  (`console/orders/service.ts:19`, against the comment above it): `Fulfilment`;
- overlapping requests of one customer may leave no default address
  (`addresses/service.ts:45`); a second default is refused by the index
  `Address_userId_default_unique`;
- a colour whose garments were all sold or retired cannot be deleted, though the check
  lets it pass: the foreign key refuses (`products/service.ts:248`): `Catalogue`.

## 8. Not modelled, and what is left

Not modelled: catalogue reads, analytics and the daily metrics (no state of their own),
customers, couriers, facilities and tiles (single-row edits), notifications and uploads
(messages and files), the HTTP layer; tests, seeds and generated code. The release
job's batch of 200 is modelled for one order.

What is left:

1. The liveness properties stay with TLC (section 5).
2. Without `OneLane` the properties that assume it fail, as section 7 says. What still holds
   of a garment after an update on it was lost, or of an item with two refunds, is not
   stated.
3. The properties of `Deposits`, `SignIn`, `Fulfilment`, `AddressBook`, `Catalogue` and
   `Charges` are proved of their composition. That the composition says no less than the
   components is by its shape: each moves as it would alone.
4. `Allocation` and `GarmentLifecycle` have no common refinement: that the stock `Checkout`
   counts as `free` is the number of garments `Allocation` could book is not stated.
