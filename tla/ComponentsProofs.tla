-------------------------- MODULE ComponentsProofs --------------------------
(***************************************************************************)
(* What the small components promise, for any number of rows and requests: *)
(* deposits, sign-in, fulfilment, addresses, the catalogue and the amounts *)
(* charged.  Each has its inductive invariant: the shape of its tables,    *)
(* how its rows relate to each other, and what a request under way may     *)
(* still rely on of what it read before others went on.  A step of the     *)
(* composition is, for every component, a step of its own or none.         *)
(***************************************************************************)
EXTENDS MCComponents, SumTheorems, SequencesExt, SequenceTheorems

-----------------------------------------------------------------------------
(* Deposits.  Rows never go and never change their item.  As long as no    *)
(* item has two, a request that is about to call the gateway knows that    *)
(* nothing was given back for the item, and a payment is called refunded   *)
(* only when every deposit has its row.  However many rows an item has, a  *)
(* refund that stands shows in the payment or is on some request's list.   *)

PayStatuses == {"paid", "partially_refunded", "refunded"}
Deposits == SumFunctionOnSet(ItemDeposit, Items)

ClerkRow ==
  {Deposit!Waiting}
    \cup [pc : {"look", "create"}, item : Items, amount : Nat, linked : BOOLEAN]
    \cup [pc : {"call", "record", "sync"}, item : Items, row : Refunds, guarded : BOOLEAN]
    \cup [pc : {"write"}, item : Items, row : Refunds, guarded : BOOLEAN, status : PayStatuses]

DepositTables ==
  /\ grade \in [Items -> 0..100]
  /\ returned \subseteq Items
  /\ refund \in [Refunds -> Deposit!RefundRow \cup {NoRefund}]
  /\ payStatus \in PayStatuses
  /\ clerk \in [Clerks -> ClerkRow]
  /\ given \in [Items -> Nat]
  /\ refundFaults \in Nat

RowsFit == \A r \in Deposit!Made : refund[r].amount <= ItemDeposit[refund[r].item]

(* A row is worked on by the request that wrote it.                        *)
AtGateway == {"call", "record"}

WorkerEach ==
  \A c, d \in Clerks :
    clerk[c].pc \in AtGateway /\ clerk[d].pc \in AtGateway /\ clerk[c].row = clerk[d].row => c = d

(* What a request has read, or done so far, stays true until it goes on.   *)
ClerkKnows(q) ==
  /\ q.pc \in {"look", "create"} => q.amount <= ItemDeposit[q.item]
  /\ q.pc \in {"call", "record", "sync", "write"} => q.row \in Deposit!Made /\ refund[q.row].item = q.item
  /\ q.pc \in AtGateway => ~refund[q.row].reference /\ refund[q.row].status = "pending"
  /\ q.pc = "call" => q.guarded
  /\ q.pc = "record" /\ ~q.guarded => refund[q.row].amount = 0 \/ ~refund[q.row].linked
  /\ q.pc \in {"sync", "write"} /\ q.guarded => refund[q.row].reference
  /\ q.pc = "write" => q.status # "paid"

NoRowYet(i) == \A r \in Deposit!Made : refund[r].item # i

RefundedMeansAll(s) == s = "refunded" => \A i \in Items : ItemDeposit[i] > 0 => ~NoRowYet(i)

(* What it may rely on besides while no item has two rows.                 *)
KnowsMore(q) ==
  /\ q.pc \in {"look", "create"} => q.linked \/ q.amount = 0 \/ ~NoRowYet(q.item)
  /\ q.pc = "call" => given[q.item] = 0
  /\ q.pc = "record" => given[q.item] = IF q.guarded THEN 1 ELSE 0
  /\ q.pc = "write" => RefundedMeansAll(q.status)

RowsLinked == \A r \in Deposit!Made : refund[r].linked \/ refund[r].amount = 0

GivenBehindRows ==
  /\ \A i \in Items : given[i] <= 1 /\ (NoRowYet(i) => given[i] = 0)
  /\ \A r \in Deposit!Made :
       refund[r].reference \/ (refund[r].status = "processed" /\ refund[r].amount > 0) => given[refund[r].item] = 1

Single ==
  /\ RowsLinked /\ GivenBehindRows /\ RefundedMeansAll(payStatus)
  /\ \A c \in Clerks : KnowsMore(clerk[c])

Stands(r) == refund[r].linked /\ refund[r].status # "failed" /\ refund[r].amount > 0

(* A refund that stands shows in the payment's status, or soon will.       *)
Listed(r) ==
  \/ payStatus # "paid"
  \/ \E c \in Clerks : \/ clerk[c].pc \in {"call", "record", "sync"} /\ clerk[c].row = r
                       \/ clerk[c].pc = "write"

StatusIsUnderWay == refundFaults = 0 => \A r \in Deposit!Made : Stands(r) => Listed(r)

(* Nobody calls a payment refunded while part of it was never asked back.  *)
NotYetAll ==
  Deposit!Asked < AmountPaid =>
    /\ payStatus # "refunded"
    /\ \A c \in Clerks : clerk[c].pc = "write" => clerk[c].status # "refunded"

DepositInv ==
  /\ DepositTables /\ RowsFit /\ WorkerEach
  /\ \A c \in Clerks : ClerkKnows(clerk[c])
  /\ Deposit!OneRowEach => Single
  /\ StatusIsUnderWay /\ NotYetAll

-----------------------------------------------------------------------------
LEMMA DepositIsWhole ==
  ASSUME NEW d \in Nat, NEW g \in 0..100
  PROVE  (d * g + 50) \div 100 \in Nat /\ (d * g + 50) \div 100 <= d
<1>1. PICK n \in Nat : n = d * g
  OBVIOUS
<1>2. n <= 100 * d
  <2>1. PICK k \in Nat : k = 100 - g
    OBVIOUS
  <2>2. d * k \in Nat /\ d * k = 100 * d - d * g
    BY <2>1
  <2>. QED
    BY <1>1, <2>2
<1>3. (n + 50) \div 100 \in Nat /\ (n + 50) \div 100 <= d
  BY <1>2
<1>. QED
  BY <1>1, <1>3

LEMMA Sums ==
  /\ \A f, S : Deposit!SumFunctionOnSet(f, S) = SumOver(f, S)
  /\ \A f, S : SumFunctionOnSet(f, S) = SumOver(f, S)
BY DEF Deposit!SumFunctionOnSet, Deposit!FoldFunctionOnSet, Deposit!MapThenFoldSet,
       SumOver, SumFunctionOnSet, FoldFunctionOnSet, MapThenFoldSet

LEMMA RowsAre ==
  ASSUME DepositInv
  PROVE  /\ Deposit!Made \subseteq Refunds /\ IsFiniteSet(Deposit!Made)
         /\ \A r \in Deposit!Made : /\ refund[r] \in Deposit!RefundRow
                                    /\ refund[r].item \in Items /\ refund[r].amount \in Nat
                                    /\ refund[r].linked \in BOOLEAN /\ refund[r].reference \in BOOLEAN
                                    /\ refund[r].amount <= ItemDeposit[refund[r].item]
<1>1. Deposit!Made \subseteq Refunds
  BY DEF Deposit!Made
<1>2. IsFiniteSet(Deposit!Made)
  BY <1>1, DepositsAssumption, FS_Subset
<1>3. \A r \in Deposit!Made : refund[r] \in Deposit!RefundRow /\ refund[r].amount <= ItemDeposit[refund[r].item]
  BY DEF DepositInv, DepositTables, RowsFit, Deposit!Made
<1>. QED
  BY <1>1, <1>2, <1>3 DEF Deposit!RefundRow

(* What the refunds of a payment add up to.                                *)
LEMMA RefundTotals ==
  ASSUME DepositInv
  PROVE  /\ Deposit!RefundTotal \in Nat /\ Deposit!Asked \in Nat
         /\ Deposit!RefundTotal <= Deposit!Asked
         /\ Deposit!RefundTotal > 0 <=> \E r \in Deposit!Made : Stands(r)
<1>. DEFINE amount == [r \in Deposit!Made |-> refund[r].amount]
            rows == {r \in Deposit!Made : refund[r].linked /\ refund[r].status # "failed"}
            all == {r \in Deposit!Made : refund[r].linked}
            same == [r \in Deposit!Made |-> r]
<1>1. PICK f : f = amount
  OBVIOUS
<1>2. PICK T, A : T = rows /\ A = all
  OBVIOUS
<1>3. PICK m : m = same
  OBVIOUS
<1>4. Deposit!RefundTotal = SumOver(f, T) /\ Deposit!Asked = SumOver(f, A)
  BY <1>1, <1>2, Sums DEF Deposit!RefundTotal, Deposit!Asked
<1>5. IsFiniteSet(T) /\ IsFiniteSet(A)
  <2>1. T \subseteq Deposit!Made /\ A \subseteq Deposit!Made
    BY <1>2
  <2>. QED
    BY <2>1, RowsAre, FS_Subset
<1>6. /\ \A r \in A : f[r] \in Nat
      /\ \A r \in T : f[r] \in Nat /\ m[r] \in A /\ f[r] <= f[m[r]]
      /\ \A r, s \in T : m[r] = m[s] => r = s
  BY <1>1, <1>2, <1>3, RowsAre
<1>7. SumOver(f, T) \in Nat /\ SumOver(f, A) \in Nat
  BY <1>5, <1>6, SumIsNat
<1>8. SumOver(f, T) <= SumOver(f, A)
  BY <1>5, <1>6, SumIsBounded
<1>9. ASSUME NEW r \in Deposit!Made, Stands(r)
      PROVE  SumOver(f, T) > 0
  <2>1. r \in T /\ f[r] > 0
    BY <1>1, <1>2, <1>9 DEF Stands
  <2>2. SumOver(f, T) >= f[r]
    BY <1>5, <1>6, <2>1, SumHasItsTerms
  <2>. QED
    BY <1>6, <1>7, <2>1, <2>2
<1>10. ASSUME \A r \in Deposit!Made : ~Stands(r)
       PROVE  SumOver(f, T) = 0
  <2>1. \A r \in T : f[r] = 0
    BY <1>1, <1>2, <1>6, <1>10 DEF Stands
  <2>. QED
    BY <1>5, <2>1, SumOfZeros
<1>. QED
  BY <1>4, <1>7, <1>8, <1>9, <1>10

(* Only the refunds of every deposit cover what was paid.                  *)
LEMMA AllAreRefunded ==
  ASSUME DepositInv, Deposit!OneRowEach, Deposit!RefundTotal >= AmountPaid
  PROVE  \A i \in Items : ItemDeposit[i] > 0 => ~NoRowYet(i)
<1>. DEFINE amount == [r \in Deposit!Made |-> refund[r].amount]
            rows == {r \in Deposit!Made : refund[r].linked /\ refund[r].status # "failed"}
            item == [r \in Deposit!Made |-> refund[r].item]
<1>1. PICK f : f = amount
  OBVIOUS
<1>2. PICK T : T = rows
  OBVIOUS
<1>3. PICK m : m = item
  OBVIOUS
<1>4. /\ Deposit!RefundTotal = SumOver(f, T)
      /\ SumOver(f, T) >= SumOver(ItemDeposit, Items)
  <2>1. Deposit!RefundTotal = SumOver(f, T)
    BY <1>1, <1>2, Sums DEF Deposit!RefundTotal
  <2>2. AmountPaid >= SumOver(ItemDeposit, Items) /\ AmountPaid \in Nat
    BY DepositsAssumption, Sums
  <2>3. IsFiniteSet(Items) /\ \A i \in Items : ItemDeposit[i] \in Nat
    BY DepositsAssumption
  <2>4. SumOver(ItemDeposit, Items) \in Nat
    BY <2>3, SumIsNat
  <2>. QED
    BY <2>1, <2>2, <2>4, RefundTotals
<1>5. IsFiniteSet(T)
  <2>1. T \subseteq Deposit!Made
    BY <1>2
  <2>. QED
    BY <2>1, RowsAre, FS_Subset
<1>6. /\ \A r \in T : f[r] \in Nat /\ m[r] \in Items /\ f[r] <= ItemDeposit[m[r]]
      /\ \A r, s \in T : m[r] = m[s] => r = s
  <2>1. \A r \in T : r \in Deposit!Made /\ f[r] = refund[r].amount /\ m[r] = refund[r].item
    BY <1>1, <1>2, <1>3
  <2>2. \A r, s \in Deposit!Made : refund[r].item = refund[s].item => r = s
    BY DEF Deposit!OneRowEach
  <2>. QED
    BY <2>1, <2>2, RowsAre
<1>. SUFFICES ASSUME NEW i \in Items, ItemDeposit[i] > 0, NoRowYet(i) PROVE FALSE
  OBVIOUS
<1>7. PICK J : J = Items \ {i}
  OBVIOUS
<1>8. IsFiniteSet(Items) /\ \A j \in Items : ItemDeposit[j] \in Nat
  BY DepositsAssumption
<1>9. /\ IsFiniteSet(J) /\ \A j \in J : ItemDeposit[j] \in Nat
      /\ SumOver(ItemDeposit, J) \in Nat
      /\ SumOver(ItemDeposit, Items) = ItemDeposit[i] + SumOver(ItemDeposit, J)
  BY <1>7, <1>8, FS_Subset, SumIsNat, SumSteps
<1>10. \A r \in T : m[r] \in J
  BY <1>2, <1>3, <1>6, <1>7 DEF NoRowYet
<1>11. SumOver(f, T) <= SumOver(ItemDeposit, J) /\ SumOver(f, T) \in Nat
  BY <1>5, <1>6, <1>9, <1>10, SumIsBounded, SumIsNat
<1>. QED
  BY <1>4, <1>8, <1>9, <1>11

(* Rows that stay, with their item and amount: what was asked back never   *)
(* gets less, and two rows of an item stay two.                            *)
RowsStay ==
  \A r \in Deposit!Made : /\ r \in Deposit!Made'
                          /\ refund'[r].item = refund[r].item /\ refund'[r].amount = refund[r].amount
                          /\ refund'[r].linked = refund[r].linked

LEMMA AskedGrows ==
  ASSUME DepositInv, RowsStay, DepositTables'
  PROVE  /\ Deposit!Asked' < AmountPaid => Deposit!Asked < AmountPaid
         /\ Deposit!OneRowEach' => Deposit!OneRowEach
         /\ \A i : ~NoRowYet(i) => ~NoRowYet(i)'
         /\ \A s : RefundedMeansAll(s) => RefundedMeansAll(s)'
<1>. DEFINE amount == [r \in Deposit!Made |-> refund[r].amount]
            all == {r \in Deposit!Made : refund[r].linked}
            same == [r \in Deposit!Made |-> r]
<1>1. PICK f, S, m : f = amount /\ S = all /\ m = same
  OBVIOUS
<1>2. PICK g, T : g = amount' /\ T = all'
  OBVIOUS
<1>3. Deposit!Asked = SumOver(f, S) /\ Deposit!Asked' = SumOver(g, T)
  BY <1>1, <1>2, Sums DEF Deposit!Asked
<1>4. IsFiniteSet(S) /\ IsFiniteSet(T)
  <2>1. S \subseteq Refunds /\ T \subseteq Refunds
    BY <1>1, <1>2 DEF Deposit!Made
  <2>. QED
    BY <2>1, DepositsAssumption, FS_Subset
<1>5. \A r \in Deposit!Made' : refund'[r].amount \in Nat
  BY DEF DepositTables, Deposit!Made, Deposit!RefundRow
<1>6. /\ \A r \in T : g[r] \in Nat
      /\ \A r \in S : f[r] \in Nat /\ m[r] = r /\ r \in T /\ f[r] = g[r]
  BY <1>1, <1>2, <1>5, RowsAre DEF RowsStay
<1>7. SumOver(f, S) <= SumOver(g, T)
  <2>1. \A r \in S : m[r] \in T /\ f[r] <= g[m[r]]
    BY <1>6
  <2>2. \A r, s \in S : m[r] = m[s] => r = s
    BY <1>6
  <2>. QED
    BY <1>4, <1>6, <2>1, <2>2, SumIsBounded
<1>8. SumOver(f, S) \in Nat /\ SumOver(g, T) \in Nat /\ AmountPaid \in Nat
  BY <1>4, <1>6, SumIsNat, DepositsAssumption
<1>9. Deposit!OneRowEach' => Deposit!OneRowEach
  BY DEF Deposit!OneRowEach, RowsStay
<1>10. \A i : ~NoRowYet(i) => ~NoRowYet(i)'
  BY DEF NoRowYet, RowsStay
<1>. QED
  BY <1>3, <1>7, <1>8, <1>9, <1>10 DEF RefundedMeansAll

LEMMA ClerkPlaces ==
  ASSUME NEW q \in ClerkRow
  PROVE  /\ q.pc \in {"look", "create"} => q.item \in Items /\ q.amount \in Nat /\ q.linked \in BOOLEAN
         /\ q.pc = "look" => [q EXCEPT !.pc = "create"] =
                               [pc |-> "create", item |-> q.item, amount |-> q.amount, linked |-> q.linked]
         /\ q.pc \in {"call", "record", "sync", "write"} => q.item \in Items /\ q.row \in Refunds /\ q.guarded \in BOOLEAN
         /\ q.pc = "call" => [q EXCEPT !.pc = "record"] =
                               [pc |-> "record", item |-> q.item, row |-> q.row, guarded |-> q.guarded]
         /\ q.pc = "record" => [q EXCEPT !.pc = "sync"] =
                                 [pc |-> "sync", item |-> q.item, row |-> q.row, guarded |-> q.guarded]
         /\ q.pc = "write" => q.status \in PayStatuses
BY DEF ClerkRow, Deposit!Waiting

LEMMA RowsRewritten ==
  ASSUME NEW q \in Deposit!RefundRow, NEW s
  PROVE  /\ [q EXCEPT !.status = s] =
              [item |-> q.item, amount |-> q.amount, linked |-> q.linked, reference |-> q.reference, status |-> s]
         /\ q.item \in Items /\ q.amount \in Nat /\ q.linked \in BOOLEAN /\ q.reference \in BOOLEAN
BY DEF Deposit!RefundRow

LEMMA ClerkGoes ==
  ASSUME DepositInv, NEW c \in Clerks, NEW to, to \in ClerkRow, clerk' = [clerk EXCEPT ![c] = to],
         to.pc \in AtGateway => \A d \in Clerks \ {c} : clerk[d].pc \in AtGateway => clerk[d].row # to.row
  PROVE  /\ clerk' \in [Clerks -> ClerkRow] /\ WorkerEach'
         /\ clerk'[c] = to /\ \A d \in Clerks \ {c} : clerk'[d] = clerk[d]
BY DEF DepositInv, DepositTables, WorkerEach

LEMMA WaitingIsFine ==
  /\ Deposit!Waiting \in ClerkRow /\ Deposit!Waiting.pc = "waiting"
  /\ ClerkKnows(Deposit!Waiting) /\ KnowsMore(Deposit!Waiting)
BY DEF ClerkRow, ClerkKnows, KnowsMore, Deposit!Waiting, AtGateway

LEMMA WhatIsKnown ==
  ASSUME DepositInv, NEW c \in Clerks
  PROVE  clerk[c] \in ClerkRow /\ ClerkKnows(clerk[c]) /\ (Deposit!OneRowEach => KnowsMore(clerk[c]))
BY DEF DepositInv, DepositTables, Single

-----------------------------------------------------------------------------
(* What another request knows outlasts a step that keeps the rows there    *)
(* are and leaves alone the row it is working on.                          *)
LEMMA OtherKnows ==
  ASSUME DepositInv, RowsStay, NEW d \in Clerks,
         clerk[d].pc \in AtGateway => refund'[clerk[d].row] = refund[clerk[d].row],
         clerk[d].pc \in {"sync", "write"} /\ clerk[d].guarded => refund'[clerk[d].row].reference,
         NEW q, q = clerk[d]
  PROVE  /\ q.pc \in {"look", "create"} => q.amount <= ItemDeposit[q.item]
         /\ q.pc \in {"call", "record", "sync", "write"} => q.row \in Deposit!Made' /\ refund'[q.row].item = q.item
         /\ q.pc \in AtGateway => ~refund'[q.row].reference /\ refund'[q.row].status = "pending"
         /\ q.pc = "call" => q.guarded
         /\ q.pc = "record" /\ ~q.guarded => refund'[q.row].amount = 0 \/ ~refund'[q.row].linked
         /\ q.pc \in {"sync", "write"} /\ q.guarded => refund'[q.row].reference
         /\ q.pc = "write" => q.status # "paid"
BY WhatIsKnown DEF RowsStay, ClerkKnows, AtGateway

(* How the parts of the invariant go on together: c is the request that    *)
(* moves.                                                                  *)
LEMMA DepositGoesOn ==
  ASSUME DepositInv, DepositTables', RowsStay, NEW c \in Clerks,
         RowsFit', WorkerEach', StatusIsUnderWay', ClerkKnows(clerk[c])',
         \A d \in Clerks \ {c} : clerk'[d] = clerk[d],
         \A d \in Clerks \ {c} : clerk[d].pc \in AtGateway => refund'[clerk[d].row] = refund[clerk[d].row],
         \A d \in Clerks \ {c} :
           clerk[d].pc \in {"sync", "write"} /\ clerk[d].guarded => refund'[clerk[d].row].reference,
         Deposit!Asked < AmountPaid =>
           payStatus' # "refunded" /\ (clerk'[c].pc = "write" => clerk'[c].status # "refunded"),
         Deposit!OneRowEach' =>
           /\ RowsLinked' /\ GivenBehindRows' /\ RefundedMeansAll(payStatus)' /\ KnowsMore(clerk[c])'
           /\ \A d \in Clerks \ {c} : clerk[d].pc \in AtGateway => given'[clerk[d].item] = given[clerk[d].item]
  PROVE  DepositInv'
<1>1. ASSUME NEW d \in Clerks PROVE ClerkKnows(clerk[d])'
  <2>1. CASE d = c
    BY <2>1 DEF ClerkKnows
  <2>2. CASE d # c
    <3>1. PICK q : q = clerk[d] /\ q = clerk'[d]
      BY <2>2
    <3>2. /\ q.pc \in {"look", "create"} => q.amount <= ItemDeposit[q.item]
          /\ q.pc \in {"call", "record", "sync", "write"} => q.row \in Deposit!Made' /\ refund'[q.row].item = q.item
          /\ q.pc \in AtGateway => ~refund'[q.row].reference /\ refund'[q.row].status = "pending"
          /\ q.pc = "call" => q.guarded
          /\ q.pc = "record" /\ ~q.guarded => refund'[q.row].amount = 0 \/ ~refund'[q.row].linked
          /\ q.pc \in {"sync", "write"} /\ q.guarded => refund'[q.row].reference
          /\ q.pc = "write" => q.status # "paid"
      BY <2>2, <3>1, OtherKnows
    <3>. QED
      BY <3>1, <3>2 DEF ClerkKnows
  <2>. QED
    BY <2>1, <2>2
<1>2. NotYetAll'
  BY AskedGrows DEF NotYetAll, DepositInv
<1>3. ASSUME Deposit!OneRowEach' PROVE Single'
  <2>1. Deposit!OneRowEach
    BY <1>3, AskedGrows
  <2>2. ASSUME NEW d \in Clerks PROVE KnowsMore(clerk[d])'
    <3>1. CASE d = c
      BY <1>3, <3>1 DEF KnowsMore
    <3>2. CASE d # c
      <4>1. PICK q : q = clerk[d] /\ q = clerk'[d]
        BY <3>2
      <4>2. KnowsMore(q)
        BY <2>1, <4>1, WhatIsKnown
      <4>3. q.pc \in AtGateway => given'[q.item] = given[q.item]
        BY <1>3, <3>2, <4>1
      <4>4. /\ q.pc \in {"look", "create"} => q.linked \/ q.amount = 0 \/ ~NoRowYet(q.item)'
            /\ q.pc = "call" => given'[q.item] = 0
            /\ q.pc = "record" => given'[q.item] = IF q.guarded THEN 1 ELSE 0
            /\ q.pc = "write" => RefundedMeansAll(q.status)'
        BY <4>2, <4>3, AskedGrows DEF KnowsMore, AtGateway
      <4>. QED
        BY <4>1, <4>4 DEF KnowsMore, NoRowYet, RefundedMeansAll
    <3>. QED
      BY <3>1, <3>2
  <2>. QED
    BY <1>3, <2>2 DEF Single
<1>. QED
  BY <1>1, <1>2, <1>3 DEF DepositInv

(* Steps of a request that change nothing else.                            *)
LEMMA OnlyClerkGoes ==
  ASSUME DepositInv, NEW c \in Clerks, NEW to, to \in ClerkRow, clerk' = [clerk EXCEPT ![c] = to],
         to.pc \notin AtGateway, UNCHANGED <<grade, returned, refund, payStatus, given, refundFaults>>,
         ClerkKnows(to), Deposit!OneRowEach => KnowsMore(to),
         Deposit!Asked < AmountPaid => (to.pc = "write" => to.status # "refunded"),
         StatusIsUnderWay'
  PROVE  DepositInv'
<1>1. /\ clerk' \in [Clerks -> ClerkRow] /\ WorkerEach'
      /\ clerk'[c] = to /\ \A d \in Clerks \ {c} : clerk'[d] = clerk[d]
  BY ClerkGoes
<1>2. DepositTables' /\ RowsFit' /\ RowsStay /\ Deposit!Made' = Deposit!Made
  BY <1>1 DEF DepositInv, DepositTables, RowsFit, RowsStay, Deposit!Made
<1>3. ClerkKnows(clerk[c])'
  BY <1>1, <1>2 DEF ClerkKnows
<1>4. ASSUME Deposit!OneRowEach'
      PROVE  RowsLinked' /\ GivenBehindRows' /\ RefundedMeansAll(payStatus)' /\ KnowsMore(clerk[c])'
  <2>1. Deposit!OneRowEach /\ Single
    BY <1>2, <1>4, AskedGrows DEF DepositInv
  <2>. QED
    BY <1>1, <1>2, <2>1 DEF Single, RowsLinked, GivenBehindRows, RefundedMeansAll, KnowsMore, NoRowYet
<1>5. \A d \in Clerks \ {c} :
        clerk[d].pc \in {"sync", "write"} /\ clerk[d].guarded => refund'[clerk[d].row].reference
  BY WhatIsKnown DEF ClerkKnows
<1>6. Deposit!Asked < AmountPaid =>
        payStatus' # "refunded" /\ (clerk'[c].pc = "write" => clerk'[c].status # "refunded")
  BY <1>1 DEF DepositInv, NotYetAll
<1>. QED
  BY <1>1, <1>2, <1>3, <1>4, <1>5, <1>6, DepositGoesOn

-----------------------------------------------------------------------------
LEMMA ReturnsStep ==
  ASSUME DepositInv, NEW i \in Items,
         Deposit!Return(i) \/ \E g \in Grades : Deposit!Inspect(i, g)
  PROVE  DepositInv'
<1>1. UNCHANGED <<refund, payStatus, clerk, given, refundFaults>>
  BY DEF Deposit!Return, Deposit!Inspect
<1>2. grade' \in [Items -> 0..100] /\ returned' \subseteq Items
  BY DepositsAssumption DEF Deposit!Return, Deposit!Inspect, DepositInv, DepositTables
<1>. QED
  BY <1>1, <1>2 DEF DepositInv, DepositTables, RowsFit, WorkerEach, ClerkKnows, Deposit!OneRowEach, Single, RowsLinked,
     GivenBehindRows, RefundedMeansAll, KnowsMore, NoRowYet, StatusIsUnderWay, Stands, Listed, NotYetAll, Deposit!Asked,
     Deposit!Made

LEMMA ReadStep ==
  ASSUME DepositInv, NEW c \in Clerks, NEW i \in Items, Deposit!Read(c, i)
  PROVE  DepositInv'
<1>1. PICK to : to = [pc |-> "look", item |-> i, amount |-> (ItemDeposit[i] * grade[i] + 50) \div 100,
                      linked |-> Deposit!Refundable(payStatus)]
  OBVIOUS
<1>2. /\ clerk' = [clerk EXCEPT ![c] = to]
      /\ clerk[c] = Deposit!Waiting
      /\ UNCHANGED <<grade, returned, refund, payStatus, given, refundFaults>>
  BY <1>1 DEF Deposit!Read, Deposit!ToClerk
<1>3. (ItemDeposit[i] * grade[i] + 50) \div 100 \in Nat /\ (ItemDeposit[i] * grade[i] + 50) \div 100 <= ItemDeposit[i]
  BY DepositIsWhole, DepositsAssumption DEF DepositInv, DepositTables
<1>4. /\ to \in ClerkRow /\ to.pc = "look" /\ to.item = i /\ to.amount \in Nat /\ to.amount <= ItemDeposit[i]
      /\ to.linked = Deposit!Refundable(payStatus)
  BY <1>1, <1>3 DEF ClerkRow, Deposit!Refundable
<1>5. Deposit!OneRowEach => to.linked \/ to.amount = 0 \/ ~NoRowYet(i)
  <2>. SUFFICES ASSUME Deposit!OneRowEach PROVE to.linked \/ to.amount = 0 \/ ~NoRowYet(i)
    OBVIOUS
  <2>1. payStatus \in PayStatuses /\ RefundedMeansAll(payStatus) /\ ItemDeposit[i] \in Nat
    BY DepositsAssumption DEF DepositInv, DepositTables, Single
  <2>2. CASE payStatus = "refunded"
    BY <1>4, <2>1, <2>2 DEF RefundedMeansAll
  <2>3. CASE payStatus # "refunded"
    BY <1>4, <2>1, <2>3 DEF Deposit!Refundable, PayStatuses
  <2>. QED
    BY <2>2, <2>3
<1>6. ClerkKnows(to) /\ (Deposit!OneRowEach => KnowsMore(to)) /\ to.pc \notin AtGateway
  BY <1>4, <1>5 DEF ClerkKnows, KnowsMore, AtGateway
<1>7. StatusIsUnderWay'
  BY <1>2, WaitingIsFine DEF DepositInv, DepositTables, StatusIsUnderWay, Listed, Stands, Deposit!Made
<1>. QED
  BY <1>2, <1>4, <1>6, <1>7, OnlyClerkGoes

LEMMA LookStep ==
  ASSUME DepositInv, NEW c \in Clerks, Deposit!Look(c)
  PROVE  DepositInv'
<1>1. /\ clerk[c].pc = "look" /\ clerk[c] \in ClerkRow
      /\ ClerkKnows(clerk[c]) /\ (Deposit!OneRowEach => KnowsMore(clerk[c]))
      /\ UNCHANGED <<grade, returned, refund, payStatus, given, refundFaults>>
  BY WhatIsKnown DEF Deposit!Look
<1>2. ASSUME NEW to, clerk' = [clerk EXCEPT ![c] = to]
      PROVE  StatusIsUnderWay'
  BY <1>1, <1>2 DEF DepositInv, DepositTables, StatusIsUnderWay, Listed, Stands, Deposit!Made
<1>3. CASE Deposit!RefundsOf(clerk[c].item) # {}
  <2>1. clerk' = [clerk EXCEPT ![c] = Deposit!Waiting]
    BY <1>3 DEF Deposit!Look, Deposit!ToClerk
  <2>. QED
    BY <1>1, <1>2, <2>1, WaitingIsFine, OnlyClerkGoes DEF AtGateway
<1>4. CASE Deposit!RefundsOf(clerk[c].item) = {}
  <2>1. PICK to : to = [pc |-> "create", item |-> clerk[c].item, amount |-> clerk[c].amount, linked |-> clerk[c].linked]
    OBVIOUS
  <2>2. clerk' = [clerk EXCEPT ![c] = to]
    BY <1>1, <1>4, <2>1, ClerkPlaces DEF Deposit!Look, Deposit!ToClerk
  <2>3. to \in ClerkRow
    BY <1>1, <2>1, ClerkPlaces DEF ClerkRow
  <2>4. ClerkKnows(to) /\ (Deposit!OneRowEach => KnowsMore(to)) /\ to.pc \notin AtGateway /\ to.pc # "write"
    BY <1>1, <2>1 DEF ClerkKnows, KnowsMore, AtGateway
  <2>. QED
    BY <1>1, <1>2, <2>2, <2>3, <2>4, OnlyClerkGoes
<1>. QED
  BY <1>3, <1>4

-----------------------------------------------------------------------------
(* A request, or a refund event, that rewrites a row.                      *)
LEMMA RowChanges ==
  ASSUME DepositInv, NEW c \in Clerks, NEW r \in Deposit!Made, NEW row \in Deposit!RefundRow, NEW to \in ClerkRow,
         refund' = [refund EXCEPT ![r] = row], clerk' = [clerk EXCEPT ![c] = to],
         UNCHANGED <<grade, returned, payStatus, given>>, refundFaults' \in Nat,
         row.item = refund[r].item /\ row.amount = refund[r].amount /\ row.linked = refund[r].linked,
         Deposit!OneRowEach => 
           (row.reference \/ (row.status = "processed" /\ row.amount > 0) => given[row.item] = 1),
         \/ refund[r].reference /\ row.reference
         \/ clerk[c].pc \in AtGateway /\ clerk[c].row = r,
         to.pc \in {"waiting", "sync"}, ClerkKnows(to)', StatusIsUnderWay'
  PROVE  DepositInv'
<1>1. /\ clerk' \in [Clerks -> ClerkRow] /\ WorkerEach' /\ to.pc \notin AtGateway /\ to.pc # "write"
      /\ clerk'[c] = to /\ \A d \in Clerks \ {c} : clerk'[d] = clerk[d]
  BY ClerkGoes DEF AtGateway
<1>2. /\ r \in Refunds /\ refund[r] # NoRefund /\ row # NoRefund
      /\ refund \in [Refunds -> Deposit!RefundRow \cup {NoRefund}]
      /\ refund' \in [Refunds -> Deposit!RefundRow \cup {NoRefund}]
      /\ refund'[r] = row /\ \A s \in Refunds \ {r} : refund'[s] = refund[s]
  BY DepositsAssumption DEF DepositInv, DepositTables, Deposit!Made, Deposit!RefundRow
<1>3. /\ Deposit!Made' = Deposit!Made
      /\ \A s \in Deposit!Made : s \in Refunds /\ refund'[s].item = refund[s].item
                                  /\ refund'[s].amount = refund[s].amount /\ refund'[s].linked = refund[s].linked
  BY <1>2 DEF Deposit!Made
<1>4. DepositTables' /\ RowsFit' /\ RowsStay
  BY <1>1, <1>2, <1>3 DEF DepositInv, DepositTables, RowsFit, RowsStay
<1>5. ASSUME Deposit!OneRowEach'
      PROVE  RowsLinked' /\ GivenBehindRows' /\ RefundedMeansAll(payStatus)' /\ KnowsMore(to)'
  <2>1. Deposit!OneRowEach /\ Single
    BY <1>4, <1>5, AskedGrows DEF DepositInv
  <2>2. \A i \in Items : NoRowYet(i)' => NoRowYet(i)
    BY <1>3 DEF NoRowYet
  <2>3. \A s \in Deposit!Made : refund'[s].reference \/ (refund'[s].status = "processed" /\ refund'[s].amount > 0)
                               => given[refund'[s].item] = 1
    BY <1>2, <1>3, <2>1 DEF Single, GivenBehindRows
  <2>4. GivenBehindRows' /\ RowsLinked'
    BY <1>3, <2>1, <2>2, <2>3 DEF Single, GivenBehindRows, RowsLinked
  <2>5. RefundedMeansAll(payStatus)'
    BY <1>3, <2>1 DEF Single, RefundedMeansAll, NoRowYet
  <2>6. KnowsMore(to)'
    BY DEF KnowsMore
  <2>. QED
    BY <2>4, <2>5, <2>6
<1>6. ASSUME NEW d \in Clerks \ {c}
      PROVE  /\ clerk[d].pc \in AtGateway => refund'[clerk[d].row] = refund[clerk[d].row]
             /\ clerk[d].pc \in {"sync", "write"} /\ clerk[d].guarded => refund'[clerk[d].row].reference
  <2>1. clerk[d] \in ClerkRow /\ ClerkKnows(clerk[d]) /\ clerk[c] \in ClerkRow /\ ClerkKnows(clerk[c])
    BY WhatIsKnown
  <2>2. ASSUME clerk[d].pc \in AtGateway
        PROVE  refund'[clerk[d].row] = refund[clerk[d].row]
    <3>1. clerk[d].row \in Deposit!Made /\ ~refund[clerk[d].row].reference
      BY <2>1, <2>2 DEF ClerkKnows, AtGateway
    <3>2. clerk[c].pc \in AtGateway /\ clerk[c].row = r => clerk[d].row # r
      BY <2>2 DEF DepositInv, WorkerEach
    <3>. QED
      BY <1>2, <1>3, <3>1, <3>2
  <2>3. ASSUME clerk[d].pc \in {"sync", "write"}, clerk[d].guarded
        PROVE  refund'[clerk[d].row].reference
    <3>1. clerk[d].row \in Deposit!Made /\ refund[clerk[d].row].reference
      BY <2>1, <2>3 DEF ClerkKnows
    <3>2. clerk[c].pc \in AtGateway /\ clerk[c].row = r => ~refund[r].reference
      BY <2>1 DEF ClerkKnows
    <3>. QED
      BY <1>2, <1>3, <3>1, <3>2
  <2>. QED
    BY <2>2, <2>3
<1>7. ClerkKnows(clerk[c])' /\ (KnowsMore(to)' => KnowsMore(clerk[c])')
  BY <1>1 DEF ClerkKnows, KnowsMore
<1>8. Deposit!Asked < AmountPaid =>
        payStatus' # "refunded" /\ (clerk'[c].pc = "write" => clerk'[c].status # "refunded")
  BY <1>1 DEF DepositInv, NotYetAll
<1>. QED
  BY <1>1, <1>4, <1>5, <1>6, <1>7, <1>8, DepositGoesOn

-----------------------------------------------------------------------------
LEMMA CreateStep ==
  ASSUME DepositInv, NEW c \in Clerks, Deposit!Create(c)
  PROVE  DepositInv'
<1>1. /\ clerk[c].pc = "create" /\ clerk[c] \in ClerkRow
      /\ ClerkKnows(clerk[c]) /\ (Deposit!OneRowEach => KnowsMore(clerk[c]))
      /\ UNCHANGED <<grade, returned, payStatus, given, refundFaults>>
  BY WhatIsKnown DEF Deposit!Create
<1>2. PICK i \in Items, n \in Nat, linked \in BOOLEAN :
        /\ i = clerk[c].item /\ n = clerk[c].amount /\ linked = clerk[c].linked
        /\ n <= ItemDeposit[i] /\ (Deposit!OneRowEach => linked \/ n = 0 \/ ~NoRowYet(i))
  BY <1>1, ClerkPlaces DEF ClerkKnows, KnowsMore
<1>3. PICK r \in Refunds \ Deposit!Made :
        /\ refund' = [refund EXCEPT ![r] =
             [item |-> i, amount |-> n, linked |-> linked, reference |-> FALSE, status |-> "pending"]]
        /\ clerk' = [clerk EXCEPT ![c] = [pc |-> IF n > 0 /\ linked THEN "call" ELSE "record",
                                         item |-> i, row |-> r, guarded |-> n > 0 /\ linked]]
  BY <1>2 DEF Deposit!Create, Deposit!ToClerk
<1>4. PICK row : row = [item |-> i, amount |-> n, linked |-> linked, reference |-> FALSE, status |-> "pending"]
  OBVIOUS
<1>5. /\ row \in Deposit!RefundRow /\ row.item = i /\ row.amount = n /\ row.linked = linked
      /\ row.reference = FALSE /\ row.status = "pending"
  BY <1>4 DEF Deposit!RefundRow
<1>6. PICK to : to = [pc |-> IF n > 0 /\ linked THEN "call" ELSE "record", item |-> i, row |-> r,
                      guarded |-> n > 0 /\ linked]
  OBVIOUS
<1>7. /\ to \in ClerkRow /\ to.item = i /\ to.row = r /\ to.pc \in {"call", "record"}
      /\ to.guarded \in BOOLEAN /\ (to.guarded <=> n > 0 /\ linked) /\ (to.pc = "call" <=> n > 0 /\ linked)
  BY <1>3, <1>6 DEF ClerkRow
<1>8. /\ refund \in [Refunds -> Deposit!RefundRow \cup {NoRefund}] /\ row # NoRefund
      /\ refund' \in [Refunds -> Deposit!RefundRow \cup {NoRefund}]
      /\ r \in Refunds /\ refund'[r] = row /\ \A s \in Refunds \ {r} : refund'[s] = refund[s]
  BY <1>3, <1>4, <1>5, DepositsAssumption DEF DepositInv, DepositTables, Deposit!RefundRow
<1>9. /\ Deposit!Made' = Deposit!Made \cup {r} /\ r \notin Deposit!Made /\ Deposit!Made \subseteq Refunds
      /\ \A s \in Deposit!Made : refund'[s] = refund[s] /\ s # r
  BY <1>3, <1>8 DEF Deposit!Made
<1>10. \A d \in Clerks \ {c} : clerk[d].pc \in AtGateway => clerk[d].row \in Deposit!Made
  BY WhatIsKnown DEF ClerkKnows, AtGateway
<1>11. /\ clerk' \in [Clerks -> ClerkRow] /\ WorkerEach'
       /\ clerk'[c] = to /\ \A d \in Clerks \ {c} : clerk'[d] = clerk[d]
  BY <1>3, <1>6, <1>7, <1>9, <1>10, ClerkGoes
<1>12. DepositTables' /\ RowsStay
  BY <1>1, <1>8, <1>9, <1>11 DEF DepositInv, DepositTables, RowsStay
<1>13. RowsFit'
  BY <1>2, <1>5, <1>8, <1>9 DEF DepositInv, RowsFit
<1>14. ClerkKnows(clerk[c])'
  <2>1. r \in Deposit!Made' /\ refund'[r].item = i /\ refund'[r].amount = n /\ refund'[r].linked = linked
        /\ ~refund'[r].reference /\ refund'[r].status = "pending"
    BY <1>5, <1>8, <1>9
  <2>2. ~to.guarded => n = 0 \/ ~linked
    BY <1>2, <1>7
  <2>. QED
    BY <1>7, <1>11, <2>1, <2>2 DEF ClerkKnows, AtGateway
<1>15. ASSUME Deposit!OneRowEach'
       PROVE  RowsLinked' /\ GivenBehindRows' /\ RefundedMeansAll(payStatus)' /\ KnowsMore(clerk[c])'
  <2>1. Deposit!OneRowEach /\ Single
    BY <1>12, <1>15, AskedGrows DEF DepositInv
  <2>2. NoRowYet(i)
    BY <1>5, <1>8, <1>9, <1>15 DEF Deposit!OneRowEach, NoRowYet
  <2>3. given[i] = 0 /\ (linked \/ n = 0)
    BY <1>2, <2>1, <2>2 DEF Single, GivenBehindRows
  <2>4. RowsLinked'
    BY <1>5, <1>8, <1>9, <2>1, <2>3 DEF Single, RowsLinked
  <2>5. GivenBehindRows'
    <3>1. \A j \in Items : NoRowYet(j)' => NoRowYet(j)
      BY <1>9 DEF NoRowYet
    <3>2. \A s \in Deposit!Made' : refund'[s].reference \/ (refund'[s].status = "processed" /\ refund'[s].amount > 0)
                                  => given[refund'[s].item] = 1
      BY <1>5, <1>8, <1>9, <2>1 DEF Single, GivenBehindRows
    <3>. QED
      BY <1>1, <2>1, <3>1, <3>2 DEF Single, GivenBehindRows
  <2>6. RefundedMeansAll(payStatus)'
    BY <1>1, <1>9, <2>1 DEF Single, RefundedMeansAll, NoRowYet
  <2>7. KnowsMore(clerk[c])'
    <3>1. to.pc = "record" => ~to.guarded
      BY <1>7
    <3>. QED
      BY <1>1, <1>7, <1>11, <2>3, <3>1 DEF KnowsMore
  <2>. QED
    BY <2>4, <2>5, <2>6, <2>7
<1>16. ASSUME NEW d \in Clerks \ {c}
       PROVE  /\ clerk[d].pc \in AtGateway => refund'[clerk[d].row] = refund[clerk[d].row]
              /\ clerk[d].pc \in {"sync", "write"} /\ clerk[d].guarded => refund'[clerk[d].row].reference
  <2>1. clerk[d] \in ClerkRow /\ ClerkKnows(clerk[d])
    BY WhatIsKnown
  <2>. QED
    BY <1>9, <1>10, <2>1 DEF ClerkKnows
<1>17. StatusIsUnderWay'
  <2>. SUFFICES ASSUME refundFaults' = 0, NEW s \in Deposit!Made', Stands(s)' PROVE Listed(s)'
    BY DEF StatusIsUnderWay
  <2>1. CASE s = r
    BY <1>7, <1>11, <2>1 DEF Listed
  <2>2. CASE s # r
    <3>1. s \in Deposit!Made /\ Stands(s)
      BY <1>9, <2>2 DEF Stands
    <3>2. Listed(s)
      BY <1>1, <3>1 DEF DepositInv, StatusIsUnderWay
    <3>. QED
      BY <1>1, <1>11, <3>2 DEF Listed
  <2>. QED
    BY <2>1, <2>2
<1>18. Deposit!Asked < AmountPaid =>
         payStatus' # "refunded" /\ (clerk'[c].pc = "write" => clerk'[c].status # "refunded")
  BY <1>1, <1>7, <1>11 DEF DepositInv, NotYetAll
<1>19. \A d \in Clerks \ {c} : clerk[d].pc \in AtGateway => given'[clerk[d].item] = given[clerk[d].item]
  BY <1>1
<1>. QED
  BY <1>11, <1>12, <1>13, <1>14, <1>15, <1>16, <1>17, <1>18, <1>19, DepositGoesOn

LEMMA CallStep ==
  ASSUME DepositInv, NEW c \in Clerks, Deposit!CallGateway(c)
  PROVE  DepositInv'
<1>1. /\ clerk[c].pc = "call" /\ clerk[c] \in ClerkRow
      /\ ClerkKnows(clerk[c]) /\ (Deposit!OneRowEach => KnowsMore(clerk[c]))
      /\ UNCHANGED <<grade, returned, refund, payStatus, refundFaults>>
  BY WhatIsKnown DEF Deposit!CallGateway
<1>2. PICK i \in Items, r \in Refunds :
        /\ i = clerk[c].item /\ r = clerk[c].row /\ r \in Deposit!Made /\ refund[r].item = i
        /\ ~refund[r].reference /\ refund[r].status = "pending" /\ clerk[c].guarded
        /\ Deposit!OneRowEach => given[i] = 0
  BY <1>1, ClerkPlaces DEF ClerkKnows, KnowsMore, AtGateway
<1>3. PICK to : to = [pc |-> "record", item |-> i, row |-> r, guarded |-> TRUE]
  OBVIOUS
<1>4. /\ clerk' = [clerk EXCEPT ![c] = to] /\ given' = [given EXCEPT ![i] = @ + 1]
      /\ to \in ClerkRow /\ to.pc = "record" /\ to.item = i /\ to.row = r /\ to.guarded
  <2>1. [clerk[c] EXCEPT !.pc = "record"] = to
    <3>1. clerk[c].guarded = TRUE
      BY <1>1, <1>2, ClerkPlaces
    <3>. QED
      BY <1>1, <1>2, <1>3, <3>1, ClerkPlaces
  <2>2. clerk' = [clerk EXCEPT ![c] = to]
    BY <2>1 DEF Deposit!CallGateway, Deposit!ToClerk
  <2>3. given' = [given EXCEPT ![i] = @ + 1]
    BY <1>2 DEF Deposit!CallGateway
  <2>. QED
    BY <1>3, <2>2, <2>3 DEF ClerkRow
<1>5. \A d \in Clerks \ {c} : clerk[d].pc \in AtGateway => clerk[d].row # r
  BY <1>1, <1>2 DEF DepositInv, WorkerEach, AtGateway
<1>6. /\ clerk' \in [Clerks -> ClerkRow] /\ WorkerEach'
      /\ clerk'[c] = to /\ \A d \in Clerks \ {c} : clerk'[d] = clerk[d]
  BY <1>4, <1>5, ClerkGoes
<1>7. /\ given \in [Items -> Nat] /\ given' \in [Items -> Nat]
      /\ given'[i] = given[i] + 1 /\ \A j \in Items \ {i} : given'[j] = given[j]
  BY <1>4 DEF DepositInv, DepositTables
<1>8. Deposit!Made' = Deposit!Made /\ RowsFit' /\ RowsStay /\ DepositTables'
  BY <1>1, <1>6, <1>7 DEF DepositInv, DepositTables, RowsFit, RowsStay, Deposit!Made
<1>9. ClerkKnows(clerk[c])'
  BY <1>1, <1>2, <1>4, <1>6, <1>8 DEF ClerkKnows, AtGateway
<1>10. ASSUME Deposit!OneRowEach'
       PROVE  /\ RowsLinked' /\ GivenBehindRows' /\ RefundedMeansAll(payStatus)' /\ KnowsMore(clerk[c])'
              /\ \A d \in Clerks \ {c} : clerk[d].pc \in AtGateway => given'[clerk[d].item] = given[clerk[d].item]
  <2>1. Deposit!OneRowEach /\ Single
    BY <1>8, <1>10, AskedGrows DEF DepositInv
  <2>2. given'[i] = 1 /\ ~NoRowYet(i) /\ \A j \in Items : NoRowYet(j)' => NoRowYet(j)
    BY <1>1, <1>2, <1>7, <1>8, <2>1 DEF NoRowYet
  <2>3. GivenBehindRows' /\ RowsLinked' /\ RefundedMeansAll(payStatus)'
    BY <1>1, <1>7, <1>8, <2>1, <2>2, RowsAre DEF Single, GivenBehindRows, RowsLinked, RefundedMeansAll, NoRowYet
  <2>4. KnowsMore(clerk[c])'
    BY <1>4, <1>6, <2>2 DEF KnowsMore
  <2>5. ASSUME NEW d \in Clerks \ {c}, clerk[d].pc \in AtGateway
        PROVE  given'[clerk[d].item] = given[clerk[d].item]
    <3>1. /\ clerk[d].row \in Deposit!Made /\ refund[clerk[d].row].item = clerk[d].item /\ clerk[d].item \in Items
      BY <2>5, WhatIsKnown, ClerkPlaces DEF ClerkKnows, AtGateway
    <3>2. clerk[d].item # i
      BY <1>2, <1>5, <2>1, <2>5, <3>1 DEF Deposit!OneRowEach
    <3>. QED
      BY <1>7, <3>1, <3>2
  <2>. QED
    BY <2>3, <2>4, <2>5
<1>11. StatusIsUnderWay'
  <2>1. \A s : Listed(s) => Listed(s)'
    BY <1>1, <1>2, <1>4, <1>6 DEF Listed
  <2>. QED
    BY <1>1, <1>8, <2>1 DEF DepositInv, StatusIsUnderWay, Stands
<1>12. \A d \in Clerks \ {c} :
         clerk[d].pc \in {"sync", "write"} /\ clerk[d].guarded => refund'[clerk[d].row].reference
  BY <1>1, WhatIsKnown DEF ClerkKnows
<1>13. Deposit!Asked < AmountPaid =>
         payStatus' # "refunded" /\ (clerk'[c].pc = "write" => clerk'[c].status # "refunded")
  BY <1>1, <1>4, <1>6 DEF DepositInv, NotYetAll
<1>14. \A d \in Clerks \ {c} : clerk[d].pc \in AtGateway => refund'[clerk[d].row] = refund[clerk[d].row]
  BY <1>1
<1>. QED
  BY <1>6, <1>8, <1>9, <1>10, <1>11, <1>12, <1>13, <1>14, DepositGoesOn

-----------------------------------------------------------------------------
LEMMA RecordStep ==
  ASSUME DepositInv, NEW c \in Clerks, Deposit!Record(c)
  PROVE  DepositInv'
<1>1. /\ clerk[c].pc = "record" /\ clerk[c] \in ClerkRow
      /\ ClerkKnows(clerk[c]) /\ (Deposit!OneRowEach => KnowsMore(clerk[c]))
      /\ UNCHANGED <<grade, returned, payStatus, given, refundFaults>>
  BY WhatIsKnown DEF Deposit!Record
<1>2. PICK i \in Items, r \in Refunds, guarded \in BOOLEAN :
        i = clerk[c].item /\ r = clerk[c].row /\ guarded = clerk[c].guarded
  BY <1>1, ClerkPlaces
<1>3. /\ r \in Deposit!Made /\ refund[r].item = i
      /\ Deposit!OneRowEach => IF guarded THEN given[i] = 1 ELSE refund[r].amount = 0
  <2>1. r \in Deposit!Made /\ refund[r].item = i /\ (~guarded => refund[r].amount = 0 \/ ~refund[r].linked)
    BY <1>1, <1>2 DEF ClerkKnows
  <2>. QED
    BY <1>1, <1>2, <2>1 DEF KnowsMore, DepositInv, Single, RowsLinked
<1>4. refund[r] \in Deposit!RefundRow
  BY <1>3 DEF DepositInv, DepositTables, Deposit!Made
<1>5. PICK row : row = [item |-> i, amount |-> refund[r].amount, linked |-> refund[r].linked,
                        reference |-> guarded, status |-> "processed"]
  OBVIOUS
<1>6. PICK to : to = [pc |-> "sync", item |-> i, row |-> r, guarded |-> guarded]
  OBVIOUS
<1>7. refund' = [refund EXCEPT ![r] = row]
  <2>1. [[refund[r] EXCEPT !.status = "processed"] EXCEPT !.reference = guarded] = row
    <3>1. PICK old \in Deposit!RefundRow :
            /\ old = refund[r] /\ old.item = i
            /\ row = [item |-> old.item, amount |-> old.amount, linked |-> old.linked,
                      reference |-> guarded, status |-> "processed"]
      BY <1>3, <1>4, <1>5
    <3>2. PICK p : p = [old EXCEPT !.status = "processed"]
      OBVIOUS
    <3>3. p = [item |-> old.item, amount |-> old.amount, linked |-> old.linked,
               reference |-> old.reference, status |-> "processed"]
      BY <3>1, <3>2, RowsRewritten
    <3>4. [p EXCEPT !.reference = guarded] = row
      BY <3>1, <3>3
    <3>. QED
      BY <3>1, <3>2, <3>4
  <2>2. refund' = [[refund EXCEPT ![r].status = "processed"] EXCEPT ![r].reference = guarded]
    BY <1>2 DEF Deposit!Record
  <2>3. [[refund EXCEPT ![r].status = "processed"] EXCEPT ![r].reference = guarded]
          = [refund EXCEPT ![r] = [[refund[r] EXCEPT !.status = "processed"] EXCEPT !.reference = guarded]]
    BY DEF DepositInv, DepositTables
  <2>. QED
    BY <2>1, <2>2, <2>3
<1>8. clerk' = [clerk EXCEPT ![c] = to]
  <2>1. [clerk[c] EXCEPT !.pc = "sync"] = to
    BY <1>1, <1>2, <1>6, ClerkPlaces
  <2>. QED
    BY <2>1 DEF Deposit!Record, Deposit!AfterRecord, Deposit!ToClerk
<1>9. /\ row \in Deposit!RefundRow /\ row.item = refund[r].item /\ row.amount = refund[r].amount
      /\ row.linked = refund[r].linked /\ row.reference = guarded /\ row.status = "processed"
  BY <1>3, <1>4, <1>5 DEF Deposit!RefundRow
<1>10. /\ to \in ClerkRow /\ to.pc = "sync" /\ to.item = i /\ to.row = r /\ to.guarded = guarded
  BY <1>2, <1>6 DEF ClerkRow
<1>11. Deposit!OneRowEach =>
         (row.reference \/ (row.status = "processed" /\ row.amount > 0) => given[row.item] = 1)
  BY <1>2, <1>3, <1>9
<1>12. r \in Deposit!Made' /\ refund'[r] = row
  BY <1>3, <1>7, <1>9, DepositsAssumption DEF Deposit!Made, DepositInv, DepositTables, Deposit!RefundRow
<1>13. ClerkKnows(to)'
  BY <1>3, <1>9, <1>10, <1>12 DEF ClerkKnows, AtGateway
<1>14. /\ clerk \in [Clerks -> ClerkRow] /\ clerk'[c] = to
       /\ \A d \in Clerks \ {c} : clerk'[d] = clerk[d]
       /\ \A s \in Refunds \ {r} : refund'[s] = refund[s]
  BY <1>7, <1>8 DEF DepositInv, DepositTables
<1>15. StatusIsUnderWay'
  <2>. SUFFICES ASSUME refundFaults' = 0, NEW s \in Deposit!Made', Stands(s)' PROVE Listed(s)'
    BY DEF StatusIsUnderWay
  <2>1. CASE s = r
    BY <1>10, <1>14, <2>1 DEF Listed
  <2>2. CASE s # r
    <3>1. s \in Deposit!Made /\ Stands(s)
      BY <1>14, <2>2 DEF Stands, Deposit!Made
    <3>2. Listed(s)
      BY <1>1, <3>1 DEF DepositInv, StatusIsUnderWay
    <3>. QED
      BY <1>1, <1>2, <1>14, <2>2, <3>2 DEF Listed
  <2>. QED
    BY <2>1, <2>2
<1>16. refundFaults' \in Nat
  BY <1>1 DEF DepositInv, DepositTables
<1>17. clerk[c].pc \in AtGateway /\ clerk[c].row = r
  BY <1>1, <1>2 DEF AtGateway
<1>. QED
  BY <1>1, <1>3, <1>7, <1>8, <1>9, <1>10, <1>11, <1>13, <1>15, <1>16, <1>17, RowChanges

LEMMA SyncReadStep ==
  ASSUME DepositInv, NEW c \in Clerks, Deposit!SyncRead(c)
  PROVE  DepositInv'
<1>1. /\ clerk[c].pc = "sync" /\ clerk[c] \in ClerkRow /\ ClerkKnows(clerk[c])
      /\ UNCHANGED <<grade, returned, refund, payStatus, given, refundFaults>>
  BY WhatIsKnown DEF Deposit!SyncRead
<1>2. PICK i \in Items, r \in Refunds, guarded \in BOOLEAN :
        /\ i = clerk[c].item /\ r = clerk[c].row /\ guarded = clerk[c].guarded
        /\ r \in Deposit!Made /\ refund[r].item = i /\ (guarded => refund[r].reference)
  BY <1>1, ClerkPlaces DEF ClerkKnows
<1>3. PICK total \in Nat, asked \in Nat :
        /\ total = Deposit!RefundTotal /\ asked = Deposit!Asked /\ total <= asked
        /\ total > 0 <=> \E s \in Deposit!Made : Stands(s)
  BY RefundTotals
<1>4. PICK says : says = Deposit!StatusFor(total)
  OBVIOUS
<1>5. /\ says # payStatus => says = IF total >= AmountPaid THEN "refunded" ELSE "partially_refunded"
      /\ total > 0 => says = IF total >= AmountPaid THEN "refunded" ELSE "partially_refunded"
  BY <1>3, <1>4 DEF Deposit!StatusFor
<1>6. says # payStatus =>
        /\ says \in {"refunded", "partially_refunded"}
        /\ Deposit!OneRowEach => RefundedMeansAll(says)
        /\ asked < AmountPaid => says # "refunded"
  <2>1. AmountPaid \in Nat
    BY DepositsAssumption
  <2>2. Deposit!OneRowEach /\ total >= AmountPaid => \A j \in Items : ItemDeposit[j] > 0 => ~NoRowYet(j)
    BY <1>3, AllAreRefunded
  <2>. QED
    BY <1>3, <1>5, <2>1, <2>2 DEF RefundedMeansAll
<1>7. clerk \in [Clerks -> ClerkRow] /\ Deposit!Made' = Deposit!Made /\ \A s : Stands(s)' <=> Stands(s)
  BY <1>1 DEF DepositInv, DepositTables, Deposit!Made, Stands
<1>8. CASE refund[r].linked /\ says # payStatus
  <2>1. PICK to : to = [pc |-> "write", item |-> i, row |-> r, guarded |-> guarded, status |-> says]
    OBVIOUS
  <2>2. clerk' = [clerk EXCEPT ![c] = to]
    BY <1>2, <1>3, <1>4, <1>8, <2>1 DEF Deposit!SyncRead, Deposit!ToClerk
  <2>3. /\ to \in ClerkRow /\ to.pc = "write" /\ to.item = i /\ to.row = r /\ to.guarded = guarded
        /\ to.status = says
    BY <1>6, <1>8, <2>1 DEF ClerkRow, PayStatuses
  <2>4. ClerkKnows(to) /\ (Deposit!OneRowEach => KnowsMore(to)) /\ to.pc \notin AtGateway
    BY <1>2, <1>6, <1>8, <2>3 DEF ClerkKnows, KnowsMore, AtGateway
  <2>5. StatusIsUnderWay'
    BY <1>7, <2>2, <2>3 DEF StatusIsUnderWay, Listed
  <2>6. Deposit!Asked < AmountPaid => to.status # "refunded"
    BY <1>3, <1>6, <1>8, <2>3
  <2>. QED
    BY <1>1, <2>2, <2>3, <2>4, <2>5, <2>6, OnlyClerkGoes
<1>9. CASE ~(refund[r].linked /\ says # payStatus)
  <2>1. clerk' = [clerk EXCEPT ![c] = Deposit!Waiting]
    BY <1>2, <1>3, <1>4, <1>9 DEF Deposit!SyncRead, Deposit!ToClerk
  <2>2. StatusIsUnderWay'
    <3>. SUFFICES ASSUME refundFaults' = 0, NEW s \in Deposit!Made, Stands(s) PROVE Listed(s)'
      BY <1>7 DEF StatusIsUnderWay
    <3>1. CASE refund[r].linked
      <4>1. payStatus = says /\ says # "paid"
        BY <1>3, <1>5, <1>9, <3>1
      <4>. QED
        BY <1>1, <4>1 DEF Listed
    <3>2. CASE ~refund[r].linked
      <4>1. s # r
        BY <3>2 DEF Stands
      <4>2. Listed(s)
        BY <1>1 DEF DepositInv, StatusIsUnderWay
      <4>. QED
        BY <1>1, <1>2, <1>7, <2>1, <4>1, <4>2 DEF Listed
    <3>. QED
      BY <3>1, <3>2
  <2>. QED
    BY <1>1, <2>1, <2>2, WaitingIsFine, OnlyClerkGoes DEF AtGateway
<1>. QED
  BY <1>8, <1>9

LEMMA SyncWriteStep ==
  ASSUME DepositInv, NEW c \in Clerks, Deposit!SyncWrite(c)
  PROVE  DepositInv'
<1>1. /\ clerk[c].pc = "write" /\ clerk[c] \in ClerkRow
      /\ ClerkKnows(clerk[c]) /\ (Deposit!OneRowEach => KnowsMore(clerk[c]))
      /\ clerk' = [clerk EXCEPT ![c] = Deposit!Waiting] /\ payStatus' = clerk[c].status
      /\ UNCHANGED <<grade, returned, refund, given, refundFaults>>
  BY WhatIsKnown DEF Deposit!SyncWrite, Deposit!ToClerk
<1>2. PICK says \in PayStatuses :
        /\ says = clerk[c].status /\ says # "paid" /\ (Deposit!OneRowEach => RefundedMeansAll(says))
        /\ Deposit!Asked < AmountPaid => says # "refunded"
  <2>1. clerk[c].status \in PayStatuses /\ clerk[c].status # "paid"
    BY <1>1, ClerkPlaces DEF ClerkKnows
  <2>2. Deposit!OneRowEach => RefundedMeansAll(clerk[c].status)
    BY <1>1 DEF KnowsMore
  <2>3. Deposit!Asked < AmountPaid => clerk[c].status # "refunded"
    BY <1>1 DEF DepositInv, NotYetAll
  <2>. QED
    BY <2>1, <2>2, <2>3
<1>3. /\ clerk' \in [Clerks -> ClerkRow] /\ WorkerEach'
      /\ clerk'[c] = Deposit!Waiting /\ \A d \in Clerks \ {c} : clerk'[d] = clerk[d]
  BY <1>1, WaitingIsFine, ClerkGoes DEF AtGateway
<1>4. DepositTables' /\ RowsFit' /\ RowsStay /\ Deposit!Made' = Deposit!Made
  BY <1>1, <1>2, <1>3 DEF DepositInv, DepositTables, RowsFit, RowsStay, Deposit!Made
<1>5. ClerkKnows(clerk[c])' /\ KnowsMore(clerk[c])'
  BY <1>3, WaitingIsFine DEF ClerkKnows, KnowsMore, AtGateway
<1>6. ASSUME Deposit!OneRowEach' PROVE RowsLinked' /\ GivenBehindRows' /\ RefundedMeansAll(payStatus)'
  <2>1. Deposit!OneRowEach /\ Single
    BY <1>4, <1>6, AskedGrows DEF DepositInv
  <2>. QED
    BY <1>1, <1>2, <1>4, <2>1 DEF Single, RowsLinked, GivenBehindRows, RefundedMeansAll, NoRowYet
<1>7. StatusIsUnderWay'
  BY <1>1, <1>2 DEF StatusIsUnderWay, Listed
<1>8. \A d \in Clerks \ {c} :
        clerk[d].pc \in {"sync", "write"} /\ clerk[d].guarded => refund'[clerk[d].row].reference
  BY <1>1, WhatIsKnown DEF ClerkKnows
<1>9. Deposit!Asked < AmountPaid =>
        payStatus' # "refunded" /\ (clerk'[c].pc = "write" => clerk'[c].status # "refunded")
  BY <1>1, <1>2, <1>3, WaitingIsFine
<1>10. \A d \in Clerks \ {c} :
         clerk[d].pc \in AtGateway =>
           refund'[clerk[d].row] = refund[clerk[d].row] /\ given'[clerk[d].item] = given[clerk[d].item]
  BY <1>1
<1>. QED
  BY <1>3, <1>4, <1>5, <1>6, <1>7, <1>8, <1>9, <1>10, DepositGoesOn

(* The gateway refused, or what followed its answer was lost.              *)
LEMMA FailsStep ==
  ASSUME DepositInv, NEW c \in Clerks, Deposit!Fails(c)
  PROVE  DepositInv'
<1>1. /\ clerk[c].pc \in {"call", "record", "sync", "write"} /\ clerk[c] \in ClerkRow /\ ClerkKnows(clerk[c])
      /\ clerk' = [clerk EXCEPT ![c] = Deposit!Waiting]
      /\ refundFaults' = refundFaults + 1
      /\ UNCHANGED <<grade, returned, payStatus, given>>
  BY WhatIsKnown DEF Deposit!Fails, Deposit!ToClerk
<1>2. PICK i \in Items, r \in Refunds, guarded \in BOOLEAN :
        /\ i = clerk[c].item /\ r = clerk[c].row /\ guarded = clerk[c].guarded
        /\ r \in Deposit!Made /\ refund[r].item = i
        /\ clerk[c].pc \in {"sync", "write"} /\ guarded => refund[r].reference
  BY <1>1, ClerkPlaces DEF ClerkKnows
<1>3. refundFaults' \in Nat /\ refundFaults' # 0
  BY <1>1 DEF DepositInv, DepositTables
<1>4. StatusIsUnderWay' /\ ClerkKnows(Deposit!Waiting)' /\ KnowsMore(Deposit!Waiting)'
  BY <1>3, WaitingIsFine DEF StatusIsUnderWay, ClerkKnows, KnowsMore, AtGateway
<1>5. CASE guarded
  <2>1. PICK old \in Deposit!RefundRow : old = refund[r]
    BY <1>2 DEF DepositInv, DepositTables, Deposit!Made
  <2>2. PICK row : row = [item |-> old.item, amount |-> old.amount, linked |-> old.linked,
                          reference |-> old.reference, status |-> "failed"]
    OBVIOUS
  <2>3. refund' = [refund EXCEPT ![r] = row]
    <3>1. [refund[r] EXCEPT !.status = "failed"] = row
      BY <2>1, <2>2, RowsRewritten
    <3>2. refund' = [refund EXCEPT ![r].status = "failed"]
      BY <1>2, <1>5 DEF Deposit!Fails
    <3>. QED
      BY <3>1, <3>2
  <2>4. /\ row \in Deposit!RefundRow /\ row.item = refund[r].item /\ row.amount = refund[r].amount
        /\ row.linked = refund[r].linked /\ row.reference = refund[r].reference /\ row.status = "failed"
    BY <2>1, <2>2, RowsRewritten DEF Deposit!RefundRow
  <2>5. Deposit!OneRowEach =>
          (row.reference \/ (row.status = "processed" /\ row.amount > 0) => given[row.item] = 1)
    BY <1>2, <2>4 DEF DepositInv, Single, GivenBehindRows
  <2>6. \/ refund[r].reference /\ row.reference
        \/ clerk[c].pc \in AtGateway /\ clerk[c].row = r
    BY <1>1, <1>2, <1>5, <2>4 DEF AtGateway
  <2>. QED
    BY <1>1, <1>2, <1>3, <1>4, <2>3, <2>4, <2>5, <2>6, WaitingIsFine, RowChanges
<1>6. CASE ~guarded
  <2>1. refund' = refund
    BY <1>2, <1>6 DEF Deposit!Fails
  <2>2. /\ clerk' \in [Clerks -> ClerkRow] /\ WorkerEach'
        /\ clerk'[c] = Deposit!Waiting /\ \A d \in Clerks \ {c} : clerk'[d] = clerk[d]
    BY <1>1, WaitingIsFine, ClerkGoes DEF AtGateway
  <2>3. DepositTables' /\ RowsFit' /\ RowsStay /\ Deposit!Made' = Deposit!Made
    BY <1>1, <1>3, <2>1, <2>2 DEF DepositInv, DepositTables, RowsFit, RowsStay, Deposit!Made
  <2>4. ASSUME Deposit!OneRowEach' PROVE RowsLinked' /\ GivenBehindRows' /\ RefundedMeansAll(payStatus)'
    <3>1. Deposit!OneRowEach /\ Single
      BY <2>3, <2>4, AskedGrows DEF DepositInv
    <3>. QED
      BY <1>1, <2>1, <2>3, <3>1 DEF Single, RowsLinked, GivenBehindRows, RefundedMeansAll, NoRowYet
  <2>5. ClerkKnows(clerk[c])' /\ KnowsMore(clerk[c])'
    BY <1>4, <2>2 DEF ClerkKnows, KnowsMore
  <2>6. \A d \in Clerks \ {c} :
          clerk[d].pc \in {"sync", "write"} /\ clerk[d].guarded => refund'[clerk[d].row].reference
    BY <2>1, WhatIsKnown DEF ClerkKnows
  <2>7. Deposit!Asked < AmountPaid =>
          payStatus' # "refunded" /\ (clerk'[c].pc = "write" => clerk'[c].status # "refunded")
    BY <1>1, <2>2, WaitingIsFine DEF DepositInv, NotYetAll
  <2>8. \A d \in Clerks \ {c} :
          clerk[d].pc \in AtGateway =>
            refund'[clerk[d].row] = refund[clerk[d].row] /\ given'[clerk[d].item] = given[clerk[d].item]
    BY <1>1, <2>1
  <2>. QED
    BY <1>4, <2>2, <2>3, <2>4, <2>5, <2>6, <2>7, <2>8, DepositGoesOn
<1>. QED
  BY <1>5, <1>6

LEMMA EventStep ==
  ASSUME DepositInv, NEW c \in Clerks, NEW r \in Refunds, NEW s \in {"processed", "failed"},
         Deposit!RefundEvent(c, r, s)
  PROVE  DepositInv'
<1>1. /\ clerk[c] = Deposit!Waiting /\ r \in Deposit!Made /\ refund[r].reference
      /\ refund' = [refund EXCEPT ![r].status = s]
      /\ UNCHANGED <<grade, returned, payStatus, given, refundFaults>>
  BY DEF Deposit!RefundEvent
<1>2. PICK old \in Deposit!RefundRow : old = refund[r]
  BY <1>1 DEF DepositInv, DepositTables, Deposit!Made
<1>3. PICK row : row = [item |-> old.item, amount |-> old.amount, linked |-> old.linked,
                        reference |-> old.reference, status |-> s]
  OBVIOUS
<1>4. refund' = [refund EXCEPT ![r] = row]
  <2>1. [refund[r] EXCEPT !.status = s] = row
    BY <1>2, <1>3, RowsRewritten
  <2>. QED
    BY <1>1, <2>1
<1>5. /\ row \in Deposit!RefundRow /\ row.item = refund[r].item /\ row.amount = refund[r].amount
      /\ row.linked = refund[r].linked /\ row.reference = refund[r].reference /\ row.item \in Items
  BY <1>2, <1>3, RowsRewritten DEF Deposit!RefundRow
<1>6. Deposit!OneRowEach =>
        (row.reference \/ (row.status = "processed" /\ row.amount > 0) => given[row.item] = 1)
  BY <1>1, <1>5 DEF DepositInv, Single, GivenBehindRows
<1>7. PICK to : to = [pc |-> "sync", item |-> refund[r].item, row |-> r, guarded |-> FALSE]
  OBVIOUS
<1>8. /\ clerk' = [clerk EXCEPT ![c] = to] /\ to \in ClerkRow
      /\ to.pc = "sync" /\ to.item = refund[r].item /\ to.row = r /\ to.guarded = FALSE
  BY <1>5, <1>7 DEF Deposit!RefundEvent, Deposit!ToClerk, ClerkRow
<1>9. r \in Deposit!Made' /\ refund'[r] = row
  BY <1>1, <1>4, <1>5, DepositsAssumption DEF Deposit!Made, DepositInv, DepositTables, Deposit!RefundRow
<1>10. ClerkKnows(to)'
  BY <1>5, <1>8, <1>9 DEF ClerkKnows, AtGateway
<1>11. /\ clerk'[c] = to /\ \A d \in Clerks \ {c} : clerk'[d] = clerk[d]
       /\ \A q \in Refunds \ {r} : refund'[q] = refund[q]
  BY <1>4, <1>8 DEF DepositInv, DepositTables
<1>12. StatusIsUnderWay'
  <2>. SUFFICES ASSUME refundFaults' = 0, NEW q \in Deposit!Made', Stands(q)' PROVE Listed(q)'
    BY DEF StatusIsUnderWay
  <2>1. CASE q = r
    BY <1>8, <1>11, <2>1 DEF Listed
  <2>2. CASE q # r
    <3>1. q \in Deposit!Made /\ Stands(q)
      BY <1>11, <2>2 DEF Stands, Deposit!Made
    <3>2. Listed(q)
      BY <1>1, <3>1 DEF DepositInv, StatusIsUnderWay
    <3>. QED
      BY <1>1, <1>11, <3>2, WaitingIsFine DEF Listed
  <2>. QED
    BY <2>1, <2>2
<1>13. refundFaults' \in Nat
  BY <1>1 DEF DepositInv, DepositTables
<1>. QED
  BY <1>1, <1>4, <1>5, <1>6, <1>8, <1>10, <1>12, <1>13, RowChanges

-----------------------------------------------------------------------------
LEMMA DepositsStart == Deposit!Init => DepositInv
<1>. SUFFICES ASSUME Deposit!Init PROVE DepositInv
  OBVIOUS
<1>1. Deposit!Made = {}
  BY DEF Deposit!Init, Deposit!Made
<1>2. DepositTables /\ payStatus = "paid" /\ \A c \in Clerks : clerk[c] = Deposit!Waiting
  BY WaitingIsFine DEF Deposit!Init, DepositTables, PayStatuses
<1>3. RowsFit /\ WorkerEach /\ RowsLinked /\ RefundedMeansAll(payStatus) /\ StatusIsUnderWay /\ NotYetAll
  BY <1>1, <1>2, WaitingIsFine DEF RowsFit, WorkerEach, AtGateway, RowsLinked, RefundedMeansAll, StatusIsUnderWay,
     NotYetAll
<1>4. GivenBehindRows
  BY <1>1 DEF Deposit!Init, GivenBehindRows
<1>. QED
  BY <1>2, <1>3, <1>4, WaitingIsFine DEF DepositInv, Single

LEMMA DepositsGoOn ==
  ASSUME DepositInv, [Deposit!Next]_depositVars
  PROVE  DepositInv'
<1>1. CASE UNCHANGED depositVars
  <2>1. UNCHANGED <<grade, returned, refund, payStatus, clerk, given, refundFaults>>
    BY <1>1 DEF depositVars
  <2>. QED
    BY <2>1 DEF DepositInv, DepositTables, RowsFit, WorkerEach, ClerkKnows, Deposit!OneRowEach, Single, RowsLinked,
       GivenBehindRows, RefundedMeansAll, KnowsMore, NoRowYet, StatusIsUnderWay, Stands, Listed, NotYetAll, Deposit!Asked,
       Deposit!Made
<1>2. CASE Deposit!Next
  BY <1>2, ReturnsStep, ReadStep, LookStep, CreateStep, CallStep, RecordStep, SyncReadStep, SyncWriteStep, FailsStep,
     EventStep DEF Deposit!Next
<1>. QED
  BY <1>1, <1>2

LEMMA DepositInvGives == DepositInv => Deposit!TypeOK /\ Deposit!RecordedIsGiven /\ Deposit!StatusFollowsRefunds
<1>. SUFFICES ASSUME DepositInv
              PROVE  Deposit!TypeOK /\ Deposit!RecordedIsGiven /\ Deposit!StatusFollowsRefunds
  OBVIOUS
<1>1. Deposit!TypeOK
  BY DEF DepositInv, DepositTables, Deposit!TypeOK, Deposit!Made, Deposit!RefundRow, PayStatuses
<1>2. Deposit!RecordedIsGiven
  BY RowsAre DEF DepositInv, Single, GivenBehindRows, Deposit!RecordedIsGiven
<1>3. ASSUME refundFaults = 0, \A c \in Clerks : clerk[c] = Deposit!Waiting, Deposit!RefundTotal > 0
      PROVE  payStatus # "paid" /\ (Deposit!Asked < AmountPaid => payStatus = "partially_refunded")
  <2>1. payStatus # "paid"
    BY <1>3, RefundTotals, WaitingIsFine DEF DepositInv, StatusIsUnderWay, Listed
  <2>. QED
    BY <2>1 DEF DepositInv, DepositTables, PayStatuses, NotYetAll
<1>4. Deposit!StatusFollowsRefunds
  BY <1>3 DEF Deposit!StatusFollowsRefunds
<1>. QED
  BY <1>1, <1>2, <1>4

LEMMA SpecGivesBack == Spec => Deposit!Init /\ [][Deposit!Next]_depositVars
<1>1. Init => Deposit!Init
  BY DEF Init
<1>2. [Next]_vars => [Deposit!Next]_depositVars
  BY DEF Next, vars, depositVars
<1>. QED
  BY <1>1, <1>2, PTL DEF Spec

LEMMA DepositsAlways == Spec => []DepositInv
<1>1. DepositInv /\ [Deposit!Next]_depositVars => DepositInv'
  BY DepositsGoOn
<1>. QED
  BY <1>1, SpecGivesBack, DepositsStart, PTL

(* As long as no item has two refunds: a deposit was given back at most    *)
(* once, and what is recorded as given back was, also when an answer was   *)
(* lost (refundDepositForOrderItem).                                       *)
THEOREM RecordedWasGiven == Spec => []RecordedIsGiven
<1>1. DepositInv => RecordedIsGiven
  BY DepositInvGives DEF RecordedIsGiven
<1>. QED
  BY <1>1, DepositsAlways, PTL

(* Once no request is under way and none failed, a payment with refunds    *)
(* that stand says so, in whatever order requests and refund events came,  *)
(* and is not called refunded when part of it was never asked back         *)
(* (syncPaymentRefundStatus).                                              *)
THEOREM PaymentSaysRefunded == Spec => []StatusFollowsRefunds
<1>1. DepositInv => StatusFollowsRefunds
  BY DepositInvGives DEF StatusFollowsRefunds
<1>. QED
  BY <1>1, DepositsAlways, PTL

-----------------------------------------------------------------------------
(* Asking again.  A request whose look finds a refund goes no further, and *)
(* one that calls the gateway is itself one request less.                  *)
NoMore(i) == given'[i] + Cardinality(Deposit!Giving(i)') <= given[i] + Cardinality(Deposit!Giving(i))

LEMMA SameCount == \A S : Deposit!Cardinality(S) = Cardinality(S)
BY DEF Deposit!Cardinality, Cardinality

LEMMA GivingCounts ==
  ASSUME NEW i
  PROVE  IsFiniteSet(Deposit!Giving(i)) /\ Cardinality(Deposit!Giving(i)) \in Nat
<1>1. Deposit!Giving(i) \subseteq Clerks
  BY DEF Deposit!Giving
<1>. QED
  BY <1>1, DepositsAssumption, FS_Subset, FS_CardinalityType

LEMMA FewerGive ==
  ASSUME NEW i \in Items, given[i] \in Nat, given'[i] = given[i], Deposit!Giving(i)' \subseteq Deposit!Giving(i)
  PROVE  NoMore(i)
<1>1. Cardinality(Deposit!Giving(i)') <= Cardinality(Deposit!Giving(i)) /\ Cardinality(Deposit!Giving(i)') \in Nat
  BY GivingCounts, FS_Subset, FS_CardinalityType
<1>. QED
  BY <1>1, GivingCounts DEF NoMore

LEMMA GivingStep ==
  ASSUME DepositInv, [Deposit!Next]_depositVars, NEW i \in Items, \E r \in Deposit!Made : refund[r].item = i
  PROVE  NoMore(i)
<1>1. given[i] \in Nat /\ clerk \in [Clerks -> ClerkRow] /\ given \in [Items -> Nat]
  BY DEF DepositInv, DepositTables
<1>2. ASSUME given' = given, NEW c \in Clerks, NEW to, clerk' = [clerk EXCEPT ![c] = to],
             to.pc \in {"create", "call"} => clerk[c].pc \in {"create", "call"} /\ to.item = clerk[c].item
      PROVE  NoMore(i)
  <2>1. Deposit!Giving(i)' \subseteq Deposit!Giving(i)
    BY <1>1, <1>2 DEF Deposit!Giving
  <2>. QED
    BY <1>1, <1>2, <2>1, FewerGive
<1>3. ASSUME UNCHANGED <<clerk, given>> PROVE NoMore(i)
  BY <1>1, <1>3, FewerGive DEF Deposit!Giving
<1>4. ASSUME NEW c \in Clerks, NEW j \in Items, Deposit!Read(c, j) PROVE NoMore(i)
  BY <1>2, <1>4 DEF Deposit!Read, Deposit!ToClerk
<1>5. ASSUME NEW c \in Clerks, Deposit!Look(c) PROVE NoMore(i)
  <2>1. clerk[c] \in ClerkRow /\ clerk[c].pc = "look" /\ given' = given
    BY <1>1, <1>5 DEF Deposit!Look
  <2>2. CASE Deposit!RefundsOf(clerk[c].item) # {}
    BY <1>2, <1>5, <2>1, <2>2, WaitingIsFine DEF Deposit!Look, Deposit!ToClerk
  <2>3. CASE Deposit!RefundsOf(clerk[c].item) = {}
    <3>1. clerk[c].item # i
      BY <2>3 DEF Deposit!RefundsOf
    <3>2. PICK to : to.item = clerk[c].item /\ clerk' = [clerk EXCEPT ![c] = to]
      BY <1>5, <2>1, <2>3, ClerkPlaces DEF Deposit!Look, Deposit!ToClerk
    <3>3. Deposit!Giving(i)' \subseteq Deposit!Giving(i)
      BY <1>1, <3>1, <3>2 DEF Deposit!Giving
    <3>. QED
      BY <1>1, <2>1, <3>3, FewerGive
  <2>. QED
    BY <2>2, <2>3
<1>6. ASSUME NEW c \in Clerks, Deposit!Create(c) PROVE NoMore(i)
  BY <1>2, <1>6 DEF Deposit!Create, Deposit!ToClerk
<1>7. ASSUME NEW c \in Clerks, Deposit!CallGateway(c) PROVE NoMore(i)
  <2>1. /\ clerk[c] \in ClerkRow /\ clerk[c].pc = "call" /\ clerk[c].item \in Items
        /\ given' = [given EXCEPT ![clerk[c].item] = @ + 1]
    BY <1>1, <1>7, ClerkPlaces DEF Deposit!CallGateway
  <2>2. PICK to : to.pc = "record" /\ clerk' = [clerk EXCEPT ![c] = to]
    BY <1>7, <2>1, ClerkPlaces DEF Deposit!CallGateway, Deposit!ToClerk
  <2>3. CASE clerk[c].item # i
    <3>1. Deposit!Giving(i)' \subseteq Deposit!Giving(i)
      BY <1>1, <2>2 DEF Deposit!Giving
    <3>. QED
      BY <1>1, <2>1, <2>3, <3>1, FewerGive
  <2>4. CASE clerk[c].item = i
    <3>1. c \in Deposit!Giving(i) /\ Deposit!Giving(i)' \subseteq Deposit!Giving(i) \ {c}
      BY <1>1, <2>1, <2>2, <2>4 DEF Deposit!Giving
    <3>2. /\ IsFiniteSet(Deposit!Giving(i) \ {c})
          /\ Cardinality(Deposit!Giving(i) \ {c}) = Cardinality(Deposit!Giving(i)) - 1
      BY <3>1, GivingCounts, FS_RemoveElement
    <3>3. Cardinality(Deposit!Giving(i)') <= Cardinality(Deposit!Giving(i)) - 1 /\ Cardinality(Deposit!Giving(i)') \in Nat
      BY <3>1, <3>2, FS_Subset, FS_CardinalityType
    <3>4. given'[i] = given[i] + 1
      BY <1>1, <2>1, <2>4
    <3>. QED
      BY <1>1, <3>3, <3>4, GivingCounts DEF NoMore
  <2>. QED
    BY <2>3, <2>4
<1>8. ASSUME NEW c \in Clerks, Deposit!Record(c) PROVE NoMore(i)
  <2>1. clerk[c] \in ClerkRow /\ clerk[c].pc = "record" /\ given' = given
    BY <1>1, <1>8 DEF Deposit!Record
  <2>2. PICK to : to.pc = "sync" /\ clerk' = [clerk EXCEPT ![c] = to]
    BY <1>8, <2>1, ClerkPlaces DEF Deposit!Record, Deposit!AfterRecord, Deposit!ToClerk
  <2>. QED
    BY <1>2, <2>1, <2>2
<1>9. ASSUME NEW c \in Clerks, Deposit!SyncRead(c) \/ Deposit!SyncWrite(c) \/ Deposit!Fails(c) PROVE NoMore(i)
  <2>1. PICK to : to.pc \in {"waiting", "write"} /\ clerk' = [clerk EXCEPT ![c] = to]
    BY <1>9, WaitingIsFine DEF Deposit!SyncRead, Deposit!SyncWrite, Deposit!Fails, Deposit!ToClerk
  <2>2. given' = given
    BY <1>9 DEF Deposit!SyncRead, Deposit!SyncWrite, Deposit!Fails
  <2>. QED
    BY <1>2, <2>1, <2>2
<1>10. ASSUME NEW c \in Clerks, NEW r \in Refunds, NEW s \in {"processed", "failed"}, Deposit!RefundEvent(c, r, s)
       PROVE  NoMore(i)
  BY <1>2, <1>10 DEF Deposit!RefundEvent, Deposit!ToClerk
<1>11. CASE UNCHANGED depositVars \/ \E j \in Items : Deposit!Return(j) \/ \E g \in Grades : Deposit!Inspect(j, g)
  <2>1. UNCHANGED <<clerk, given>>
    BY <1>11 DEF depositVars, Deposit!Return, Deposit!Inspect
  <2>. QED
    BY <1>3, <2>1
<1>. QED
  BY <1>4, <1>5, <1>6, <1>7, <1>8, <1>9, <1>10, <1>11 DEF Deposit!Next

(* Once an item has a refund, a request that has not looked yet gives      *)
(* nothing more for it, however requests for it overlap                    *)
(* (refundDepositForOrderItem: existingRefund).                            *)
THEOREM AskingAgain == Spec => AskingAgainGivesNothing
<1>1. DepositInv /\ [Deposit!Next]_depositVars =>
        [\A i \in Items : (\E r \in Deposit!Made : refund[r].item = i) =>
           given'[i] + Deposit!Cardinality(Deposit!Giving(i)') <=
             given[i] + Deposit!Cardinality(Deposit!Giving(i))]_Deposit!depositVars
  BY GivingStep, SameCount DEF NoMore
<1>. QED
  BY <1>1, DepositsAlways, SpecGivesBack, PTL DEF AskingAgainGivesNothing, Deposit!AskingAgainGivesNothing

-----------------------------------------------------------------------------
(* Sign-in.  The row of a phone counts the comparisons of its code, codes are *)
(* in one row each, accounts stay.                                         *)

RequestRow ==
  {Accounts!Done}
    \cup [pc : {"issue"}, phone : Phones]
    \cup [pc : {"send"}, phone : Phones, found : BOOLEAN]
    \cup [pc : {"readCode"}, phone : Phones, guess : Codes \cup {NoCode}, email : Emails, verified : BOOLEAN]
    \cup [pc : {"claim", "consume"}, phone : Phones, guess : Codes \cup {NoCode}, email : Emails,
          verified : BOOLEAN, code : Codes]
    \cup [pc : {"verify"}, email : Emails, verified : BOOLEAN]
    \cup [pc : {"session", "mint"}, email : Emails]
    \cup [pc : {"free", "write"}, email : Emails, phone : Phones, exists : BOOLEAN, holders : SUBSET Emails]
    \cup [pc : {"reset"}, link : ResetLinks, email : Emails]

(* What a request has read stays true of the accounts (users) it read.     *)
GoodFor(q, users) ==
  /\ q \in RequestRow
  /\ q.pc \in {"readCode", "claim", "consume", "verify"} =>
       users[q.email] # NoOne /\ (q.verified => users[q.email].verified)
  /\ q.pc = "session" => users[q.email] # NoOne /\ users[q.email].verified
  /\ q.pc \in {"free", "write"} => \A e \in q.holders : users[e] # NoOne

PeopleTables ==
  /\ user \in [Emails -> Accounts!UserRow \cup {NoOne}]
  /\ session \in [Sessions -> Emails \cup {NoOne}]
  /\ link \in [ResetLinks -> Accounts!LinkRow \cup {NoCode}]
  /\ request \in [Requests -> RequestRow]

PhonesUnique ==
  \A e, f \in Emails : user[e] # NoOne /\ user[f] # NoOne /\ e # f /\ user[e].phone = user[f].phone
                       => user[e].phone = NoCode

SessionsVerified ==
  \A s \in Sessions : session[s] # NoOne => user[session[s]] # NoOne /\ user[session[s]].verified

PeopleInv ==
  /\ PeopleTables /\ PhonesUnique /\ SessionsVerified
  /\ \A r \in Requests : GoodFor(request[r], user)

CodeTables ==
  /\ otp \in [Phones -> Accounts!OtpRow \cup {NoCode}]
  /\ sent \subseteq Codes
  /\ compared \in [Codes -> Nat]
  /\ uses \in [Codes -> Nat]

RowsCount ==
  \A p \in Phones : otp[p] # NoCode =>
    /\ otp[p].code \in sent
    /\ otp[p].attempts = compared[otp[p].code]
    /\ uses[otp[p].code] = 0

RowsApart ==
  \A p, q \in Phones : otp[p] # NoCode /\ otp[q] # NoCode /\ otp[p].code = otp[q].code => p = q

Unsent == \A k \in Codes \ sent : compared[k] = 0 /\ uses[k] = 0

Bounded == \A k \in Codes : compared[k] <= MaxAttempts

CodesInv == CodeTables /\ RowsCount /\ RowsApart /\ Unsent /\ Bounded

SignInInv == PeopleInv /\ CodesInv

-----------------------------------------------------------------------------
(* Accounts are never removed, and stay verified.                          *)
UsersGrow == \A e \in Emails : user[e] # NoOne => user'[e] # NoOne /\ (user[e].verified => user'[e].verified)

LEMMA RequestPlaces ==
  ASSUME NEW q \in RequestRow
  PROVE  /\ q.pc = "issue" => q.phone \in Phones
         /\ q.pc = "send" => q.phone \in Phones /\ q.found \in BOOLEAN
         /\ q.pc \in {"readCode", "claim", "consume"} =>
              q.phone \in Phones /\ q.guess \in Codes \cup {NoCode} /\ q.email \in Emails /\ q.verified \in BOOLEAN
         /\ q.pc \in {"claim", "consume"} =>
              q.code \in Codes /\ q = [pc |-> q.pc, phone |-> q.phone, guess |-> q.guess, email |-> q.email,
                                       verified |-> q.verified, code |-> q.code]
         /\ q.pc = "verify" => q.email \in Emails /\ q.verified \in BOOLEAN
         /\ q.pc \in {"session", "mint"} => q.email \in Emails
         /\ q.pc \in {"free", "write"} =>
              /\ q.email \in Emails /\ q.phone \in Phones /\ q.exists \in BOOLEAN /\ q.holders \in SUBSET Emails
              /\ q = [pc |-> q.pc, email |-> q.email, phone |-> q.phone, exists |-> q.exists, holders |-> q.holders]
         /\ q.pc = "reset" => q.link \in ResetLinks /\ q.email \in Emails
BY DEF RequestRow, Accounts!Done

LEMMA GoodStays ==
  ASSUME NEW q, GoodFor(q, user), UsersGrow
  PROVE  GoodFor(q, user')
<1>1. q \in RequestRow
  BY DEF GoodFor
<1>. QED
  BY <1>1, RequestPlaces DEF GoodFor, UsersGrow

LEMMA PeopleGoOn ==
  ASSUME PeopleInv, user' \in [Emails -> Accounts!UserRow \cup {NoOne}], UsersGrow, PhonesUnique',
         session' \in [Sessions -> Emails \cup {NoOne}],
         \A s \in Sessions : session'[s] # NoOne /\ session'[s] # session[s]
                             => user'[session'[s]] # NoOne /\ user'[session'[s]].verified,
         link' \in [ResetLinks -> Accounts!LinkRow \cup {NoCode}],
         \/ request' = request
         \/ \E r \in Requests : \E to : GoodFor(to, user') /\ request' = [request EXCEPT ![r] = to]
  PROVE  PeopleInv'
<1>1. PeopleTables'
  BY DEF PeopleInv, PeopleTables, GoodFor
<1>2. SessionsVerified'
  <2>. SUFFICES ASSUME NEW s \in Sessions, session'[s] # NoOne
                PROVE  user'[session'[s]] # NoOne /\ user'[session'[s]].verified
    BY DEF SessionsVerified
  <2>1. CASE session'[s] = session[s]
    BY <2>1 DEF PeopleInv, PeopleTables, SessionsVerified, UsersGrow
  <2>. QED
    BY <2>1
<1>3. \A r \in Requests : GoodFor(request'[r], user')
  BY GoodStays DEF PeopleInv, PeopleTables
<1>. QED
  BY <1>1, <1>2, <1>3 DEF PeopleInv

LEMMA SameUsers ==
  ASSUME PeopleInv, user' = user
  PROVE  user' \in [Emails -> Accounts!UserRow \cup {NoOne}] /\ UsersGrow /\ PhonesUnique'
BY DEF PeopleInv, PeopleTables, PhonesUnique, UsersGrow

LEMMA SameCodes ==
  ASSUME CodesInv, UNCHANGED <<otp, sent, compared, uses>>
  PROVE  CodesInv'
BY DEF CodesInv, CodeTables, RowsCount, RowsApart, Unsent, Bounded

(* A request that moves, with accounts, sessions and links as they are.    *)
LEMMA RequestMoves ==
  ASSUME PeopleInv, user' = user, session' = session, link' = link,
         NEW r \in Requests, NEW to, GoodFor(to, user), request' = [request EXCEPT ![r] = to]
  PROVE  PeopleInv'
<1>1. user' \in [Emails -> Accounts!UserRow \cup {NoOne}] /\ UsersGrow /\ PhonesUnique'
  BY SameUsers
<1>2. session' \in [Sessions -> Emails \cup {NoOne}] /\ link' \in [ResetLinks -> Accounts!LinkRow \cup {NoCode}]
  BY DEF PeopleInv, PeopleTables
<1>. QED
  BY <1>1, <1>2, PeopleGoOn

LEMMA DoneIsGood == \A users : GoodFor(Accounts!Done, users)
BY DEF GoodFor, RequestRow, Accounts!Done

LEMMA WhatIsRead ==
  ASSUME PeopleInv, NEW r \in Requests
  PROVE  request[r] \in RequestRow /\ GoodFor(request[r], user)
BY DEF PeopleInv, PeopleTables

-----------------------------------------------------------------------------
LEMMA ReadingSteps ==
  ASSUME SignInInv, NEW r \in Requests,
         \/ Accounts!IssueRead(r) \/ Accounts!ReadCode(r)
         \/ \E p \in Phones : Accounts!Resend(r, p) \/ \E guess \in sent \cup {NoCode} : Accounts!Enter(r, p, guess)
         \/ \E e \in Emails : \/ Accounts!PasswordSignIn(r, e)
                              \/ \E p \in Phones : Accounts!SignUpRead(r, e, p)
         \/ \E t \in ResetLinks : Accounts!OpenLink(r, t)
  PROVE  SignInInv'
<1>. USE DEF Accounts!Proceeds, Accounts!Ends, Accounts!codeVars
<1>0. PeopleInv /\ CodesInv
  BY DEF SignInInv
<1>a. request[r] \in RequestRow /\ GoodFor(request[r], user)
  BY <1>0, WhatIsRead
<1>b. CodeTables /\ RowsCount
  BY <1>0 DEF CodesInv
<1>1. UNCHANGED <<user, session, link, otp, sent, compared, uses>>
  BY DEF Accounts!IssueRead, Accounts!ReadCode, Accounts!Resend, Accounts!Enter, Accounts!PasswordSignIn,
         Accounts!SignUpRead, Accounts!OpenLink
<1>2. \E to : GoodFor(to, user) /\ request' = [request EXCEPT ![r] = to]
  <2>1. CASE Accounts!IssueRead(r)
    <3>1. CASE request' = [request EXCEPT ![r] = Accounts!Done]
      BY <3>1, DoneIsGood
    <3>2. CASE request' = [request EXCEPT ![r] = [pc |-> "send", phone |-> request[r].phone,
                                                  found |-> otp[request[r].phone] # NoCode]]
      <4>1. request[r].phone \in Phones
        BY <2>1, <1>a, RequestPlaces DEF Accounts!IssueRead
      <4>2. GoodFor([pc |-> "send", phone |-> request[r].phone, found |-> otp[request[r].phone] # NoCode], user)
        BY <4>1 DEF GoodFor, RequestRow
      <4>. QED
        BY <3>2, <4>2
    <3>. QED
      BY <2>1, <3>1, <3>2 DEF Accounts!IssueRead
  <2>2. CASE Accounts!ReadCode(r)
    <3>. DEFINE to == [pc |-> "claim", phone |-> request[r].phone, guess |-> request[r].guess,
                       email |-> request[r].email, verified |-> request[r].verified,
                       code |-> otp[request[r].phone].code]
    <3>1. CASE request' = [request EXCEPT ![r] = Accounts!Done]
      BY <3>1, DoneIsGood
    <3>2. CASE otp[request[r].phone] # NoCode /\ request' = [request EXCEPT ![r] = to]
      <4>1. /\ request[r].pc = "readCode" /\ request[r].phone \in Phones /\ request[r].email \in Emails
            /\ request[r].guess \in Codes \cup {NoCode} /\ request[r].verified \in BOOLEAN
        BY <2>2, <1>a, RequestPlaces DEF Accounts!ReadCode
      <4>2. otp[request[r].phone].code \in Codes
        BY <4>1, <3>2, <1>b DEF CodeTables, RowsCount
      <4>3. to \in RequestRow
        BY <4>1, <4>2 DEF RequestRow
      <4>4. GoodFor(to, user)
        BY <4>1, <4>3, <1>a DEF GoodFor
      <4>. QED
        BY <3>2, <4>4
    <3>. QED
      BY <2>2, <3>1, <3>2 DEF Accounts!ReadCode
  <2>3. ASSUME NEW p \in Phones, Accounts!Resend(r, p)
        PROVE  \E to : GoodFor(to, user) /\ request' = [request EXCEPT ![r] = to]
    <3>1. GoodFor([pc |-> "issue", phone |-> p], user)
      BY DEF GoodFor, RequestRow
    <3>. QED
      BY <2>3, <3>1 DEF Accounts!Resend
  <2>4. ASSUME NEW p \in Phones, NEW guess \in sent \cup {NoCode}, Accounts!Enter(r, p, guess)
        PROVE  \E to : GoodFor(to, user) /\ request' = [request EXCEPT ![r] = to]
    <3>1. PICK e \in Accounts!OwnerOf(p) : request' = [request EXCEPT ![r] =
            [pc |-> "readCode", phone |-> p, guess |-> guess, email |-> e, verified |-> user[e].verified]]
      BY <2>4 DEF Accounts!Enter
    <3>2. e \in Emails /\ user[e] # NoOne /\ user[e].verified \in BOOLEAN /\ guess \in Codes \cup {NoCode}
      BY <1>0, <1>b DEF Accounts!OwnerOf, Accounts!Known, PeopleInv, PeopleTables, Accounts!UserRow, CodeTables
    <3>3. GoodFor([pc |-> "readCode", phone |-> p, guess |-> guess, email |-> e, verified |-> user[e].verified], user)
      BY <3>2 DEF GoodFor, RequestRow
    <3>. QED
      BY <3>1, <3>3
  <2>5. ASSUME NEW e \in Emails, Accounts!PasswordSignIn(r, e)
        PROVE  \E to : GoodFor(to, user) /\ request' = [request EXCEPT ![r] = to]
    <3>1. user[e] # NoOne /\ user[e].verified /\ request' = [request EXCEPT ![r] = [pc |-> "session", email |-> e]]
      BY <2>5 DEF Accounts!PasswordSignIn, Accounts!MaySignIn, Accounts!Known
    <3>2. GoodFor([pc |-> "session", email |-> e], user)
      BY <3>1 DEF GoodFor, RequestRow
    <3>. QED
      BY <3>1, <3>2
  <2>6. ASSUME NEW e \in Emails, NEW p \in Phones, Accounts!SignUpRead(r, e, p)
        PROVE  \E to : GoodFor(to, user) /\ request' = [request EXCEPT ![r] = to]
    <3>. DEFINE to == [pc |-> "free", email |-> e, phone |-> p, exists |-> e \in Accounts!Known,
                       holders |-> Accounts!OwnerOf(p) \ {e}]
    <3>1. to \in RequestRow /\ \A h \in Accounts!OwnerOf(p) : user[h] # NoOne
      BY DEF RequestRow, Accounts!OwnerOf, Accounts!Known
    <3>2. GoodFor(to, user)
      BY <3>1 DEF GoodFor
    <3>. QED
      BY <2>6, <3>2 DEF Accounts!SignUpRead
  <2>7. ASSUME NEW t \in ResetLinks, Accounts!OpenLink(r, t)
        PROVE  \E to : GoodFor(to, user) /\ request' = [request EXCEPT ![r] = to]
    <3>1. link[t].email \in Emails
      BY <2>7, <1>0 DEF Accounts!OpenLink, PeopleInv, PeopleTables, Accounts!LinkRow
    <3>2. GoodFor([pc |-> "reset", link |-> t, email |-> link[t].email], user)
      BY <3>1 DEF GoodFor, RequestRow
    <3>. QED
      BY <2>7, <3>2 DEF Accounts!OpenLink
  <2>. QED
    BY <2>1, <2>2, <2>3, <2>4, <2>5, <2>6, <2>7
<1>. QED
  BY <1>0, <1>1, <1>2, RequestMoves, SameCodes DEF SignInInv

-----------------------------------------------------------------------------
LEMMA SendStep ==
  ASSUME SignInInv, NEW r \in Requests, Accounts!Send(r)
  PROVE  SignInInv'
<1>0. PeopleInv /\ CodesInv
  BY DEF SignInInv
<1>1. PeopleInv'
  <2>1. UNCHANGED <<user, session, link>> /\ request' = [request EXCEPT ![r] = Accounts!Done]
    BY DEF Accounts!Send, Accounts!Ends, Accounts!Proceeds
  <2>. QED
    BY <1>0, <2>1, DoneIsGood, RequestMoves
<1>2. PICK p \in Phones : p = request[r].phone
  BY <1>0, WhatIsRead, RequestPlaces DEF Accounts!Send
<1>3. compared' = compared /\ uses' = uses
  BY DEF Accounts!Send
<1>4. CASE otp' = otp /\ sent' = sent
  BY <1>0, <1>1, <1>3, <1>4, SameCodes DEF SignInInv
<1>5. CASE \E k \in Codes \ sent : /\ otp' = [otp EXCEPT ![p] = [code |-> k, attempts |-> 0]]
                                   /\ sent' = sent \cup {k}
  <2>1. PICK k \in Codes \ sent : /\ otp' = [otp EXCEPT ![p] = [code |-> k, attempts |-> 0]]
                                  /\ sent' = sent \cup {k}
    BY <1>5
  <2>2. CodeTables /\ RowsCount /\ RowsApart /\ Unsent /\ Bounded
    BY <1>0 DEF CodesInv
  <2>. DEFINE row == [code |-> k, attempts |-> 0]
  <2>3. row \in Accounts!OtpRow /\ row.code = k /\ row.attempts = 0
    BY DEF Accounts!OtpRow
  <2>4. compared[k] = 0 /\ uses[k] = 0
    BY <2>1, <2>2 DEF Unsent
  <2>. HIDE DEF row
  <2>5. otp' = [otp EXCEPT ![p] = row]
    BY <2>1 DEF row
  <2>6. CodeTables'
    BY <1>3, <2>1, <2>2, <2>3, <2>5 DEF CodeTables
  <2>7. RowsCount'
    BY <1>3, <2>1, <2>2, <2>3, <2>4, <2>5 DEF CodeTables, RowsCount
  <2>8. RowsApart'
    BY <2>1, <2>2, <2>3, <2>5 DEF CodeTables, RowsCount, RowsApart
  <2>9. Unsent' /\ Bounded'
    BY <1>3, <2>1, <2>2 DEF Unsent, Bounded
  <2>. QED
    BY <1>1, <2>6, <2>7, <2>8, <2>9 DEF CodesInv, SignInInv
<1>6. (otp' = otp /\ sent' = sent)
        \/ \E k \in Codes \ sent : /\ otp' = [otp EXCEPT ![p] = [code |-> k, attempts |-> 0]]
                                  /\ sent' = sent \cup {k}
  BY <1>2 DEF Accounts!Send
<1>. QED
  BY <1>1, <1>4, <1>5, <1>6 DEF SignInInv

LEMMA ClaimStep ==
  ASSUME SignInInv, NEW r \in Requests, Accounts!ClaimAndCompare(r)
  PROVE  SignInInv'
<1>0. PeopleInv /\ CodesInv
  BY DEF SignInInv
<1>1. /\ request[r].pc = "claim" /\ request[r] \in RequestRow /\ GoodFor(request[r], user)
  BY <1>0, WhatIsRead DEF Accounts!ClaimAndCompare
<1>2. PICK p \in Phones, k \in Codes : p = request[r].phone /\ k = request[r].code
  BY <1>1, RequestPlaces
<1>3. /\ UNCHANGED <<user, session, link>>
      /\ \/ request' = [request EXCEPT ![r] = Accounts!Done]
         \/ request' = [request EXCEPT ![r] = [request[r] EXCEPT !.pc = "consume"]]
  BY DEF Accounts!ClaimAndCompare, Accounts!Ends, Accounts!Proceeds
<1>4. PeopleInv'
  <2>1. PICK q : q = [request[r] EXCEPT !.pc = "consume"]
    OBVIOUS
  <2>2. q = [pc |-> "consume", phone |-> request[r].phone, guess |-> request[r].guess, email |-> request[r].email,
             verified |-> request[r].verified, code |-> request[r].code]
    BY <1>1, <2>1, RequestPlaces
  <2>3. q \in RequestRow
    BY <1>1, <2>2, RequestPlaces DEF RequestRow
  <2>4. GoodFor(q, user)
    BY <1>1, <2>2, <2>3 DEF GoodFor
  <2>. QED
    BY <1>0, <1>3, <2>1, <2>4, DoneIsGood, RequestMoves
<1>5. sent' = sent /\ uses' = uses
  BY DEF Accounts!ClaimAndCompare
<1>6. CASE Accounts!Claimable(r)
  <2>1. /\ otp[p] # NoCode /\ otp[p].code = k /\ otp[p].attempts < MaxAttempts
        /\ otp' = [otp EXCEPT ![p] = [otp[p] EXCEPT !.attempts = @ + 1]]
        /\ compared' = [compared EXCEPT ![k] = @ + 1]
    BY <1>2, <1>6 DEF Accounts!ClaimAndCompare, Accounts!Claimable
  <2>2. CodeTables /\ RowsCount /\ RowsApart /\ Unsent /\ Bounded
    BY <1>0 DEF CodesInv
  <2>3. PICK row : row = [otp[p] EXCEPT !.attempts = @ + 1]
    OBVIOUS
  <2>4. /\ row \in Accounts!OtpRow /\ row.code = k /\ row.attempts = otp[p].attempts + 1
        /\ otp[p].attempts = compared[k] /\ compared[k] \in Nat /\ uses[k] = 0 /\ k \in sent
    BY <2>1, <2>2, <2>3 DEF CodeTables, RowsCount, Accounts!OtpRow
  <2>5. otp' = [otp EXCEPT ![p] = row]
    BY <2>1, <2>3
  <2>6. CodeTables'
    BY <1>5, <2>1, <2>2, <2>4, <2>5 DEF CodeTables
  <2>7. \A o \in Phones \ {p} : otp[o] # NoCode => otp[o].code # k
    BY <2>1, <2>2 DEF RowsApart
  <2>8. RowsCount'
    BY <1>5, <2>1, <2>2, <2>4, <2>5, <2>7 DEF CodeTables, RowsCount
  <2>9. RowsApart'
    BY <2>2, <2>4, <2>5, <2>7 DEF CodeTables, RowsApart
  <2>10. Unsent'
    BY <1>5, <2>1, <2>2, <2>4 DEF CodeTables, Unsent
  <2>11. Bounded'
    BY <2>1, <2>2, <2>4, SignInAssumption DEF CodeTables, Bounded
  <2>. QED
    BY <1>4, <2>6, <2>8, <2>9, <2>10, <2>11 DEF CodesInv, SignInInv
<1>7. CASE ~Accounts!Claimable(r)
  <2>1. otp' = otp /\ compared' = compared
    BY <1>7 DEF Accounts!ClaimAndCompare
  <2>. QED
    BY <1>0, <1>4, <1>5, <2>1, SameCodes DEF SignInInv
<1>. QED
  BY <1>6, <1>7

LEMMA ConsumeStep ==
  ASSUME SignInInv, NEW r \in Requests, Accounts!Consume(r)
  PROVE  /\ SignInInv'
         /\ \A k \in Codes : uses'[k] # uses[k] =>
              uses[k] = 0 /\ \E p \in Phones : otp[p] # NoCode /\ otp[p].code = k
<1>0. PeopleInv /\ CodesInv
  BY DEF SignInInv
<1>1. /\ request[r].pc = "consume" /\ request[r] \in RequestRow /\ GoodFor(request[r], user)
  BY <1>0, WhatIsRead DEF Accounts!Consume
<1>2. PICK p \in Phones, k \in Codes : p = request[r].phone /\ k = request[r].code
  BY <1>1, RequestPlaces
<1>3. PICK q : q = [pc |-> "verify", email |-> request[r].email, verified |-> request[r].verified]
  OBVIOUS
<1>4. /\ UNCHANGED <<user, session, link>> /\ sent' = sent /\ compared' = compared
      /\ \/ request' = [request EXCEPT ![r] = Accounts!Done]
         \/ request' = [request EXCEPT ![r] = q]
  BY <1>3 DEF Accounts!Consume, Accounts!Ends, Accounts!Proceeds
<1>5. PeopleInv'
  <2>1. q \in RequestRow
    BY <1>1, <1>3, RequestPlaces DEF RequestRow
  <2>2. GoodFor(q, user)
    BY <1>1, <1>3, <2>1 DEF GoodFor
  <2>. QED
    BY <1>0, <1>4, <2>2, DoneIsGood, RequestMoves
<1>6. CASE Accounts!Consumable(r)
  <2>1. /\ otp[p] # NoCode /\ otp[p].code = k
        /\ otp' = [otp EXCEPT ![p] = NoCode]
        /\ uses' = [uses EXCEPT ![k] = @ + 1]
    BY <1>2, <1>6 DEF Accounts!Consume, Accounts!Consumable
  <2>2. CodeTables /\ RowsCount /\ RowsApart /\ Unsent /\ Bounded
    BY <1>0 DEF CodesInv
  <2>3. uses[k] = 0 /\ k \in sent
    BY <2>1, <2>2 DEF RowsCount
  <2>4. \A o \in Phones \ {p} : otp[o] # NoCode => otp[o].code # k
    BY <2>1, <2>2 DEF RowsApart
  <2>5. CodeTables'
    BY <1>4, <2>1, <2>2 DEF CodeTables
  <2>6. RowsCount'
    BY <1>4, <2>1, <2>2, <2>4 DEF CodeTables, RowsCount
  <2>7. RowsApart'
    BY <2>1, <2>2 DEF CodeTables, RowsApart
  <2>8. Unsent' /\ Bounded'
    BY <1>4, <2>1, <2>2, <2>3 DEF CodeTables, Unsent, Bounded
  <2>9. \A c \in Codes : uses'[c] # uses[c] =>
          uses[c] = 0 /\ \E o \in Phones : otp[o] # NoCode /\ otp[o].code = c
    BY <2>1, <2>2, <2>3 DEF CodeTables
  <2>. QED
    BY <1>5, <2>5, <2>6, <2>7, <2>8, <2>9 DEF CodesInv, SignInInv
<1>7. CASE ~Accounts!Consumable(r)
  <2>1. otp' = otp /\ uses' = uses
    BY <1>7 DEF Accounts!Consume
  <2>. QED
    BY <1>0, <1>4, <1>5, <2>1, SameCodes DEF SignInInv
<1>. QED
  BY <1>6, <1>7

-----------------------------------------------------------------------------
LEMMA AccountSteps ==
  ASSUME SignInInv, NEW r \in Requests,
         \/ Accounts!Verify(r) \/ Accounts!FreePhone(r) \/ Accounts!SignUpWrite(r)
         \/ \E e \in Emails : Accounts!GoogleSignIn(r, e)
  PROVE  SignInInv'
<1>. USE DEF Accounts!Proceeds, Accounts!Ends, Accounts!codeVars
<1>0. PeopleInv /\ CodesInv
  BY DEF SignInInv
<1>a. request[r] \in RequestRow /\ GoodFor(request[r], user)
  BY <1>0, WhatIsRead
<1>b. /\ user \in [Emails -> Accounts!UserRow \cup {NoOne}] /\ PhonesUnique
      /\ \A e \in Emails : user[e] # NoOne => user[e] \in Accounts!UserRow /\ user[e].phone \in Phones \cup {NoCode}
                                             /\ user[e].verified \in BOOLEAN
  BY <1>0 DEF PeopleInv, PeopleTables, Accounts!UserRow
<1>c. \A row \in Accounts!UserRow : row # NoOne
  BY SignInAssumption
<1>1. UNCHANGED <<session, link, otp, sent, compared, uses>>
  BY DEF Accounts!Verify, Accounts!FreePhone, Accounts!SignUpWrite, Accounts!GoogleSignIn
<1>2. ASSUME user' \in [Emails -> Accounts!UserRow \cup {NoOne}], UsersGrow, PhonesUnique',
             \E to : GoodFor(to, user') /\ request' = [request EXCEPT ![r] = to]
      PROVE  SignInInv'
  <2>1. session' \in [Sessions -> Emails \cup {NoOne}] /\ link' \in [ResetLinks -> Accounts!LinkRow \cup {NoCode}]
    BY <1>0, <1>1 DEF PeopleInv, PeopleTables
  <2>2. PeopleInv'
    BY <1>0, <1>1, <1>2, <2>1, PeopleGoOn
  <2>. QED
    BY <1>0, <1>1, <2>2, SameCodes DEF SignInInv
(* One account gets a row: its phone is its own, and it stays verified.    *)
<1>3. ASSUME NEW e \in Emails, NEW row \in Accounts!UserRow, user' = [user EXCEPT ![e] = row],
             user[e] # NoOne /\ user[e].verified => row.verified,
             row.phone = NoCode \/ \A f \in Emails \ {e} : user[f] # NoOne => user[f].phone # row.phone
      PROVE  user' \in [Emails -> Accounts!UserRow \cup {NoOne}] /\ UsersGrow /\ PhonesUnique'
  BY <1>b, <1>c, <1>3 DEF UsersGrow, PhonesUnique
<1>4. CASE Accounts!Verify(r)
  <2>1. PICK e \in Emails : e = request[r].email /\ request[r].pc = "verify"
    BY <1>4, <1>a, RequestPlaces DEF Accounts!Verify
  <2>2. user[e] # NoOne /\ (request[r].verified => user[e].verified)
    BY <1>a, <2>1 DEF GoodFor
  <2>3. /\ user' \in [Emails -> Accounts!UserRow \cup {NoOne}] /\ UsersGrow /\ PhonesUnique'
        /\ user'[e] # NoOne /\ user'[e].verified
    <3>1. CASE request[r].verified
      <4>1. user' = user
        BY <1>4, <3>1 DEF Accounts!Verify
      <4>. QED
        BY <1>0, <2>2, <3>1, <4>1, SameUsers
    <3>2. CASE ~request[r].verified
      <4>1. PICK row : row = [user[e] EXCEPT !.verified = TRUE]
        OBVIOUS
      <4>2. user' = [user EXCEPT ![e] = row]
        BY <1>4, <2>1, <3>2, <4>1 DEF Accounts!Verify
      <4>3. row \in Accounts!UserRow /\ row.verified /\ row.phone = user[e].phone
        BY <1>b, <2>2, <4>1 DEF Accounts!UserRow
      <4>4. user[e].phone = NoCode \/ \A f \in Emails \ {e} : user[f] # NoOne => user[f].phone # user[e].phone
        BY <1>b, <2>2 DEF PhonesUnique
      <4>5. user' \in [Emails -> Accounts!UserRow \cup {NoOne}] /\ UsersGrow /\ PhonesUnique'
        BY <1>3, <4>2, <4>3, <4>4
      <4>6. user'[e] = row
        BY <1>b, <4>2
      <4>. QED
        BY <1>c, <4>3, <4>5, <4>6
    <3>. QED
      BY <3>1, <3>2
  <2>4. GoodFor([pc |-> "session", email |-> e], user')
    BY <2>3 DEF GoodFor, RequestRow
  <2>. QED
    BY <1>2, <1>4, <2>1, <2>3, <2>4 DEF Accounts!Verify
<1>5. CASE Accounts!FreePhone(r)
  <2>1. /\ request[r].pc = "free" /\ request[r].holders \in SUBSET Emails
        /\ \A h \in request[r].holders : user[h] # NoOne
        /\ user' = [e \in Emails |-> IF e \in request[r].holders THEN [user[e] EXCEPT !.phone = NoCode] ELSE user[e]]
        /\ request' = [request EXCEPT ![r] = [request[r] EXCEPT !.pc = "write"]]
    BY <1>5, <1>a, RequestPlaces DEF Accounts!FreePhone, GoodFor
  <2>2. \A h \in request[r].holders : /\ [user[h] EXCEPT !.phone = NoCode] \in Accounts!UserRow
                                      /\ [user[h] EXCEPT !.phone = NoCode].phone = NoCode
                                      /\ [user[h] EXCEPT !.phone = NoCode].verified = user[h].verified
    BY <1>b, <2>1 DEF Accounts!UserRow
  <2>3. user' \in [Emails -> Accounts!UserRow \cup {NoOne}] /\ UsersGrow
    BY <1>b, <1>c, <2>1, <2>2 DEF UsersGrow
  <2>4. \A e \in Emails : user'[e] # NoOne => user[e] # NoOne /\ (user'[e].phone \in {NoCode, user[e].phone})
    BY <2>1, <2>2
  <2>5. PhonesUnique'
    BY <1>b, <2>4 DEF PhonesUnique
  <2>6. PICK q : q = [request[r] EXCEPT !.pc = "write"]
    OBVIOUS
  <2>7. q = [pc |-> "write", email |-> request[r].email, phone |-> request[r].phone,
             exists |-> request[r].exists, holders |-> request[r].holders]
    BY <1>a, <2>1, <2>6, RequestPlaces
  <2>8. q \in RequestRow
    BY <1>a, <2>1, <2>7, RequestPlaces DEF RequestRow
  <2>9. GoodFor(q, user')
    BY <2>1, <2>3, <2>7, <2>8 DEF GoodFor, UsersGrow
  <2>. QED
    BY <1>2, <2>1, <2>3, <2>5, <2>6, <2>9
<1>6. CASE Accounts!SignUpWrite(r)
  <2>1. PICK e \in Emails, p \in Phones : e = request[r].email /\ p = request[r].phone /\ request[r].pc = "write"
    BY <1>6, <1>a, RequestPlaces DEF Accounts!SignUpWrite
  <2>2. CASE user' = user /\ request' = [request EXCEPT ![r] = Accounts!Done]
    BY <1>0, <1>2, <2>2, DoneIsGood, SameUsers
  <2>3. CASE /\ Accounts!OwnerOf(p) \ {e} = {}
             /\ user' = [user EXCEPT ![e] = [phone |-> p, verified |-> e \in Accounts!Known /\ user[e].verified]]
             /\ request' = [request EXCEPT ![r] = [pc |-> "issue", phone |-> p]]
    <3>1. PICK row : row = [phone |-> p, verified |-> e \in Accounts!Known /\ user[e].verified]
      OBVIOUS
    <3>2. /\ row \in Accounts!UserRow /\ row.phone = p
          /\ user[e] # NoOne /\ user[e].verified => row.verified
      BY <1>b, <3>1 DEF Accounts!UserRow, Accounts!Known
    <3>3. \A f \in Emails \ {e} : user[f] # NoOne => user[f].phone # row.phone
      BY <2>3, <3>2 DEF Accounts!OwnerOf, Accounts!Known
    <3>4. user' \in [Emails -> Accounts!UserRow \cup {NoOne}] /\ UsersGrow /\ PhonesUnique'
      BY <1>3, <2>3, <3>1, <3>2, <3>3
    <3>5. GoodFor([pc |-> "issue", phone |-> p], user')
      BY DEF GoodFor, RequestRow
    <3>. QED
      BY <1>2, <2>3, <3>4, <3>5
  <2>. QED
    BY <1>6, <2>1, <2>2, <2>3 DEF Accounts!SignUpWrite
<1>7. ASSUME NEW e \in Emails, Accounts!GoogleSignIn(r, e)
      PROVE  SignInInv'
  <2>1. PICK row : row = [phone |-> IF e \in Accounts!Known THEN user[e].phone ELSE NoCode, verified |-> TRUE]
    OBVIOUS
  <2>2. user' = [user EXCEPT ![e] = row] /\ request' = [request EXCEPT ![r] = [pc |-> "session", email |-> e]]
    BY <1>7, <2>1 DEF Accounts!GoogleSignIn
  <2>3. /\ row \in Accounts!UserRow /\ row.verified
        /\ row.phone = IF user[e] # NoOne THEN user[e].phone ELSE NoCode
    BY <1>b, <2>1 DEF Accounts!UserRow, Accounts!Known
  <2>4. row.phone = NoCode \/ \A f \in Emails \ {e} : user[f] # NoOne => user[f].phone # row.phone
    BY <1>b, <2>3 DEF PhonesUnique
  <2>5. user' \in [Emails -> Accounts!UserRow \cup {NoOne}] /\ UsersGrow /\ PhonesUnique'
    BY <1>3, <2>2, <2>3, <2>4
  <2>6. user'[e] = row
    BY <1>b, <2>2
  <2>7. GoodFor([pc |-> "session", email |-> e], user')
    BY <1>c, <2>3, <2>6 DEF GoodFor, RequestRow
  <2>. QED
    BY <1>2, <2>2, <2>5, <2>7
<1>. QED
  BY <1>4, <1>5, <1>6, <1>7

-----------------------------------------------------------------------------
LEMMA SessionSteps ==
  ASSUME SignInInv,
         \/ \E r \in Requests : Accounts!StartSession(r) \/ Accounts!MintLink(r) \/ Accounts!ResetPassword(r)
         \/ \E r \in Requests, e \in Emails : Accounts!AskReset(r, e)
         \/ \E s \in Sessions : Accounts!Logout(s)
         \/ \E e \in Emails : Accounts!LogoutEverywhere(e)
  PROVE  SignInInv'
<1>. USE DEF Accounts!Proceeds, Accounts!Ends, Accounts!codeVars
<1>0. PeopleInv /\ CodesInv
  BY DEF SignInInv
<1>a. session \in [Sessions -> Emails \cup {NoOne}] /\ link \in [ResetLinks -> Accounts!LinkRow \cup {NoCode}]
  BY <1>0 DEF PeopleInv, PeopleTables
<1>1. user' = user /\ UNCHANGED <<otp, sent, compared, uses>>
  BY DEF Accounts!StartSession, Accounts!MintLink, Accounts!ResetPassword, Accounts!AskReset, Accounts!Logout,
         Accounts!LogoutEverywhere
<1>2. ASSUME session' \in [Sessions -> Emails \cup {NoOne}],
             \A s \in Sessions : session'[s] # NoOne /\ session'[s] # session[s]
                                => user[session'[s]] # NoOne /\ user[session'[s]].verified,
             link' \in [ResetLinks -> Accounts!LinkRow \cup {NoCode}],
             \/ request' = request
             \/ \E r \in Requests : \E to : GoodFor(to, user) /\ request' = [request EXCEPT ![r] = to]
      PROVE  SignInInv'
  <2>1. user' \in [Emails -> Accounts!UserRow \cup {NoOne}] /\ UsersGrow /\ PhonesUnique'
    BY <1>0, <1>1, SameUsers
  <2>2. PeopleInv'
    BY <1>0, <1>1, <1>2, <2>1, PeopleGoOn
  <2>. QED
    BY <1>0, <1>1, <2>2, SameCodes DEF SignInInv
<1>3. ASSUME NEW r \in Requests, Accounts!StartSession(r)
      PROVE  SignInInv'
  <2>1. /\ request[r].email \in Emails
        /\ user[request[r].email] # NoOne /\ user[request[r].email].verified
    BY <1>0, <1>3, WhatIsRead, RequestPlaces DEF Accounts!StartSession, GoodFor
  <2>2. PICK s \in Sessions : session' = [session EXCEPT ![s] = request[r].email]
    BY <1>3 DEF Accounts!StartSession
  <2>3. link' = link /\ request' = [request EXCEPT ![r] = Accounts!Done]
    BY <1>3 DEF Accounts!StartSession
  <2>4. session' \in [Sessions -> Emails \cup {NoOne}]
    BY <1>a, <2>1, <2>2
  <2>5. \A o \in Sessions : session'[o] # session[o] => session'[o] = request[r].email
    BY <1>a, <2>2
  <2>. QED
    BY <1>2, <1>a, <2>1, <2>3, <2>4, <2>5, DoneIsGood
<1>4. ASSUME NEW r \in Requests, Accounts!MintLink(r)
      PROVE  SignInInv'
  <2>1. request[r].email \in Emails
    BY <1>0, <1>4, WhatIsRead, RequestPlaces DEF Accounts!MintLink
  <2>2. PICK t \in ResetLinks : link' = [link EXCEPT ![t] = [email |-> request[r].email, used |-> FALSE]]
    BY <1>4 DEF Accounts!MintLink
  <2>3. link' \in [ResetLinks -> Accounts!LinkRow \cup {NoCode}]
    BY <1>a, <2>1, <2>2 DEF Accounts!LinkRow
  <2>. QED
    BY <1>2, <1>4, <1>a, <2>3, DoneIsGood DEF Accounts!MintLink
<1>5. ASSUME NEW r \in Requests, Accounts!ResetPassword(r)
      PROVE  SignInInv'
  <2>1. PICK t \in ResetLinks : t = request[r].link
    BY <1>0, <1>5, WhatIsRead, RequestPlaces DEF Accounts!ResetPassword
  <2>2. request' = [request EXCEPT ![r] = Accounts!Done]
    BY <1>5 DEF Accounts!ResetPassword
  <2>3. CASE link[t] = NoCode
    BY <1>2, <1>5, <1>a, <2>1, <2>2, <2>3, DoneIsGood DEF Accounts!ResetPassword
  <2>4. CASE link[t] # NoCode
    <3>1. /\ link' = [link EXCEPT ![t] = [link[t] EXCEPT !.used = TRUE]]
          /\ session' = [s \in Sessions |-> IF session[s] = request[r].email THEN NoOne ELSE session[s]]
      BY <1>5, <2>1, <2>4 DEF Accounts!ResetPassword
    <3>2. [link[t] EXCEPT !.used = TRUE] \in Accounts!LinkRow
      BY <1>a, <2>4 DEF Accounts!LinkRow
    <3>3. link' \in [ResetLinks -> Accounts!LinkRow \cup {NoCode}]
      BY <1>a, <3>1, <3>2
    <3>4. /\ session' \in [Sessions -> Emails \cup {NoOne}]
          /\ \A s \in Sessions : session'[s] \in {NoOne, session[s]}
      BY <1>a, <3>1
    <3>. QED
      BY <1>2, <2>2, <3>3, <3>4, DoneIsGood
  <2>. QED
    BY <2>3, <2>4
<1>6. ASSUME NEW r \in Requests, NEW e \in Emails, Accounts!AskReset(r, e)
      PROVE  SignInInv'
  <2>1. /\ session' = session
        /\ link' = [t \in ResetLinks |-> IF t \in Accounts!UnusedOf(e) THEN NoCode ELSE link[t]]
        /\ request' = [request EXCEPT ![r] = [pc |-> "mint", email |-> e]]
    BY <1>6 DEF Accounts!AskReset
  <2>2. link' \in [ResetLinks -> Accounts!LinkRow \cup {NoCode}]
    BY <1>a, <2>1
  <2>3. GoodFor([pc |-> "mint", email |-> e], user)
    BY DEF GoodFor, RequestRow
  <2>. QED
    BY <1>2, <1>a, <2>1, <2>2, <2>3
<1>7. ASSUME NEW s \in Sessions, Accounts!Logout(s)
      PROVE  SignInInv'
  BY <1>2, <1>7, <1>a DEF Accounts!Logout
<1>8. ASSUME NEW e \in Emails, Accounts!LogoutEverywhere(e)
      PROVE  SignInInv'
  BY <1>2, <1>8, <1>a DEF Accounts!LogoutEverywhere
<1>. QED
  BY <1>3, <1>4, <1>5, <1>6, <1>7, <1>8

LEMMA SignInStarts == Accounts!Init => SignInInv
<1>. SUFFICES ASSUME Accounts!Init PROVE SignInInv
  OBVIOUS
<1>1. CodesInv
  BY SignInAssumption DEF Accounts!Init, CodesInv, CodeTables, RowsCount, RowsApart, Unsent, Bounded
<1>2. PeopleTables /\ \A r \in Requests : GoodFor(request[r], user)
  BY DoneIsGood DEF Accounts!Init, PeopleTables, RequestRow
<1>. QED
  BY <1>1, <1>2 DEF Accounts!Init, SignInInv, PeopleInv, PhonesUnique, SessionsVerified

LEMMA UsesStay ==
  ASSUME uses' = uses
  PROVE  \A k \in Codes : uses'[k] # uses[k] =>
           uses[k] = 0 /\ \E p \in Phones : otp[p] # NoCode /\ otp[p].code = k
OBVIOUS

LEMMA SignInGoesOn ==
  ASSUME SignInInv, [Accounts!Next]_signInVars
  PROVE  /\ SignInInv'
         /\ \A k \in Codes : uses'[k] # uses[k] =>
              uses[k] = 0 /\ \E p \in Phones : otp[p] # NoCode /\ otp[p].code = k
<1>1. CASE UNCHANGED signInVars
  <2>1. /\ PeopleInv /\ CodesInv /\ UNCHANGED <<otp, sent, compared, uses>>
        /\ user' = user /\ session' = session /\ link' = link /\ request' = request
    BY <1>1 DEF signInVars, SignInInv
  <2>2. PeopleInv'
    BY <2>1 DEF PeopleInv, PeopleTables, PhonesUnique, SessionsVerified
  <2>. QED
    BY <2>1, <2>2, SameCodes, UsesStay DEF SignInInv
<1>2. ASSUME NEW r \in Requests,
             \/ Accounts!IssueRead(r) \/ Accounts!ReadCode(r)
             \/ \E p \in Phones : Accounts!Resend(r, p) \/ \E guess \in sent \cup {NoCode} : Accounts!Enter(r, p, guess)
             \/ \E e \in Emails : \/ Accounts!PasswordSignIn(r, e)
                                  \/ \E p \in Phones : Accounts!SignUpRead(r, e, p)
             \/ \E t \in ResetLinks : Accounts!OpenLink(r, t)
      PROVE  SignInInv' /\ uses' = uses
  <2>1. uses' = uses
    BY <1>2 DEF Accounts!IssueRead, Accounts!ReadCode, Accounts!Resend, Accounts!Enter, Accounts!PasswordSignIn,
                Accounts!SignUpRead, Accounts!OpenLink, Accounts!codeVars
  <2>. QED
    BY <1>2, <2>1, ReadingSteps
<1>3. ASSUME NEW r \in Requests, Accounts!Send(r) \/ Accounts!ClaimAndCompare(r)
      PROVE  SignInInv' /\ uses' = uses
  <2>1. uses' = uses
    BY <1>3 DEF Accounts!Send, Accounts!ClaimAndCompare
  <2>. QED
    BY <1>3, <2>1, SendStep, ClaimStep
<1>4. ASSUME NEW r \in Requests,
             \/ Accounts!Verify(r) \/ Accounts!FreePhone(r) \/ Accounts!SignUpWrite(r)
             \/ \E e \in Emails : Accounts!GoogleSignIn(r, e)
      PROVE  SignInInv' /\ uses' = uses
  <2>1. uses' = uses
    BY <1>4 DEF Accounts!Verify, Accounts!FreePhone, Accounts!SignUpWrite, Accounts!GoogleSignIn, Accounts!codeVars
  <2>. QED
    BY <1>4, <2>1, AccountSteps
<1>5. ASSUME \/ \E r \in Requests : Accounts!StartSession(r) \/ Accounts!MintLink(r) \/ Accounts!ResetPassword(r)
             \/ \E r \in Requests, e \in Emails : Accounts!AskReset(r, e)
             \/ \E s \in Sessions : Accounts!Logout(s)
             \/ \E e \in Emails : Accounts!LogoutEverywhere(e)
      PROVE  SignInInv' /\ uses' = uses
  <2>1. uses' = uses
    BY <1>5 DEF Accounts!StartSession, Accounts!MintLink, Accounts!ResetPassword, Accounts!AskReset,
                Accounts!Logout, Accounts!LogoutEverywhere, Accounts!codeVars
  <2>. QED
    BY <1>5, <2>1, SessionSteps
<1>6. CASE Accounts!Next
  BY <1>2, <1>3, <1>4, <1>5, <1>6, ConsumeStep, UsesStay DEF Accounts!Next
<1>. QED
  BY <1>1, <1>6

LEMMA SignInInvGives == SignInInv => Accounts!TypeOK /\ Accounts!AttemptsBounded
<1>. SUFFICES ASSUME SignInInv PROVE Accounts!TypeOK /\ Accounts!AttemptsBounded
  OBVIOUS
<1>1. PeopleInv /\ CodesInv
  BY DEF SignInInv
<1>2. /\ \A e \in Accounts!Known : user[e] \in Accounts!UserRow
      /\ \A t \in ResetLinks : link[t] # NoCode => link[t] \in Accounts!LinkRow
  BY <1>1 DEF Accounts!Known, PeopleInv, PeopleTables
<1>3. ASSUME NEW p \in Phones, otp[p] # NoCode
      PROVE  otp[p] \in Accounts!OtpRow /\ otp[p].code \in sent /\ otp[p].attempts \in 0..MaxAttempts
  <2>1. /\ otp[p] \in Accounts!OtpRow /\ otp[p].code \in sent /\ sent \subseteq Codes
        /\ otp[p].attempts = compared[otp[p].code] /\ compared \in [Codes -> Nat]
        /\ \A k \in Codes : compared[k] <= MaxAttempts
    BY <1>1, <1>3 DEF CodesInv, CodeTables, RowsCount, Bounded
  <2>. QED
    BY <2>1, SignInAssumption
<1>4. \A e, f \in Accounts!Known : e # f /\ user[e].phone = user[f].phone => user[e].phone = NoCode
  BY <1>1 DEF Accounts!Known, PeopleInv, PhonesUnique
<1>5. \A s \in Sessions : session[s] # NoOne => session[s] \in Accounts!Known /\ user[session[s]].verified
  BY <1>1 DEF Accounts!Known, PeopleInv, PeopleTables, SessionsVerified
<1>. QED
  BY <1>1, <1>2, <1>3, <1>4, <1>5 DEF Accounts!TypeOK, Accounts!AttemptsBounded, CodesInv, Bounded

LEMMA SpecSignsIn == Spec => Accounts!Init /\ [][Accounts!Next]_signInVars
<1>1. Init => Accounts!Init
  BY DEF Init
<1>2. [Next]_vars => [Accounts!Next]_signInVars
  BY DEF Next, vars, signInVars
<1>. QED
  BY <1>1, <1>2, PTL DEF Spec

LEMMA SignInAlways == Spec => []SignInInv
BY SpecSignsIn, SignInStarts, SignInGoesOn, PTL

(* However many requests guess at once, a code is compared with at most as *)
(* many guesses as are allowed (auth/service.ts: consumeOtp).              *)
THEOREM AttemptsStayBounded == Spec => []AttemptsBounded
BY SignInAlways, SignInInvGives, PTL DEF AttemptsBounded

(* A code lets one request through, and only while it is the last one sent *)
(* to its phone (consumeOtp, issueOtp).                                    *)
THEOREM CodesServeOnce == Spec => CodeServesOnce
<1>1. SignInInv /\ [Accounts!Next]_signInVars =>
        [\A k \in Codes : uses'[k] # uses[k] =>
           uses[k] = 0 /\ \E p \in Phones : otp[p] # NoCode /\ otp[p].code = k]_Accounts!signInVars
  BY SignInGoesOn
<1>. QED
  BY <1>1, SignInAlways, SpecSignsIn, PTL DEF CodeServesOnce, Accounts!CodeServesOnce

-----------------------------------------------------------------------------
(* Fulfilment.  An order has left as often as its status says, and every   *)
(* status it has passed left its event.                                    *)

Statuses == Delivering!OrderStatuses
Gone == {"shipped", "with_customer", "return_in_transit", "closed"}

Moving == [pc : {"move", "cancel"}, order : Orders, from : Statuses, to : Statuses]
Flagging == [pc : {"flag"}, jobs : SUBSET Jobs]

DeliveringTables ==
  /\ status \in [Orders -> Statuses]
  /\ events \in [Orders -> SUBSET Statuses]
  /\ dispatches \in [Orders -> Nat]
  /\ delivery \in [Jobs -> Delivering!DeliveryRow \cup {NoJob}]
  /\ operator \in [Operators -> {Delivering!Off} \cup Moving \cup Flagging]

MovesAllowed ==
  \A p \in Operators :
    /\ operator[p].pc = "move" => /\ operator[p].to \in Delivering!Transitions(operator[p].from)
                                  /\ operator[p].to # "cancelled"
    /\ operator[p].pc = "flag" => operator[p].jobs \subseteq Delivering!Known

LeftOnce ==
  \A o \in Orders :
    /\ dispatches[o] = IF status[o] \in Gone THEN 1 ELSE 0
    /\ status[o] \in Gone => Delivering!HasDropoff(o)

PassedBy(s) ==
  {t \in {"confirmed", "packed", "shipped", "with_customer", "closed"} :
     \/ t = "confirmed" /\ s \in {"confirmed", "packed"} \cup Gone
     \/ t = "packed" /\ s \in {"packed"} \cup Gone
     \/ t = "shipped" /\ s \in Gone
     \/ t = "with_customer" /\ s \in Gone \ {"shipped"}
     \/ t = "closed" /\ s = "closed"}

PassedIsDated ==
  \A o \in Orders :
    /\ PassedBy(status[o]) \subseteq events[o]
    /\ status[o] = "return_in_transit" => "return_in_transit" \in events[o]

DeliveringInv == DeliveringTables /\ MovesAllowed /\ LeftOnce /\ PassedIsDated

LEMMA OrderChanges ==
  ASSUME DeliveringInv, NEW o \in Orders, NEW to \in Statuses, Delivering!Becomes(o, to),
         PassedBy(to) \subseteq PassedBy(status[o]) \cup {to},
         (to \in Gone) <=> (status[o] \in Gone),
         dispatches' = dispatches, delivery' = delivery
  PROVE  /\ status' \in [Orders -> Statuses]
         /\ events' \in [Orders -> SUBSET Statuses]
         /\ LeftOnce' /\ PassedIsDated'
<1>1. /\ status' = [status EXCEPT ![o] = to]
      /\ events' = [events EXCEPT ![o] = @ \cup {to}]
  BY DEF Delivering!Becomes
<1>2. status \in [Orders -> Statuses] /\ events \in [Orders -> SUBSET Statuses]
  BY DEF DeliveringInv, DeliveringTables
<1>3. \A q \in Orders : Delivering!HasDropoff(q)' = Delivering!HasDropoff(q)
  BY DEF Delivering!HasDropoff, Delivering!Known
<1>4. LeftOnce'
  BY <1>1, <1>2, <1>3 DEF DeliveringInv, LeftOnce
<1>5. PassedIsDated'
  <2>. SUFFICES ASSUME NEW q \in Orders
                PROVE  /\ PassedBy(status'[q]) \subseteq events'[q]
                       /\ status'[q] = "return_in_transit" => "return_in_transit" \in events'[q]
    BY DEF PassedIsDated
  <2>1. CASE q = o
    BY <2>1, <1>1, <1>2 DEF DeliveringInv, PassedIsDated
  <2>2. CASE q # o
    BY <2>2, <1>1, <1>2 DEF DeliveringInv, PassedIsDated
  <2>. QED
    BY <2>1, <2>2
<1>. QED
  BY <1>1, <1>2, <1>4, <1>5

LEMMA JobsChange ==
  ASSUME DeliveringInv,
         delivery' \in [Jobs -> Delivering!DeliveryRow \cup {NoJob}],
         \A j \in Delivering!Known : /\ delivery'[j] # NoJob
                                     /\ delivery'[j].order = delivery[j].order
                                     /\ delivery'[j].type = delivery[j].type
  PROVE  /\ Delivering!Known \subseteq Delivering!Known'
         /\ \A o \in Orders : Delivering!HasDropoff(o) => Delivering!HasDropoff(o)'
BY DEF Delivering!HasDropoff, Delivering!Known

LEMMA NewJobs ==
  ASSUME DeliveringInv, NEW o \in Orders, NEW type \in {"pickup", "dropoff"}, Delivering!NewJob(o, type)
  PROVE  /\ delivery' \in [Jobs -> Delivering!DeliveryRow \cup {NoJob}]
         /\ \A j \in Delivering!Known : delivery'[j] = delivery[j]
         /\ type = "dropoff" => Delivering!HasDropoff(o)'
<1>. DEFINE row == [order |-> o, type |-> type, over |-> FALSE, status |-> "scheduled"]
<1>1. PICK j \in Jobs \ Delivering!Known : delivery' = [delivery EXCEPT ![j] = row]
  BY DEF Delivering!NewJob
<1>2. row \in Delivering!DeliveryRow /\ row.order = o /\ row.type = type
  BY DEF Delivering!DeliveryRow
<1>3. row # NoJob
  BY <1>2, NoJobAssumption
<1>. HIDE DEF row
<1>. QED
  BY <1>1, <1>2, <1>3 DEF DeliveringInv, DeliveringTables, Delivering!HasDropoff, Delivering!Known

LEMMA TransitionFacts ==
  ASSUME NEW from \in Statuses, NEW to \in Delivering!Transitions(from)
  PROVE  /\ to \in Statuses
         /\ to # "cancelled" => /\ PassedBy(to) \subseteq PassedBy(from) \cup {to}
                                /\ to # "shipped" => ((to \in Gone) <=> (from \in Gone))
                                /\ to = "shipped" => from \notin Gone
BY DEF Delivering!Transitions, Statuses, Delivering!OrderStatuses, PassedBy, Gone

LEMMA SettleStep ==
  ASSUME DeliveringInv, NEW o \in Orders, Delivering!Settle(o)
  PROVE  DeliveringInv'
<1>1. dispatches' = dispatches /\ delivery' = delivery /\ operator' = operator
  BY DEF Delivering!Settle
<1>2. PICK to \in Statuses :
        /\ Delivering!Becomes(o, to)
        /\ PassedBy(to) \subseteq PassedBy(status[o]) \cup {to}
        /\ to \notin Gone /\ status[o] \notin Gone
  <2>1. CASE /\ status[o] \in {"pending_payment", "cancelled", "payment_failed"}
             /\ Delivering!Becomes(o, "confirmed")
    BY <2>1 DEF Statuses, Delivering!OrderStatuses, PassedBy, Gone
  <2>2. CASE status[o] = "pending_payment" /\ Delivering!Becomes(o, "payment_failed")
    BY <2>2 DEF Statuses, Delivering!OrderStatuses, PassedBy, Gone
  <2>3. CASE Delivering!Cancellable(o) /\ Delivering!Becomes(o, "cancelled")
    BY <2>3 DEF Delivering!Cancellable, Statuses, Delivering!OrderStatuses, PassedBy, Gone
  <2>4. CASE status[o] \in {"cancelled", "payment_failed"} /\ Delivering!Becomes(o, "refunded")
    BY <2>4 DEF Statuses, Delivering!OrderStatuses, PassedBy, Gone
  <2>. QED
    BY <2>1, <2>2, <2>3, <2>4 DEF Delivering!Settle
<1>3. /\ status' \in [Orders -> Statuses] /\ events' \in [Orders -> SUBSET Statuses]
      /\ LeftOnce' /\ PassedIsDated'
  BY <1>1, <1>2, OrderChanges
<1>. QED
  BY <1>1, <1>3 DEF DeliveringInv, DeliveringTables, MovesAllowed, Delivering!Known

LEMMA ReadOrderStep ==
  ASSUME DeliveringInv, NEW p \in Operators, NEW o \in Orders, NEW to \in Statuses,
         Delivering!ReadOrder(p, o, to)
  PROVE  DeliveringInv'
<1>. DEFINE read == [pc |-> IF to = "cancelled" THEN "cancel" ELSE "move",
                     order |-> o, from |-> status[o], to |-> to]
<1>1. /\ to \in Delivering!Transitions(status[o])
      /\ operator' = [operator EXCEPT ![p] = read]
      /\ UNCHANGED <<rentals, status, events, dispatches, delivery>>
  BY DEF Delivering!ReadOrder
<1>2. status[o] \in Statuses
  BY DEF DeliveringInv, DeliveringTables
<1>3. read \in Moving
  BY <1>2 DEF Moving
<1>4. read.pc # "flag" /\ read.to = to /\ read.from = status[o] /\ (read.pc = "move" => to # "cancelled")
  OBVIOUS
<1>. HIDE DEF read
<1>5. DeliveringTables'
  BY <1>1, <1>3 DEF DeliveringInv, DeliveringTables
<1>6. MovesAllowed'
  BY <1>1, <1>4 DEF DeliveringInv, DeliveringTables, MovesAllowed, Delivering!Known
<1>7. LeftOnce' /\ PassedIsDated'
  BY <1>1 DEF DeliveringInv, LeftOnce, PassedIsDated, Delivering!HasDropoff, Delivering!Known
<1>. QED
  BY <1>5, <1>6, <1>7 DEF DeliveringInv

(* What an operator that is done, or sees something new, leaves behind.    *)
LEMMA OperatorRests ==
  ASSUME DeliveringInv, NEW p \in Operators, operator' = [operator EXCEPT ![p] = Delivering!Off],
         Delivering!Known \subseteq Delivering!Known'
  PROVE  /\ operator' \in [Operators -> {Delivering!Off} \cup Moving \cup Flagging]
         /\ MovesAllowed'
<1>1. Delivering!Off.pc # "move" /\ Delivering!Off.pc # "flag"
  BY DEF Delivering!Off
<1>. QED
  BY <1>1 DEF DeliveringInv, DeliveringTables, MovesAllowed

LEMMA MoveOrderStep ==
  ASSUME DeliveringInv, NEW p \in Operators, Delivering!MoveOrder(p)
  PROVE  DeliveringInv'
<1>1. /\ operator[p].pc = "move"
      /\ operator' = [operator EXCEPT ![p] = Delivering!Off]
      /\ rentals' = rentals
  BY DEF Delivering!MoveOrder
<1>2. /\ operator[p].order \in Orders /\ operator[p].from \in Statuses
      /\ operator[p].to \in Delivering!Transitions(operator[p].from) /\ operator[p].to # "cancelled"
  <2>1. operator[p] \in {Delivering!Off} \cup Moving \cup Flagging
    BY DEF DeliveringInv, DeliveringTables
  <2>2. operator[p] \in Moving
    BY <1>1, <2>1 DEF Delivering!Off, Flagging
  <2>. QED
    BY <1>1, <2>2 DEF Moving, DeliveringInv, MovesAllowed
<1>0. PICK o \in Orders, to \in Delivering!Transitions(operator[p].from) :
        o = operator[p].order /\ to = operator[p].to
  BY <1>2
<1>3. CASE ~Delivering!Unchanged(p)
  <2>1. UNCHANGED <<status, events, dispatches, delivery>>
    BY <1>1, <1>3 DEF Delivering!MoveOrder
  <2>2. Delivering!Known' = Delivering!Known
    BY <2>1 DEF Delivering!Known
  <2>3. DeliveringTables' /\ MovesAllowed'
    BY <1>1, <2>1, <2>2, OperatorRests DEF DeliveringInv, DeliveringTables
  <2>4. LeftOnce' /\ PassedIsDated'
    BY <2>1 DEF DeliveringInv, LeftOnce, PassedIsDated, Delivering!HasDropoff, Delivering!Known
  <2>. QED
    BY <2>3, <2>4 DEF DeliveringInv
<1>4. CASE Delivering!Unchanged(p)
  <2>1. Delivering!Becomes(o, to)
    BY <1>0, <1>1, <1>4 DEF Delivering!MoveOrder
  <2>2. status[o] = operator[p].from
    BY <1>0, <1>4 DEF Delivering!Unchanged
  <2>3. /\ to \in Statuses /\ PassedBy(to) \subseteq PassedBy(status[o]) \cup {to}
        /\ to # "shipped" => ((to \in Gone) <=> (status[o] \in Gone))
        /\ to = "shipped" => status[o] \notin Gone
    BY <1>0, <1>2, <2>2, TransitionFacts
  <2>4. CASE to # "shipped"
    <3>1. dispatches' = dispatches /\ delivery' = delivery
      BY <1>0, <1>1, <1>4, <2>4 DEF Delivering!MoveOrder
    <3>2. /\ status' \in [Orders -> Statuses] /\ events' \in [Orders -> SUBSET Statuses]
          /\ LeftOnce' /\ PassedIsDated'
      BY <1>0, <1>2, <2>1, <2>3, <2>4, <3>1, OrderChanges
    <3>3. Delivering!Known' = Delivering!Known
      BY <3>1 DEF Delivering!Known
    <3>. QED
      BY <1>1, <3>1, <3>2, <3>3, OperatorRests DEF DeliveringInv, DeliveringTables
  <2>5. CASE to = "shipped"
    <3>1. /\ dispatches' = [dispatches EXCEPT ![o] = @ + 1]
          /\ IF Delivering!HasDropoff(o) THEN UNCHANGED delivery ELSE Delivering!NewJob(o, "dropoff")
      BY <1>0, <1>1, <1>4, <2>5 DEF Delivering!MoveOrder
    <3>2. /\ delivery' \in [Jobs -> Delivering!DeliveryRow \cup {NoJob}]
          /\ \A j \in Delivering!Known : delivery'[j] = delivery[j]
          /\ Delivering!HasDropoff(o)'
      <4>1. CASE Delivering!HasDropoff(o)
        BY <3>1, <4>1 DEF DeliveringInv, DeliveringTables, Delivering!HasDropoff, Delivering!Known
      <4>2. CASE ~Delivering!HasDropoff(o)
        BY <1>2, <3>1, <4>2, NewJobs
      <4>. QED
        BY <4>1, <4>2
    <3>3. /\ Delivering!Known \subseteq Delivering!Known'
          /\ \A q \in Orders : Delivering!HasDropoff(q) => Delivering!HasDropoff(q)'
      <4>1. \A j \in Delivering!Known : delivery[j] # NoJob
        BY DEF Delivering!Known
      <4>. QED
        BY <3>2, <4>1, JobsChange
    <3>4. /\ status' = [status EXCEPT ![o] = to]
          /\ events' = [events EXCEPT ![o] = @ \cup {to}]
      BY <2>1 DEF Delivering!Becomes
    <3>5. /\ status \in [Orders -> Statuses] /\ events \in [Orders -> SUBSET Statuses]
          /\ dispatches \in [Orders -> Nat]
      BY DEF DeliveringInv, DeliveringTables
    <3>6. DeliveringTables'
      <4>1. operator' \in [Operators -> {Delivering!Off} \cup Moving \cup Flagging]
        BY <1>1, <3>3, OperatorRests
      <4>2. dispatches' \in [Orders -> Nat]
        BY <3>1, <3>5
      <4>3. status' \in [Orders -> Statuses] /\ events' \in [Orders -> SUBSET Statuses]
        BY <2>3, <3>4, <3>5
      <4>. QED
        BY <3>2, <4>1, <4>2, <4>3 DEF DeliveringTables
    <3>7. LeftOnce'
      <4>. SUFFICES ASSUME NEW q \in Orders
                    PROVE  /\ dispatches'[q] = IF status'[q] \in Gone THEN 1 ELSE 0
                           /\ status'[q] \in Gone => Delivering!HasDropoff(q)'
        BY DEF LeftOnce
      <4>1. CASE q = o
        BY <4>1, <2>3, <2>5, <3>1, <3>2, <3>4, <3>5 DEF Gone, DeliveringInv, LeftOnce
      <4>2. CASE q # o
        BY <4>2, <3>1, <3>3, <3>4, <3>5 DEF DeliveringInv, LeftOnce
      <4>. QED
        BY <4>1, <4>2
    <3>8. PassedIsDated'
      <4>. SUFFICES ASSUME NEW q \in Orders
                    PROVE  /\ PassedBy(status'[q]) \subseteq events'[q]
                           /\ status'[q] = "return_in_transit" => "return_in_transit" \in events'[q]
        BY DEF PassedIsDated
      <4>1. CASE q = o
        BY <4>1, <2>3, <2>5, <3>4, <3>5 DEF DeliveringInv, PassedIsDated
      <4>2. CASE q # o
        BY <4>2, <3>4, <3>5 DEF DeliveringInv, PassedIsDated
      <4>. QED
        BY <4>1, <4>2
    <3>. QED
      BY <1>1, <3>3, <3>6, <3>7, <3>8, OperatorRests DEF DeliveringInv
  <2>. QED
    BY <2>4, <2>5
<1>. QED
  BY <1>3, <1>4

LEMMA CancelOrderStep ==
  ASSUME DeliveringInv, NEW p \in Operators, Delivering!CancelOrder(p)
  PROVE  DeliveringInv'
<1>2. PICK o \in Orders : operator[p].pc = "cancel" /\ o = operator[p].order
  <2>0. operator[p].pc = "cancel"
    BY DEF Delivering!CancelOrder
  <2>1. operator[p] \in {Delivering!Off} \cup Moving \cup Flagging
    BY DEF DeliveringInv, DeliveringTables
  <2>. QED
    BY <2>0, <2>1 DEF Delivering!Off, Flagging, Moving
<1>1. /\ operator' = [operator EXCEPT ![p] = Delivering!Off]
      /\ UNCHANGED <<rentals, dispatches, delivery>>
      /\ IF Delivering!Cancellable(o) THEN Delivering!Becomes(o, "cancelled") ELSE UNCHANGED <<status, events>>
  BY <1>2 DEF Delivering!CancelOrder
<1>3. Delivering!Known' = Delivering!Known
  BY <1>1 DEF Delivering!Known
<1>4. /\ status' \in [Orders -> Statuses] /\ events' \in [Orders -> SUBSET Statuses]
      /\ LeftOnce' /\ PassedIsDated'
  <2>1. CASE Delivering!Cancellable(o)
    <3>1. /\ "cancelled" \in Statuses /\ PassedBy("cancelled") = {}
          /\ "cancelled" \notin Gone /\ status[o] \notin Gone
      BY <2>1 DEF Delivering!Cancellable, Statuses, Delivering!OrderStatuses, PassedBy, Gone
    <3>. QED
      BY <1>1, <1>2, <2>1, <3>1, OrderChanges
  <2>2. CASE ~Delivering!Cancellable(o)
    BY <1>1, <2>2 DEF DeliveringInv, DeliveringTables, LeftOnce, PassedIsDated, Delivering!HasDropoff, Delivering!Known
  <2>. QED
    BY <2>1, <2>2
<1>. QED
  BY <1>1, <1>3, <1>4, OperatorRests DEF DeliveringInv, DeliveringTables

(* A step that changes delivery jobs only, and keeps whose they are.       *)
LEMMA OnlyJobsChange ==
  ASSUME DeliveringInv, UNCHANGED <<rentals, status, events, dispatches>>,
         delivery' \in [Jobs -> Delivering!DeliveryRow \cup {NoJob}],
         \A j \in Delivering!Known : /\ delivery'[j] # NoJob
                                     /\ delivery'[j].order = delivery[j].order
                                     /\ delivery'[j].type = delivery[j].type,
         \/ operator' = operator
         \/ \E p \in Operators : operator' = [operator EXCEPT ![p] = Delivering!Off]
  PROVE  DeliveringInv'
<1>1. /\ Delivering!Known \subseteq Delivering!Known'
      /\ \A o \in Orders : Delivering!HasDropoff(o) => Delivering!HasDropoff(o)'
  BY JobsChange
<1>2. /\ operator' \in [Operators -> {Delivering!Off} \cup Moving \cup Flagging]
      /\ MovesAllowed'
  <2>1. CASE operator' = operator
    BY <1>1, <2>1 DEF DeliveringInv, DeliveringTables, MovesAllowed
  <2>2. CASE operator' # operator
    BY <1>1, <2>2, OperatorRests
  <2>. QED
    BY <2>1, <2>2
<1>3. DeliveringTables'
  BY <1>2 DEF DeliveringInv, DeliveringTables
<1>4. LeftOnce' /\ PassedIsDated'
  BY <1>1 DEF DeliveringInv, LeftOnce, PassedIsDated
<1>. QED
  BY <1>2, <1>3, <1>4 DEF DeliveringInv

LEMMA JobsStep ==
  ASSUME DeliveringInv, NEW j \in Jobs,
         \/ \E o \in Orders, type \in {"pickup", "dropoff"} : Delivering!CreateJob(o, type)
         \/ Delivering!MarkComplete(j) \/ Delivering!WindowPasses(j)
  PROVE  DeliveringInv'
<1>. USE DEF Delivering!Known
<1>1. \A k \in Delivering!Known : delivery[k] \in Delivering!DeliveryRow
  BY DEF DeliveringInv, DeliveringTables
<1>2. ASSUME NEW o \in Orders, NEW type \in {"pickup", "dropoff"}, Delivering!CreateJob(o, type)
      PROVE  DeliveringInv'
  <2>1. /\ delivery' \in [Jobs -> Delivering!DeliveryRow \cup {NoJob}]
        /\ \A k \in Delivering!Known : delivery'[k] = delivery[k]
    BY <1>2, NewJobs DEF Delivering!CreateJob
  <2>2. UNCHANGED <<rentals, status, events, dispatches, operator>>
    BY <1>2 DEF Delivering!CreateJob
  <2>. QED
    BY <2>1, <2>2, OnlyJobsChange
<1>3. ASSUME NEW row, row \in Delivering!DeliveryRow, row.order = delivery[j].order, row.type = delivery[j].type,
             j \in Delivering!Known, delivery' = [delivery EXCEPT ![j] = row],
             UNCHANGED <<rentals, status, events, dispatches, operator>>
      PROVE  DeliveringInv'
  <2>1. row # NoJob
    BY <1>3, NoJobAssumption
  <2>2. delivery \in [Jobs -> Delivering!DeliveryRow \cup {NoJob}]
    BY DEF DeliveringInv, DeliveringTables
  <2>3. /\ delivery' \in [Jobs -> Delivering!DeliveryRow \cup {NoJob}]
        /\ \A k \in Delivering!Known : /\ delivery'[k] # NoJob
                                        /\ delivery'[k].order = delivery[k].order
                                        /\ delivery'[k].type = delivery[k].type
    BY <1>3, <2>1, <2>2
  <2>. QED
    BY <1>3, <2>3, OnlyJobsChange
<1>4. CASE Delivering!MarkComplete(j)
  <2>1. /\ j \in Delivering!Known /\ UNCHANGED <<rentals, status, events, dispatches, operator>>
        /\ delivery' = [delivery EXCEPT ![j] = [delivery[j] EXCEPT !.status = "completed"]]
    BY <1>4 DEF Delivering!MarkComplete
  <2>2. /\ [delivery[j] EXCEPT !.status = "completed"] \in Delivering!DeliveryRow
        /\ [delivery[j] EXCEPT !.status = "completed"].order = delivery[j].order
        /\ [delivery[j] EXCEPT !.status = "completed"].type = delivery[j].type
    BY <1>1, <2>1 DEF Delivering!DeliveryRow
  <2>. QED
    BY <1>3, <2>1, <2>2
<1>5. CASE Delivering!WindowPasses(j)
  <2>1. /\ j \in Delivering!Known /\ UNCHANGED <<rentals, status, events, dispatches, operator>>
        /\ delivery' = [delivery EXCEPT ![j] = [delivery[j] EXCEPT !.over = TRUE]]
    BY <1>5 DEF Delivering!WindowPasses
  <2>2. /\ [delivery[j] EXCEPT !.over = TRUE] \in Delivering!DeliveryRow
        /\ [delivery[j] EXCEPT !.over = TRUE].order = delivery[j].order
        /\ [delivery[j] EXCEPT !.over = TRUE].type = delivery[j].type
    BY <1>1, <2>1 DEF Delivering!DeliveryRow
  <2>. QED
    BY <1>3, <2>1, <2>2
<1>. QED
  BY <1>2, <1>4, <1>5

LEMMA FindOverdueStep ==
  ASSUME DeliveringInv, NEW p \in Operators, Delivering!FindOverdue(p)
  PROVE  DeliveringInv'
<1>1. PICK overdue \in SUBSET Delivering!Known :
        /\ operator' = [operator EXCEPT ![p] = [pc |-> "flag", jobs |-> overdue]]
        /\ UNCHANGED <<rentals, status, events, dispatches, delivery>>
  BY DEF Delivering!FindOverdue
<1>. DEFINE found == [pc |-> "flag", jobs |-> overdue]
<1>2. found \in Flagging /\ found.pc = "flag" /\ found.jobs = overdue
  BY DEF Flagging, Delivering!Known
<1>. HIDE DEF found
<1>3. operator' = [operator EXCEPT ![p] = found]
  BY <1>1 DEF found
<1>4. DeliveringTables'
  BY <1>1, <1>2, <1>3 DEF DeliveringInv, DeliveringTables
<1>5. MovesAllowed'
  BY <1>1, <1>2, <1>3 DEF DeliveringInv, DeliveringTables, MovesAllowed, Delivering!Known
<1>6. LeftOnce' /\ PassedIsDated'
  BY <1>1 DEF DeliveringInv, LeftOnce, PassedIsDated, Delivering!HasDropoff, Delivering!Known
<1>. QED
  BY <1>4, <1>5, <1>6 DEF DeliveringInv

LEMMA FlagDelayedStep ==
  ASSUME DeliveringInv, NEW p \in Operators, Delivering!FlagDelayed(p)
  PROVE  DeliveringInv'
<1>1. /\ operator[p].pc = "flag"
      /\ delivery' = [j \in Jobs |-> IF j \in operator[p].jobs THEN [delivery[j] EXCEPT !.status = "delayed"]
                                                               ELSE delivery[j]]
      /\ operator' = [operator EXCEPT ![p] = Delivering!Off]
      /\ UNCHANGED <<rentals, status, events, dispatches>>
  BY DEF Delivering!FlagDelayed
<1>2. operator[p].jobs \subseteq Delivering!Known
  BY <1>1 DEF DeliveringInv, MovesAllowed
<1>3. \A j \in Delivering!Known :
        /\ delivery[j] \in Delivering!DeliveryRow /\ delivery[j] # NoJob
        /\ [delivery[j] EXCEPT !.status = "delayed"] \in Delivering!DeliveryRow
        /\ [delivery[j] EXCEPT !.status = "delayed"].order = delivery[j].order
        /\ [delivery[j] EXCEPT !.status = "delayed"].type = delivery[j].type
  BY DEF DeliveringInv, DeliveringTables, Delivering!Known, Delivering!DeliveryRow
<1>4. delivery' \in [Jobs -> Delivering!DeliveryRow \cup {NoJob}]
  BY <1>1, <1>2, <1>3 DEF DeliveringInv, DeliveringTables
<1>5. \A j \in Delivering!Known : /\ delivery'[j] # NoJob
                                  /\ delivery'[j].order = delivery[j].order
                                  /\ delivery'[j].type = delivery[j].type
  BY <1>1, <1>2, <1>3, NoJobAssumption DEF Delivering!Known
<1>. QED
  BY <1>1, <1>4, <1>5, OnlyJobsChange

LEMMA DeliveringStarts == Delivering!Init => DeliveringInv
BY DEF Delivering!Init, DeliveringInv, DeliveringTables, MovesAllowed, LeftOnce, PassedIsDated, PassedBy,
       Gone, Statuses, Delivering!OrderStatuses, Delivering!Off

LEMMA DeliveringGoesOn == DeliveringInv /\ [Delivering!Next]_fulfilmentVars => DeliveringInv'
<1>. SUFFICES ASSUME DeliveringInv, [Delivering!Next]_fulfilmentVars PROVE DeliveringInv'
  OBVIOUS
<1>1. CASE UNCHANGED fulfilmentVars
  BY <1>1 DEF fulfilmentVars, DeliveringInv, DeliveringTables, MovesAllowed, LeftOnce, PassedIsDated,
              Delivering!HasDropoff, Delivering!Known
<1>2. CASE Delivering!Next
  <2>1. ASSUME NEW o \in Orders, NEW type \in {"pickup", "dropoff"}, Delivering!CreateJob(o, type)
        PROVE  DeliveringInv'
    <3>1. PICK j \in Jobs : TRUE
      BY <2>1 DEF Delivering!CreateJob, Delivering!NewJob
    <3>. QED
      BY <2>1, JobsStep
  <2>. QED
    BY <1>2, <2>1, SettleStep, ReadOrderStep, MoveOrderStep, CancelOrderStep, FindOverdueStep, FlagDelayedStep,
       JobsStep DEF Delivering!Next, Statuses
<1>. QED
  BY <1>1, <1>2

LEMMA FlowIs ==
  ASSUME NEW o
  PROVE  /\ o \in rentals => Delivering!Flow(o) = <<"confirmed", "packed", "shipped", "with_customer",
                                                  "return_in_transit", "closed">>
         /\ o \notin rentals => Delivering!Flow(o) = <<"confirmed", "packed", "shipped", "with_customer">>
<1>. DEFINE Steps == {"confirmed", "packed", "shipped", "with_customer", "return_in_transit", "closed"}
            out == <<"confirmed", "packed", "shipped", "with_customer">>
            back == <<"return_in_transit", "closed">>
            whole == <<"confirmed", "packed", "shipped", "with_customer", "return_in_transit", "closed">>
<1>1. /\ out \in Seq(Steps) /\ Len(out) = 4
      /\ back \in Seq(Steps) /\ Len(back) = 2
      /\ whole \in Seq(Steps) /\ Len(whole) = 6
  OBVIOUS
<1>2. ASSUME o \in rentals
      PROVE  Delivering!Flow(o) = whole
  <2>1. Delivering!Flow(o) = out \o back
    BY <1>2 DEF Delivering!Flow
  <2>2. /\ out \o back \in Seq(Steps) /\ Len(out \o back) = 6
        /\ \A i \in 1..6 : (out \o back)[i] = IF i <= 4 THEN out[i] ELSE back[i - 4]
    <3>. HIDE DEF out, back, Steps
    <3>1. /\ out \o back \in Seq(Steps) /\ Len(out \o back) = Len(out) + Len(back)
          /\ \A i \in 1..(Len(out) + Len(back)) : (out \o back)[i] =
                  IF i <= Len(out) THEN out[i] ELSE back[i - Len(out)]
      BY <1>1, ConcatProperties
    <3>. QED
      BY <1>1, <3>1
  <2>3. \A i \in 1..6 : (out \o back)[i] = whole[i]
    BY <2>2
  <2>. HIDE DEF out, back, whole, Steps
  <2>. QED
    BY <1>1, <2>1, <2>2, <2>3, SeqEqual
<1>3. ASSUME o \notin rentals
      PROVE  Delivering!Flow(o) = out
  <2>1. Delivering!Flow(o) = out \o << >>
    BY <1>3 DEF Delivering!Flow
  <2>. HIDE DEF out, Steps
  <2>. QED
    BY <1>1, <2>1, ConcatEmptySeq
<1>. QED
  BY <1>2, <1>3

LEMMA DeliveringInvGives == DeliveringInv => Delivering!TypeOK /\ Delivering!DispatchedOnce /\ Delivering!TimelineDated
<1>. SUFFICES ASSUME DeliveringInv
              PROVE  Delivering!TypeOK /\ Delivering!DispatchedOnce /\ Delivering!TimelineDated
  OBVIOUS
<1>1. Delivering!TypeOK
  BY DEF DeliveringInv, DeliveringTables, Delivering!TypeOK, Delivering!Known, Statuses
<1>2. Delivering!DispatchedOnce
  BY DEF DeliveringInv, LeftOnce, Delivering!DispatchedOnce, Delivering!HasDropoff
<1>3. ASSUME NEW o \in Orders, NEW i \in DOMAIN Delivering!Flow(o),
             Delivering!StepState(o, i) # "upcoming", Delivering!Flow(o)[i] # "return_in_transit"
      PROVE  Delivering!Flow(o)[i] \in events[o]
  <2>. DEFINE flow == Delivering!Flow(o)
              current == {k \in DOMAIN flow : flow[k] = Delivering!Effective(o)}
  <2>1. CASE current = {}
    BY <1>3, <2>1 DEF Delivering!StepState
  <2>2. CASE current # {}
    <3>1. PICK k \in current : i <= k
      <4>1. (\E k \in current : i < k \/ (i = k /\ k = Len(flow))) \/ i \in current
        BY <1>3, <2>2 DEF Delivering!StepState
      <4>2. DOMAIN flow \subseteq Int
        BY FlowIs
      <4>. QED
        BY <4>1, <4>2
    <3>2. PassedBy(status[o]) \subseteq events[o]
      BY DEF DeliveringInv, PassedIsDated
    <3>3. CASE o \in rentals
      <4>1. flow = <<"confirmed", "packed", "shipped", "with_customer", "return_in_transit", "closed">>
        BY <3>3, FlowIs
      <4>2. flow[k] = status[o]
        BY <3>1, <3>3 DEF Delivering!Effective
      <4>3. flow[i] \in PassedBy(status[o])
        BY <1>3, <3>1, <4>1, <4>2 DEF PassedBy, Gone
      <4>. QED
        BY <3>2, <4>3
    <3>4. CASE o \notin rentals
      <4>1. flow = <<"confirmed", "packed", "shipped", "with_customer">>
        BY <3>4, FlowIs
      <4>2. \/ flow[k] = status[o]
            \/ flow[k] = "with_customer" /\ status[o] \in {"closed", "return_in_transit"}
        BY <3>1, <3>4 DEF Delivering!Effective
      <4>3. flow[i] \in PassedBy(status[o])
        BY <1>3, <3>1, <4>1, <4>2 DEF PassedBy, Gone
      <4>. QED
        BY <3>2, <4>3
    <3>. QED
      BY <3>3, <3>4
  <2>. QED
    BY <2>1, <2>2
<1>. QED
  BY <1>1, <1>2, <1>3 DEF Delivering!TimelineDated

LEMMA SpecDelivers == Spec => Delivering!Init /\ [][Delivering!Next]_fulfilmentVars
<1>1. Init => Delivering!Init
  BY DEF Init
<1>2. [Next]_vars => [Delivering!Next]_fulfilmentVars
  BY DEF Next, vars, fulfilmentVars
<1>. QED
  BY <1>1, <1>2, PTL DEF Spec

LEMMA DeliveringAlways == Spec => []DeliveringInv
BY SpecDelivers, DeliveringStarts, DeliveringGoesOn, PTL

(* The garments of an order leave once, with a job to bring them, however  *)
(* many operators press at once (console/orders: setOrderStatus).          *)
THEOREM GarmentsLeaveOnce == Spec => []DispatchedOnce
<1>1. DeliveringInv => DispatchedOnce
  BY DeliveringInvGives DEF DispatchedOnce
<1>. QED
  BY <1>1, DeliveringAlways, PTL

(* Every step that an order's timeline shows as passed has a date          *)
(* (orders/timeline.ts).                                                   *)
THEOREM PassedStepsAreDated == Spec => []TimelineDated
<1>1. DeliveringInv => TimelineDated
  BY DeliveringInvGives DEF TimelineDated
<1>. QED
  BY <1>1, DeliveringAlways, PTL

-----------------------------------------------------------------------------
(* Addresses.  The recency list holds every saved address once, and one of *)
(* them is the default.                                                    *)

Once(s) == \A i, j \in DOMAIN s : s[i] = s[j] => i = j

LEMMA RemovingOne ==
  ASSUME NEW X, NEW s \in Seq(X), Once(s), NEW e \in ToSet(s)
  PROVE  /\ RemoveFirst(s, e) \in Seq(X)
         /\ Once(RemoveFirst(s, e))
         /\ ToSet(RemoveFirst(s, e)) = ToSet(s) \ {e}
<1>1. PICK k \in 1..Len(s) : s[k] = e
  BY DEF ToSet
<1>2. \A i \in 1..Len(s) : s[i] = e => i = k
  BY <1>1 DEF Once
<1>. DEFINE I == {i \in 1..Len(s) : s[i] = e}
<1>3. I = {k}
  BY <1>1, <1>2
<1>4. SelectInSeq(s, LAMBDA v : v = e) = k
  <2>1. SelectInSeq(s, LAMBDA v : v = e) = IF I # {} THEN Min(I) ELSE 0
    BY DEF SelectInSeq
  <2>2. Min({k}) = k
    BY DEF Min
  <2>. QED
    BY <1>3, <2>1, <2>2
<1>5. RemoveFirst(s, e) = RemoveAt(s, k)
  BY <1>1, <1>4 DEF RemoveFirst
<1>. DEFINE r == [j \in 1..(Len(s) - 1) |-> IF j < k THEN s[j] ELSE s[j + 1]]
<1>6. r \in Seq(X) /\ DOMAIN r = 1..(Len(s) - 1) /\ Len(r) = Len(s) - 1
  OBVIOUS
<1>. DEFINE f == SubSeq(s, 1, k - 1)
            g == SubSeq(s, k + 1, Len(s))
<1>7. RemoveAt(s, k) = r
  <2>1. f \in Seq(X) /\ Len(f) = k - 1 /\ \A i \in 1..(k - 1) : f[i] = s[i]
    BY SubSeqProperties
  <2>2. g \in Seq(X) /\ Len(g) = Len(s) - k /\ \A i \in 1..(Len(s) - k) : g[i] = s[k + i]
    BY SubSeqProperties
  <2>. HIDE DEF f, g
  <2>3. /\ f \o g \in Seq(X)
        /\ Len(f \o g) = Len(s) - 1
        /\ \A i \in 1..(Len(s) - 1) : (f \o g)[i] = IF i <= k - 1 THEN f[i] ELSE g[i - (k - 1)]
    <3>1. Len(s) \in Nat /\ k \in Int /\ Len(f) + Len(g) = Len(s) - 1
      BY <2>1, <2>2
    <3>2. /\ f \o g \in Seq(X)
          /\ Len(f \o g) = Len(f) + Len(g)
          /\ \A i \in 1..(Len(f) + Len(g)) : (f \o g)[i] = IF i <= Len(f) THEN f[i] ELSE g[i - Len(f)]
      BY <2>1, <2>2, ConcatProperties
    <3>. QED
      BY <3>1, <3>2, <2>1
  <2>4. ASSUME NEW i \in 1..(Len(s) - 1)
        PROVE  (f \o g)[i] = r[i]
    <3>1. CASE i < k
      BY <3>1, <2>1, <2>3
    <3>2. CASE i >= k
      <4>1. i - (k - 1) \in 1..(Len(s) - k) /\ k + (i - (k - 1)) = i + 1
        BY <3>2
      <4>. QED  BY <4>1, <3>2, <2>2, <2>3
    <3>3. i < k \/ i >= k
      OBVIOUS
    <3>. QED  BY <3>1, <3>2, <3>3
  <2>. HIDE DEF r
  <2>5. f \o g = r
    BY <1>6, <2>3, <2>4, SeqEqual
  <2>. QED
    BY <2>5 DEF RemoveAt, f, g
<1>8. Once(r)
  BY <1>6 DEF Once
<1>9. ToSet(r) = ToSet(s) \ {e}
  <2>1. ASSUME NEW j \in DOMAIN r
        PROVE  r[j] \in ToSet(s) \ {e}
    BY <1>6, <1>2 DEF ToSet
  <2>2. ASSUME NEW i \in DOMAIN s, s[i] # e
        PROVE  \E j \in DOMAIN r : r[j] = s[i]
    <3>1. CASE i < k
      BY <3>1, <1>6
    <3>2. CASE i > k
      <4>1. r[i - 1] = s[i] /\ i - 1 \in DOMAIN r
        BY <3>2, <1>6
      <4>. QED  BY <4>1
    <3>. QED  BY <3>1, <3>2, <2>2, <1>1
  <2>. QED
    BY <2>1, <2>2 DEF ToSet
<1>. QED
  BY <1>5, <1>7, <1>6, <1>8, <1>9

-----------------------------------------------------------------------------
SentRow == [id : Addresses \cup {NoAddress}, text : Deliverable]

BookTables ==
  /\ address \in [Addresses -> Book!AddressRow \cup {NoAddress}]
  /\ reading \in SentRow \cup {NoAddress}
  /\ parcel \in [Parcels -> SentRow \cup {NoAddress}]

RecencyLists == recency \in Seq(Addresses) /\ Once(recency) /\ ToSet(recency) = Book!Saved

OneIsDefault == Book!Saved # {} => \E d \in Book!Saved : Book!Defaults = {d}

BookInv == BookTables /\ RecencyLists /\ OneIsDefault

LEMMA BookOperators ==
  /\ \A s, e : Book!RemoveFirst(s, e) = RemoveFirst(s, e)
  /\ \A s : Book!ToSet(s) = ToSet(s)
  /\ \A S : Book!Cardinality(S) = Cardinality(S)
<1>1. \A s, e : Book!RemoveFirst(s, e) = RemoveFirst(s, e)
  BY DEF Book!RemoveFirst, RemoveFirst, Book!RemoveAt, RemoveAt, Book!SelectInSeq, SelectInSeq, Book!Min, Min
<1>2. \A s : Book!ToSet(s) = ToSet(s)
  BY DEF Book!ToSet, ToSet
<1>3. \A S : Book!Cardinality(S) = Cardinality(S)
  BY DEF Book!Cardinality, Cardinality
<1>. QED
  BY <1>1, <1>2, <1>3

LEMMA TouchingOne ==
  ASSUME NEW X, NEW s \in Seq(X), Once(s), NEW a \in X
  PROVE  /\ Book!Touch(a, s) \in Seq(X)
         /\ Once(Book!Touch(a, s))
         /\ ToSet(Book!Touch(a, s)) = ToSet(s) \cup {a}
<1>. DEFINE r == RemoveFirst(s, a)
<1>1. r \in Seq(X) /\ Once(r) /\ ToSet(r) = ToSet(s) \ {a}
  <2>1. CASE a \in ToSet(s)
    BY <2>1, RemovingOne
  <2>2. CASE a \notin ToSet(s)
    <3>1. r = s
      BY <2>2 DEF RemoveFirst, ToSet
    <3>. QED
      BY <2>2, <3>1
  <2>. QED
    BY <2>1, <2>2
<1>. HIDE DEF r
<1>. DEFINE t == <<a>> \o r
<1>2. /\ t \in Seq(X) /\ DOMAIN t = 1..(Len(r) + 1)
      /\ t[1] = a /\ \A i \in 1..Len(r) : t[i + 1] = r[i]
  BY <1>1
<1>3. DOMAIN r = 1..Len(r)
  BY <1>1
<1>4. Once(t)
  <2>. SUFFICES ASSUME NEW i \in DOMAIN t, NEW j \in DOMAIN t, t[i] = t[j]
                PROVE  i = j
    BY DEF Once
  <2>1. \A k \in 2..(Len(r) + 1) : t[k] = r[k - 1] /\ k - 1 \in DOMAIN r /\ r[k - 1] # a
    <3>. TAKE k \in 2..(Len(r) + 1)
    <3>1. k - 1 \in 1..Len(r) /\ (k - 1) + 1 = k
      BY <1>1
    <3>. QED
      BY <3>1, <1>1, <1>2, <1>3 DEF ToSet
  <2>2. CASE i = 1 /\ j = 1
    BY <2>2
  <2>3. CASE i # 1 /\ j # 1
    <3>1. i \in 2..(Len(r) + 1) /\ j \in 2..(Len(r) + 1)
      BY <2>3, <1>1, <1>2
    <3>2. i - 1 = j - 1
      BY <3>1, <2>1, <1>1, <1>3 DEF Once
    <3>. QED
      BY <3>1, <3>2
  <2>. QED
    BY <2>1, <2>2, <2>3, <1>1, <1>2
<1>5. ToSet(t) = ToSet(r) \cup {a}
  <2>1. ToSet(t) \subseteq ToSet(r) \cup {a}
    <3>. SUFFICES ASSUME NEW i \in DOMAIN t, i # 1
                  PROVE  t[i] \in ToSet(r)
      BY <1>2 DEF ToSet
    <3>1. i - 1 \in 1..Len(r) /\ (i - 1) + 1 = i
      BY <1>1, <1>2
    <3>. QED
      BY <3>1, <1>2, <1>3 DEF ToSet
  <2>2. a \in ToSet(t)
    BY <1>1, <1>2 DEF ToSet
  <2>3. ASSUME NEW j \in DOMAIN r
        PROVE  r[j] \in ToSet(t)
    <3>1. j + 1 \in DOMAIN t /\ t[j + 1] = r[j]
      BY <1>1, <1>2, <1>3
    <3>. QED
      BY <3>1 DEF ToSet
  <2>. QED
    BY <2>1, <2>2, <2>3 DEF ToSet
<1>6. Book!Touch(a, s) = t
  BY BookOperators DEF Book!Touch, r
<1>. HIDE DEF t
<1>. QED
  BY <1>1, <1>2, <1>4, <1>5, <1>6

LEMMA TouchingTheDefault ==
  ASSUME BookInv, NEW cleared, cleared = {} \/ cleared = Book!Defaults
  PROVE  /\ Book!TouchOneOf(cleared) \in Seq(Addresses)
         /\ Once(Book!TouchOneOf(cleared))
         /\ ToSet(Book!TouchOneOf(cleared)) = Book!Saved
<1>1. CASE cleared = {}
  BY <1>1 DEF BookInv, RecencyLists, Book!TouchOneOf
<1>2. CASE cleared # {}
  <2>. DEFINE d == CHOOSE x \in cleared : TRUE
  <2>1. d \in Book!Saved /\ d \in Addresses
    BY <1>2 DEF Book!Defaults, Book!Saved
  <2>. HIDE DEF d
  <2>2. Book!TouchOneOf(cleared) = Book!Touch(d, recency)
    BY <1>2 DEF Book!TouchOneOf, d
  <2>3. recency \in Seq(Addresses) /\ Once(recency) /\ ToSet(recency) = Book!Saved
    BY DEF BookInv, RecencyLists
  <2>4. /\ Book!Touch(d, recency) \in Seq(Addresses)
        /\ Once(Book!Touch(d, recency))
        /\ ToSet(Book!Touch(d, recency)) = ToSet(recency) \cup {d}
    BY <2>1, <2>3, TouchingOne
  <2>. QED
    BY <2>1, <2>2, <2>3, <2>4
<1>. QED
  BY <1>1, <1>2

LEMMA CreateKeepsOne ==
  ASSUME BookInv, NEW a \in Addresses, NEW text \in Texts, NEW asked \in BOOLEAN,
         Book!CreateAddress(a, text, asked)
  PROVE  BookInv'
<1>. DEFINE makeDefault == asked \/ Book!Saved = {}
            cleared == IF makeDefault THEN Book!Defaults ELSE {}
<1>. USE NoAddressAssumption
<1>1. /\ a \in Addresses \ Book!Saved
      /\ address' = [b \in Addresses |->
           IF b = a THEN [isDefault |-> makeDefault, text |-> text]
           ELSE IF b \in cleared THEN [address[b] EXCEPT !.isDefault = FALSE] ELSE address[b]]
      /\ recency' = Book!Touch(a, Book!TouchOneOf(cleared))
      /\ reading' = reading /\ parcel' = parcel
  BY DEF Book!CreateAddress, Book!MakesDefault
<1>2. cleared \subseteq Book!Saved /\ Book!Saved \subseteq Addresses /\ makeDefault \in BOOLEAN
  BY DEF Book!Defaults, Book!Saved
<1>3. \A b \in Book!Saved : address[b] \in Book!AddressRow
  BY DEF BookInv, BookTables, Book!Saved
<1>4. \A b \in Book!Saved : /\ [address[b] EXCEPT !.isDefault = FALSE] \in Book!AddressRow
                           /\ ~[address[b] EXCEPT !.isDefault = FALSE].isDefault
  BY <1>3 DEF Book!AddressRow
<1>5. [isDefault |-> makeDefault, text |-> text] \in Book!AddressRow
  BY <1>2 DEF Book!AddressRow
<1>6. BookTables'
  BY <1>1, <1>2, <1>4, <1>5 DEF BookInv, BookTables
<1>7. Book!Saved' = Book!Saved \cup {a}
  BY <1>1, <1>2, <1>3, <1>4, <1>5 DEF Book!Saved
<1>8. RecencyLists'
  BY <1>1, <1>7, TouchingTheDefault, TouchingOne DEF RecencyLists
<1>9. Book!Defaults' = (IF makeDefault THEN {a} ELSE Book!Defaults)
  <2>1. Book!Defaults' = {b \in Book!Saved \cup {a} : address'[b].isDefault}
    BY <1>7 DEF Book!Defaults
  <2>2. address'[a].isDefault = makeDefault
    BY <1>1
  <2>3. \A b \in Book!Saved : address'[b].isDefault <=> (address[b].isDefault /\ b \notin cleared)
    BY <1>1, <1>2, <1>4
  <2>. QED
    BY <2>1, <2>2, <2>3, <1>1, <1>2 DEF Book!Defaults
<1>10. OneIsDefault'
  BY <1>7, <1>9 DEF OneIsDefault, BookInv
<1>. QED
  BY <1>6, <1>8, <1>10 DEF BookInv

LEMMA UpdateKeepsOne ==
  ASSUME BookInv, NEW a \in Addresses, NEW text \in Texts, NEW asked \in BOOLEAN,
         Book!UpdateAddress(a, text, asked)
  PROVE  BookInv'
<1>. DEFINE cleared == IF asked /\ a \in Book!Saved \ Book!Defaults THEN Book!Defaults ELSE {}
            isDefault == asked \/ address[a].isDefault
<1>. USE NoAddressAssumption
<1>1. /\ a \in Book!Saved
      /\ address' = [b \in Addresses |->
           IF b = a THEN [isDefault |-> isDefault, text |-> text]
           ELSE IF b \in cleared THEN [address[b] EXCEPT !.isDefault = FALSE] ELSE address[b]]
      /\ recency' = Book!Touch(a, Book!TouchOneOf(cleared))
      /\ reading' = reading /\ parcel' = parcel
  BY DEF Book!UpdateAddress
<1>2. cleared \subseteq Book!Saved /\ Book!Saved \subseteq Addresses
  BY DEF Book!Defaults, Book!Saved
<1>3. \A b \in Book!Saved : address[b] \in Book!AddressRow /\ address[b].isDefault \in BOOLEAN
  BY DEF BookInv, BookTables, Book!Saved, Book!AddressRow
<1>4. \A b \in Book!Saved : /\ [address[b] EXCEPT !.isDefault = FALSE] \in Book!AddressRow
                           /\ ~[address[b] EXCEPT !.isDefault = FALSE].isDefault
  BY <1>3 DEF Book!AddressRow
<1>5. [isDefault |-> isDefault, text |-> text] \in Book!AddressRow
  BY <1>1, <1>3 DEF Book!AddressRow
<1>6. BookTables'
  BY <1>1, <1>2, <1>4, <1>5 DEF BookInv, BookTables
<1>7. Book!Saved' = Book!Saved
  BY <1>1, <1>2, <1>3, <1>4, <1>5 DEF Book!Saved
<1>8. RecencyLists'
  <2>1. cleared = {} \/ cleared = Book!Defaults
    OBVIOUS
  <2>. DEFINE others == Book!TouchOneOf(cleared)
  <2>2. others \in Seq(Addresses) /\ Once(others) /\ ToSet(others) = Book!Saved
    BY <2>1, TouchingTheDefault
  <2>3. recency' = Book!Touch(a, others)
    BY <1>1
  <2>. HIDE DEF others
  <2>4. recency' \in Seq(Addresses) /\ Once(recency') /\ ToSet(recency') = Book!Saved \cup {a}
    BY <2>2, <2>3, TouchingOne
  <2>. QED
    BY <2>4, <1>1, <1>7 DEF RecencyLists
<1>9. Book!Defaults' = (IF asked THEN {a} ELSE Book!Defaults)
  <2>1. Book!Defaults' = {b \in Book!Saved : address'[b].isDefault}
    BY <1>7 DEF Book!Defaults
  <2>2. address'[a].isDefault = isDefault
    BY <1>1
  <2>3. \A b \in Book!Saved \ {a} : address'[b].isDefault <=> (address[b].isDefault /\ b \notin cleared)
    BY <1>1, <1>2, <1>4
  <2>4. asked => Book!Defaults \subseteq cleared \cup {a}
    BY <1>1 DEF OneIsDefault, BookInv
  <2>. QED
    BY <2>1, <2>2, <2>3, <2>4, <1>1, <1>2 DEF Book!Defaults
<1>10. OneIsDefault'
  BY <1>1, <1>7, <1>9 DEF OneIsDefault, BookInv
<1>. QED
  BY <1>6, <1>8, <1>10 DEF BookInv

LEMMA DeleteKeepsOne ==
  ASSUME BookInv, NEW a \in Addresses, Book!DeleteAddress(a)
  PROVE  BookInv'
<1>. DEFINE rest == RemoveFirst(recency, a)
            promoted == IF a \in Book!Defaults /\ rest # << >> THEN {Head(rest)} ELSE {}
<1>. USE NoAddressAssumption
<1>1. /\ a \in Book!Saved
      /\ address' = [b \in Addresses |-> IF b = a THEN NoAddress
                                         ELSE IF b \in promoted THEN [address[b] EXCEPT !.isDefault = TRUE]
                                         ELSE address[b]]
      /\ recency' = rest
      /\ parcel' = [o \in Parcels |-> IF parcel[o] # NoAddress /\ parcel[o].id = a
                                      THEN [parcel[o] EXCEPT !.id = NoAddress] ELSE parcel[o]]
      /\ reading' = reading
  BY BookOperators DEF Book!DeleteAddress
<1>2. rest \in Seq(Addresses) /\ Once(rest) /\ ToSet(rest) = Book!Saved \ {a}
  BY <1>1, RemovingOne DEF BookInv, RecencyLists
<1>. HIDE DEF rest
<1>3. promoted \subseteq Book!Saved \ {a}
  BY <1>2 DEF ToSet
<1>4. Book!Saved \ {a} # {} => rest # << >>
  BY <1>2 DEF ToSet
<1>5. Book!Saved \subseteq Addresses /\ \A b \in Book!Saved : address[b] \in Book!AddressRow
  BY DEF BookInv, BookTables, Book!Saved
<1>6. \A b \in Book!Saved : /\ [address[b] EXCEPT !.isDefault = TRUE] \in Book!AddressRow
                           /\ [address[b] EXCEPT !.isDefault = TRUE].isDefault
  BY <1>5 DEF Book!AddressRow
<1>7. BookTables'
  <2>1. address' \in [Addresses -> Book!AddressRow \cup {NoAddress}]
    BY <1>1, <1>3, <1>6 DEF BookInv, BookTables
  <2>2. parcel' \in [Parcels -> SentRow \cup {NoAddress}]
    BY <1>1 DEF BookInv, BookTables, SentRow
  <2>. QED
    BY <1>1, <2>1, <2>2 DEF BookInv, BookTables
<1>8. Book!Saved' = Book!Saved \ {a}
  BY <1>1, <1>3, <1>5, <1>6 DEF Book!Saved
<1>9. RecencyLists'
  BY <1>1, <1>2, <1>8 DEF RecencyLists
<1>10. Book!Defaults' = (Book!Defaults \ {a}) \cup promoted
  <2>1. Book!Defaults' = {b \in Book!Saved \ {a} : address'[b].isDefault}
    BY <1>8 DEF Book!Defaults
  <2>2. \A b \in Book!Saved \ {a} : address'[b].isDefault <=> (address[b].isDefault \/ b \in promoted)
    BY <1>1, <1>3, <1>5, <1>6
  <2>. QED
    BY <2>1, <2>2, <1>3 DEF Book!Defaults
<1>11. OneIsDefault'
  <2>. SUFFICES ASSUME Book!Saved \ {a} # {}
                PROVE  \E d \in Book!Saved \ {a} : (Book!Defaults \ {a}) \cup promoted = {d}
    BY <1>8, <1>10 DEF OneIsDefault
  <2>1. PICK d \in Book!Saved : Book!Defaults = {d}
    BY <1>1 DEF BookInv, OneIsDefault
  <2>2. CASE d = a
    BY <2>1, <2>2, <1>3, <1>4
  <2>3. CASE d # a
    BY <2>1, <2>3
  <2>. QED
    BY <2>2, <2>3
<1>. QED
  BY <1>7, <1>9, <1>11 DEF BookInv

LEMMA BookStarts == Book!Init => BookInv
<1>. SUFFICES ASSUME Book!Init PROVE BookInv
  OBVIOUS
<1>1. Book!Saved = {}
  BY DEF Book!Init, Book!Saved
<1>2. recency = << >> /\ ToSet(<< >>) = {}
  BY DEF Book!Init, ToSet
<1>. QED
  BY <1>1, <1>2 DEF Book!Init, BookInv, BookTables, RecencyLists, Once, OneIsDefault

LEMMA BookGoesOn == BookInv /\ [Book!Next]_addressVars => BookInv'
<1>. SUFFICES ASSUME BookInv, [Book!Next]_addressVars PROVE BookInv'
  OBVIOUS
<1>1. ASSUME NEW a \in Addresses, NEW t \in Texts, NEW asked \in BOOLEAN,
             Book!CreateAddress(a, t, asked) \/ Book!UpdateAddress(a, t, asked)
      PROVE  BookInv'
  BY <1>1, CreateKeepsOne, UpdateKeepsOne
<1>2. ASSUME NEW a \in Addresses, Book!DeleteAddress(a)
      PROVE  BookInv'
  BY <1>2, DeleteKeepsOne
<1>3. ASSUME address' = address, recency' = recency, BookTables'
      PROVE  BookInv'
  <2>1. Book!Saved' = Book!Saved /\ Book!Defaults' = Book!Defaults
    BY <1>3 DEF Book!Saved, Book!Defaults
  <2>. QED
    BY <1>3, <2>1 DEF BookInv, RecencyLists, OneIsDefault
<1>4. ASSUME NEW a \in Addresses, Book!PlaceRead(a)
      PROVE  BookInv'
  <2>1. BookTables'
    BY <1>4 DEF Book!PlaceRead, BookInv, BookTables, SentRow
  <2>. QED
    BY <1>3, <1>4, <2>1 DEF Book!PlaceRead
<1>5. ASSUME NEW o \in Parcels, Book!PlaceWrite(o)
      PROVE  BookInv'
  <2>1. BookTables'
    BY <1>5 DEF Book!PlaceWrite, Book!Snapshot, BookInv, BookTables
  <2>. QED
    BY <1>3, <1>5, <2>1 DEF Book!PlaceWrite
<1>6. CASE UNCHANGED addressVars
  <2>1. BookTables'
    BY <1>6 DEF addressVars, BookInv, BookTables
  <2>. QED
    BY <1>3, <1>6, <2>1 DEF addressVars
<1>. QED
  BY <1>1, <1>2, <1>4, <1>5, <1>6 DEF Book!Next

LEMMA BookInvGives == BookInv => Book!TypeOK /\ Book!OneDefault /\ Book!SentWhereDeliverable
<1>. SUFFICES ASSUME BookInv
              PROVE  Book!TypeOK /\ Book!OneDefault /\ Book!SentWhereDeliverable
  OBVIOUS
<1>1. \A a \in Book!Saved : address[a] \in Book!AddressRow
  BY DEF BookInv, BookTables, Book!AddressRow, Book!Saved
<1>2. Len(recency) = Cardinality(Book!Saved) /\ ToSet(recency) = Book!Saved
  <2>1. recency \in Seq(Addresses) /\ Once(recency) /\ ToSet(recency) = Book!Saved
    BY DEF BookInv, RecencyLists
  <2>2. recency \in Bijection(1..Len(recency), Book!Saved)
    BY <2>1 DEF Once, ToSet, Bijection, Injection, IsInjective, Surjection
  <2>3. Len(recency) \in Nat /\ ExistsBijection(1..Len(recency), Book!Saved)
    BY <2>1, <2>2 DEF ExistsBijection
  <2>. QED
    BY <2>1, <2>3, FS_CountingElements
<1>3. Book!OneDefault
  <2>1. CASE Book!Saved = {}
    BY <2>1, FS_EmptySet, BookOperators DEF Book!OneDefault, Book!Defaults
  <2>2. CASE Book!Saved # {}
    BY <2>2, FS_Singleton, BookOperators DEF Book!OneDefault, BookInv, OneIsDefault
  <2>. QED
    BY <2>1, <2>2
<1>4. Book!SentWhereDeliverable
  BY DEF BookInv, BookTables, SentRow, Book!SentWhereDeliverable
<1>. QED
  BY <1>1, <1>2, <1>3, <1>4, BookOperators DEF Book!TypeOK

LEMMA SpecBook == Spec => Book!Init /\ [][Book!Next]_addressVars
<1>1. Init => Book!Init
  BY DEF Init
<1>2. [Next]_vars => [Book!Next]_addressVars
  BY DEF Next, vars, addressVars
<1>. QED
  BY <1>1, <1>2, PTL DEF Spec

LEMMA BookAlways == Spec => []BookInv
BY SpecBook, BookStarts, BookGoesOn, PTL

(* However addresses are saved, changed and deleted, a customer who has    *)
(* any has exactly one default (addresses/service.ts).                     *)
THEOREM OneDefaultAlways == Spec => []OneDefault
<1>1. BookInv => OneDefault
  BY BookInvGives DEF OneDefault
<1>. QED
  BY <1>1, BookAlways, PTL

(* An order is sent to an address as it was when the delivery rules allowed*)
(* it, whatever became of the address since (orders/placement.ts).         *)
THEOREM OrdersGoWhereAllowed == Spec => []SentWhereDeliverable
<1>1. BookInv => SentWhereDeliverable
  BY BookInvGives DEF SentWhereDeliverable
<1>. QED
  BY <1>1, BookAlways, PTL

-----------------------------------------------------------------------------
(* The catalogue.  Beyond that nothing dangles, a line's colour is one of its *)
(* product: so deleting a product with its colours takes no line along.    *)

EditorRow ==
  {Shop!Resting}
    \cup [pc : {"dropCategory"}, row : Categories]
    \cup [pc : {"create", "update"}, row : Products, category : Categories]
    \cup [pc : {"dropProduct"}, row : Products]
    \cup [pc : {"dropVariant"}, row : Colours]
    \cup [pc : {"unit"}, row : Colours, size : Sizes]

ShopTables ==
  /\ category \subseteq Categories
  /\ product \in [Products -> Categories \cup {Missing}]
  /\ colour \in [Colours -> Shop!ColourRow \cup {Missing}]
  /\ unit \in [Units -> Shop!UnitRow \cup {Missing}]
  /\ line \in [Lines -> Shop!LineRow \cup {Missing}]

ProductsStand == (\A p \in Products : product[p] # Missing => product[p] \in category) /\ wish \subseteq Shop!There(product)

ColoursStand == \A v \in Colours : colour[v] # Missing => product[colour[v].product] # Missing

UnitsStand == \A u \in Units : unit[u] # Missing => colour[unit[u].colour] # Missing

(* The colour of a line is a colour of its product.                        *)
LinesStand ==
  \A l \in Lines : line[l] # Missing =>
    /\ product[line[l].product] # Missing
    /\ line[l].colour # Missing =>
         /\ line[l].colour \in Colours /\ colour[line[l].colour] # Missing
         /\ colour[line[l].colour].product = line[l].product

RowsStand == ShopTables /\ ProductsStand /\ ColoursStand /\ UnitsStand /\ LinesStand

ShopInv == RowsStand /\ editor \in [Editors -> EditorRow]

(* What OrderedStays says of a step.                                       *)
OrdersKept ==
  \A l \in Lines : line[l] # Missing /\ line[l].ordered
                   => line'[l] # Missing /\ line'[l].ordered /\ line'[l].product = line[l].product

-----------------------------------------------------------------------------
LEMMA RowPlaces ==
  /\ \A row \in Shop!ColourRow : row.product \in Products /\ row # Missing
  /\ \A row \in Shop!UnitRow : row.colour \in Colours /\ row # Missing
  /\ \A row \in Shop!LineRow : row.product \in Products /\ row.colour \in Colours \cup {Missing} /\ row # Missing
  /\ \A c \in Categories : c # Missing
BY CatalogueAssumption DEF Shop!ColourRow, Shop!UnitRow, Shop!LineRow

LEMMA EditorPlaces ==
  ASSUME NEW q \in EditorRow
  PROVE  /\ q.pc = "dropCategory" => q.row \in Categories
         /\ q.pc \in {"create", "update"} => q.row \in Products /\ q.category \in Categories
         /\ q.pc = "dropProduct" => q.row \in Products
         /\ q.pc \in {"dropVariant", "unit"} => q.row \in Colours
         /\ q.pc = "unit" => q.size \in Sizes
BY DEF EditorRow, Shop!Resting

LEMMA SameRows ==
  ASSUME RowsStand, UNCHANGED <<category, product, colour, unit, line, wish>>
  PROVE  RowsStand' /\ OrdersKept
<1>1. ShopTables' /\ ColoursStand' /\ UnitsStand'
  BY DEF RowsStand, ShopTables, ColoursStand, UnitsStand
<1>2. ProductsStand'
  BY DEF RowsStand, ProductsStand, Shop!There
<1>3. LinesStand'
  BY DEF RowsStand, LinesStand
<1>. QED
  BY <1>1, <1>2, <1>3 DEF RowsStand, OrdersKept

LEMMA SameLines ==
  ASSUME line' = line
  PROVE  OrdersKept
BY DEF OrdersKept

LEMMA EditorsGo ==
  ASSUME ShopInv
  PROVE  /\ \A e \in Editors, to \in EditorRow : Shop!Turns(e, to) => editor' \in [Editors -> EditorRow]
         /\ Shop!Resting \in EditorRow
         /\ \A e \in Editors : editor[e] \in EditorRow
BY DEF ShopInv, Shop!Turns, EditorRow

-----------------------------------------------------------------------------
LEMMA CountingSteps ==
  ASSUME ShopInv, NEW e \in Editors,
         \/ \E c \in Categories : Shop!CountCategory(e, c) \/ \E p \in Products : Shop!ReadCategory(e, p, c)
         \/ \E p \in Products : Shop!CountProduct(e, p)
         \/ \E v \in Colours : Shop!CountVariant(e, v) \/ \E s \in Sizes : Shop!ReadVariant(e, v, s)
  PROVE  ShopInv' /\ OrdersKept
<1>1. UNCHANGED <<category, product, colour, unit, line, wish>>
  BY DEF Shop!CountCategory, Shop!ReadCategory, Shop!CountProduct, Shop!CountVariant, Shop!ReadVariant
<1>2. \E to \in EditorRow : Shop!Turns(e, to)
  <2>1. ASSUME NEW c \in Categories, Shop!CountCategory(e, c)
        PROVE  \E to \in EditorRow : Shop!Turns(e, to)
    BY <2>1 DEF Shop!CountCategory, EditorRow
  <2>2. ASSUME NEW c \in Categories, NEW p \in Products, Shop!ReadCategory(e, p, c)
        PROVE  \E to \in EditorRow : Shop!Turns(e, to)
    <3>1. [pc |-> IF product[p] = Missing THEN "create" ELSE "update", row |-> p, category |-> c] \in EditorRow
      BY DEF EditorRow
    <3>. QED
      BY <2>2, <3>1 DEF Shop!ReadCategory
  <2>3. ASSUME NEW p \in Products, Shop!CountProduct(e, p)
        PROVE  \E to \in EditorRow : Shop!Turns(e, to)
    BY <2>3 DEF Shop!CountProduct, EditorRow
  <2>4. ASSUME NEW v \in Colours, Shop!CountVariant(e, v)
        PROVE  \E to \in EditorRow : Shop!Turns(e, to)
    BY <2>4 DEF Shop!CountVariant, EditorRow
  <2>5. ASSUME NEW v \in Colours, NEW s \in Sizes, Shop!ReadVariant(e, v, s)
        PROVE  \E to \in EditorRow : Shop!Turns(e, to)
    BY <2>5 DEF Shop!ReadVariant, EditorRow
  <2>. QED
    BY <2>1, <2>2, <2>3, <2>4, <2>5
<1>. QED
  BY <1>1, <1>2, SameRows, EditorsGo DEF ShopInv

LEMMA DropCategoryStep ==
  ASSUME ShopInv, NEW e \in Editors, Shop!DropCategory(e)
  PROVE  ShopInv' /\ OrdersKept
<1>1. UNCHANGED <<product, colour, unit, line, wish>> /\ editor' \in [Editors -> EditorRow]
  BY EditorsGo DEF Shop!DropCategory
<1>2. RowsStand
  BY DEF ShopInv
<1>3. category' \subseteq category /\ \A p \in Products : product[p] # Missing => product[p] \in category'
  BY <1>2 DEF Shop!DropCategory, Shop!CategoryUsed, Shop!There, RowsStand, ShopTables, ProductsStand
<1>4. ShopTables' /\ ProductsStand'
  BY <1>1, <1>2, <1>3 DEF RowsStand, ShopTables, ProductsStand, Shop!There
<1>5. ColoursStand' /\ UnitsStand' /\ LinesStand'
  BY <1>1, <1>2 DEF RowsStand, ColoursStand, UnitsStand, LinesStand
<1>. QED
  BY <1>1, <1>4, <1>5, SameLines DEF ShopInv, RowsStand

(* A product that is new or gets another category.                         *)
LEMMA ProductWritten ==
  ASSUME RowsStand, NEW p \in Products, NEW c \in category, product' = [product EXCEPT ![p] = c],
         UNCHANGED <<category, colour, unit, line, wish>>
  PROVE  RowsStand'
<1>1. /\ \A x \in Products : product'[x] # Missing <=> product[x] # Missing \/ x = p
      /\ c # Missing /\ product' \in [Products -> Categories \cup {Missing}]
  BY RowPlaces DEF RowsStand, ShopTables
<1>2. ShopTables'
  BY <1>1 DEF RowsStand, ShopTables
<1>3. ProductsStand'
  BY <1>1 DEF RowsStand, ShopTables, ProductsStand, Shop!There
<1>4. ColoursStand'
  BY <1>1, RowPlaces DEF RowsStand, ShopTables, ColoursStand
<1>5. UnitsStand'
  BY DEF RowsStand, UnitsStand
<1>6. LinesStand'
  BY <1>1, RowPlaces DEF RowsStand, ShopTables, LinesStand
<1>. QED
  BY <1>2, <1>3, <1>4, <1>5, <1>6 DEF RowsStand

(* A colour that is new, of a product there is.                            *)
LEMMA ColourAdded ==
  ASSUME ShopTables, ColoursStand, UnitsStand, LinesStand,
         NEW products \in [Products -> Categories \cup {Missing}],
         \A x \in Products : product[x] # Missing => products[x] # Missing,
         NEW v \in Colours, colour[v] = Missing, NEW row \in Shop!ColourRow, products[row.product] # Missing,
         colour' = [colour EXCEPT ![v] = row], product' = products, UNCHANGED <<unit, line>>
  PROVE  /\ colour' \in [Colours -> Shop!ColourRow \cup {Missing}]
         /\ ColoursStand' /\ UnitsStand' /\ LinesStand'
<1>1. /\ \A w \in Colours \ {v} : colour'[w] = colour[w]
      /\ colour'[v] = row /\ row # Missing
      /\ colour' \in [Colours -> Shop!ColourRow \cup {Missing}]
  BY RowPlaces DEF ShopTables
<1>2. ColoursStand'
  BY <1>1, RowPlaces DEF ShopTables, ColoursStand
<1>3. UnitsStand'
  BY <1>1, RowPlaces DEF ShopTables, UnitsStand
<1>4. LinesStand'
  BY <1>1, RowPlaces DEF ShopTables, LinesStand
<1>. QED
  BY <1>1, <1>2, <1>3, <1>4

LEMMA WriteStep ==
  ASSUME ShopInv, NEW e \in Editors, Shop!WriteProduct(e)
  PROVE  ShopInv' /\ OrdersKept
<1>1. /\ UNCHANGED <<category, unit, line, wish>> /\ editor' \in [Editors -> EditorRow]
      /\ editor[e].pc \in {"create", "update"}
      /\ editor[e] \in EditorRow /\ RowsStand
  BY EditorsGo DEF Shop!WriteProduct, ShopInv
<1>2. PICK p \in Products, c \in Categories : p = editor[e].row /\ c = editor[e].category
  BY <1>1, EditorPlaces
<1>3. \/ product' = product /\ colour' = colour
      \/ c \in category /\ product' = [product EXCEPT ![p] = c] /\ colour' = colour
      \/ /\ c \in category /\ product' = [product EXCEPT ![p] = c]
         /\ \E v \in Colours : colour[v] = Missing /\ colour' = [colour EXCEPT ![v] = [product |-> p, sizes |-> Sizes]]
  BY <1>2 DEF Shop!WriteProduct, Shop!Fresh
<1>4. CASE product' = product /\ colour' = colour
  BY <1>1, <1>4, SameRows DEF ShopInv
<1>5. CASE c \in category /\ product' = [product EXCEPT ![p] = c] /\ colour' = colour
  BY <1>1, <1>5, ProductWritten, SameLines DEF ShopInv
<1>6. ASSUME c \in category, product' = [product EXCEPT ![p] = c],
             NEW v \in Colours, colour[v] = Missing, colour' = [colour EXCEPT ![v] = [product |-> p, sizes |-> Sizes]]
      PROVE  RowsStand'
  <2>1. PICK row : row = [product |-> p, sizes |-> Sizes]
    OBVIOUS
  <2>2. row \in Shop!ColourRow /\ row.product = p
    BY <2>1 DEF Shop!ColourRow
  <2>3. PICK products : products = product'
    OBVIOUS
  <2>4. /\ products \in [Products -> Categories \cup {Missing}] /\ products[p] # Missing
        /\ \A x \in Products : x # p => products[x] = product[x]
    BY <1>1, <1>6, <2>3, RowPlaces DEF RowsStand, ShopTables
  <2>5. \A x \in Products : product[x] # Missing => products[x] # Missing
    BY <2>4
  <2>6. /\ colour' \in [Colours -> Shop!ColourRow \cup {Missing}]
        /\ ColoursStand' /\ UnitsStand' /\ LinesStand'
    BY <1>1, <1>6, <2>1, <2>2, <2>3, <2>4, <2>5, ColourAdded DEF RowsStand
  <2>7. ShopTables'
    BY <1>1, <2>3, <2>4, <2>6 DEF RowsStand, ShopTables
  <2>8. ProductsStand'
    BY <1>1, <1>6, <2>3, <2>4 DEF RowsStand, ShopTables, ProductsStand, Shop!There
  <2>. QED
    BY <2>6, <2>7, <2>8 DEF RowsStand
<1>. QED
  BY <1>1, <1>3, <1>4, <1>5, <1>6, SameLines DEF ShopInv

LEMMA DropProductStep ==
  ASSUME ShopInv, NEW e \in Editors, Shop!DropProduct(e)
  PROVE  ShopInv' /\ OrdersKept
<1>1. /\ UNCHANGED <<category, unit, wish>> /\ editor' \in [Editors -> EditorRow]
      /\ editor[e].pc = "dropProduct" /\ editor[e] \in EditorRow /\ RowsStand
  BY EditorsGo DEF Shop!DropProduct, ShopInv
<1>2. PICK p \in Products : p = editor[e].row
  BY <1>1, EditorPlaces
<1>3. CASE Shop!ProductUsed(p)
  <2>1. UNCHANGED <<product, colour, line>>
    BY <1>2, <1>3 DEF Shop!DropProduct
  <2>. QED
    BY <1>1, <2>1, SameRows DEF ShopInv
<1>4. CASE ~Shop!ProductUsed(p)
  <2>1. /\ product' = Shop!Without(product, {p})
        /\ colour' = Shop!Without(colour, Shop!ColoursOf(p))
        /\ line' = Shop!Without(line, Shop!LinesOf(p))
    BY <1>2, <1>4 DEF Shop!DropProduct
  <2>2. p \notin wish /\ Shop!LinesOf(p) = {} /\ Shop!UnitsOf(Shop!ColoursOf(p)) = {}
    BY <1>4 DEF Shop!ProductUsed
  <2>3. ShopTables
    BY <1>1 DEF RowsStand
  <2>4. /\ product' \in [Products -> Categories \cup {Missing}]
        /\ \A x \in Products : product'[x] = IF x = p THEN Missing ELSE product[x]
    BY <2>1, <2>3 DEF Shop!Without, ShopTables
  <2>5. /\ colour' \in [Colours -> Shop!ColourRow \cup {Missing}]
        /\ \A v \in Colours : colour'[v] = IF colour[v] # Missing /\ colour[v].product = p THEN Missing ELSE colour[v]
    BY <2>1, <2>3 DEF Shop!Without, Shop!ColoursOf, Shop!There, ShopTables
  <2>6. line' = line
    BY <2>1, <2>2, <2>3 DEF Shop!Without, ShopTables
  <2>7. \A l \in Lines : line[l] # Missing => line[l].product # p
    BY <2>2, <2>3 DEF Shop!LinesOf, Shop!There, ShopTables
  <2>8. \A u \in Units : unit[u] # Missing => colour'[unit[u].colour] = colour[unit[u].colour]
    <3>1. \A u \in Units : unit[u] # Missing => unit[u].colour \in Colours /\ colour[unit[u].colour] # Missing
      BY <1>1, <2>3, RowPlaces DEF RowsStand, ShopTables, UnitsStand
    <3>2. \A u \in Units : unit[u] # Missing => colour[unit[u].colour].product # p
      BY <2>2, <2>3, <3>1 DEF Shop!UnitsOf, Shop!ColoursOf, Shop!There, ShopTables
    <3>. QED
      BY <2>5, <3>1, <3>2
  <2>9. ShopTables'
    BY <1>1, <2>3, <2>4, <2>5, <2>6 DEF ShopTables
  <2>10. ProductsStand'
    BY <1>1, <2>2, <2>3, <2>4 DEF RowsStand, ProductsStand, ShopTables, Shop!There
  <2>11. ColoursStand'
    BY <1>1, <2>3, <2>4, <2>5, RowPlaces DEF RowsStand, ColoursStand, ShopTables
  <2>12. UnitsStand'
    BY <1>1, <2>8 DEF RowsStand, UnitsStand
  <2>13. LinesStand'
    BY <1>1, <2>3, <2>4, <2>5, <2>6, <2>7, RowPlaces DEF RowsStand, LinesStand, ShopTables
  <2>. QED
    BY <1>1, <2>6, <2>9, <2>10, <2>11, <2>12, <2>13, SameLines DEF ShopInv, RowsStand
<1>. QED
  BY <1>3, <1>4

LEMMA DropVariantStep ==
  ASSUME ShopInv, NEW e \in Editors, Shop!DropVariant(e)
  PROVE  ShopInv' /\ OrdersKept
<1>1. /\ UNCHANGED <<category, product, unit, wish>> /\ editor' \in [Editors -> EditorRow]
      /\ editor[e].pc = "dropVariant" /\ editor[e] \in EditorRow /\ RowsStand /\ ShopTables
  BY EditorsGo DEF Shop!DropVariant, ShopInv, RowsStand
<1>2. PICK v \in Colours : v = editor[e].row
  BY <1>1, EditorPlaces
<1>3. CASE Shop!VariantUsed(v)
  <2>1. UNCHANGED <<colour, line>>
    BY <1>2, <1>3 DEF Shop!DropVariant
  <2>. QED
    BY <1>1, <2>1, SameRows DEF ShopInv
<1>4. CASE ~Shop!VariantUsed(v)
  <2>. DEFINE naming == {l \in Shop!There(line) : line[l].colour = v}
  <2>1. /\ colour' = Shop!Without(colour, {v})
        /\ line' = [l \in Lines |-> IF l \notin naming THEN line[l]
                                   ELSE IF line[l].ordered THEN [line[l] EXCEPT !.colour = Missing]
                                   ELSE Missing]
    BY <1>2, <1>4 DEF Shop!DropVariant
  <2>2. /\ colour' \in [Colours -> Shop!ColourRow \cup {Missing}]
        /\ \A w \in Colours : colour'[w] = IF w = v THEN Missing ELSE colour[w]
    BY <1>1, <2>1 DEF Shop!Without, ShopTables
  <2>3. \A u \in Units : unit[u] # Missing => unit[u].colour # v
    BY <1>1, <1>4 DEF Shop!VariantUsed, Shop!UnitsOf, Shop!There, ShopTables
  <2>4. ASSUME NEW l \in Lines
        PROVE  \/ line'[l] = line[l] /\ (line[l] # Missing => line[l].colour # v)
               \/ line'[l] = Missing /\ line[l] # Missing /\ ~line[l].ordered
               \/ /\ line[l] # Missing /\ line'[l] \in Shop!LineRow /\ line'[l].product = line[l].product
                  /\ line'[l].ordered /\ line'[l].colour = Missing
    <3>1. CASE l \notin naming
      BY <1>1, <2>1, <3>1 DEF Shop!There, ShopTables
    <3>2. CASE l \in naming /\ line[l].ordered
      <4>1. line[l] \in Shop!LineRow /\ line[l] # Missing /\ line'[l] = [line[l] EXCEPT !.colour = Missing]
        BY <1>1, <2>1, <3>2 DEF Shop!There, ShopTables
      <4>2. PICK old \in Shop!LineRow : old = line[l]
        BY <4>1
      <4>3. [old EXCEPT !.colour = Missing] = [product |-> old.product, colour |-> Missing, ordered |-> old.ordered]
        BY DEF Shop!LineRow
      <4>4. PICK row : row = [product |-> old.product, colour |-> Missing, ordered |-> old.ordered]
        OBVIOUS
      <4>5. row \in Shop!LineRow /\ row.product = old.product /\ row.ordered = old.ordered /\ row.colour = Missing
        BY <4>4 DEF Shop!LineRow
      <4>. QED
        BY <3>2, <4>1, <4>2, <4>3, <4>4, <4>5
    <3>3. CASE l \in naming /\ ~line[l].ordered
      BY <2>1, <3>3 DEF Shop!There
    <3>. QED
      BY <3>1, <3>2, <3>3
  <2>5. line' \in [Lines -> Shop!LineRow \cup {Missing}]
    <3>1. line' = [l \in Lines |-> line'[l]]
      BY <2>1
    <3>2. \A l \in Lines : line'[l] \in Shop!LineRow \cup {Missing}
      BY <1>1, <2>4 DEF ShopTables
    <3>. HIDE DEF naming
    <3>. QED
      BY <3>1, <3>2
  <2>. HIDE DEF naming
  <2>6. ShopTables'
    BY <1>1, <2>2, <2>5 DEF ShopTables
  <2>7. ProductsStand'
    BY <1>1 DEF RowsStand, ProductsStand, Shop!There
  <2>8. ColoursStand'
    BY <1>1, <2>2 DEF RowsStand, ColoursStand
  <2>9. UnitsStand'
    BY <1>1, <2>2, <2>3, RowPlaces DEF RowsStand, UnitsStand, ShopTables
  <2>10. LinesStand'
    BY <1>1, <2>2, <2>4, RowPlaces DEF RowsStand, LinesStand, ShopTables
  <2>11. OrdersKept
    BY <2>4, RowPlaces DEF OrdersKept
  <2>. QED
    BY <1>1, <2>6, <2>7, <2>8, <2>9, <2>10, <2>11 DEF ShopInv, RowsStand
<1>. QED
  BY <1>3, <1>4

-----------------------------------------------------------------------------
(* A garment that is new, or leaves: its colour is there.                  *)
LEMMA UnitWritten ==
  ASSUME RowsStand, NEW u \in Units, NEW row \in Shop!UnitRow, colour[row.colour] # Missing,
         unit' = [unit EXCEPT ![u] = row], UNCHANGED <<category, product, colour, line, wish>>
  PROVE  RowsStand'
<1>1. ShopTables'
  BY DEF RowsStand, ShopTables
<1>2. ProductsStand' /\ ColoursStand'
  BY DEF RowsStand, ProductsStand, ColoursStand, Shop!There
<1>3. UnitsStand'
  BY DEF RowsStand, ShopTables, UnitsStand
<1>4. LinesStand'
  BY DEF RowsStand, LinesStand
<1>. QED
  BY <1>1, <1>2, <1>3, <1>4 DEF RowsStand

LEMMA UnitSteps ==
  ASSUME ShopInv,
         \/ \E e \in Editors : Shop!AddUnit(e)
         \/ \E u \in Units : Shop!Leaves(u)
  PROVE  ShopInv' /\ OrdersKept
<1>1. RowsStand /\ ShopTables
  BY DEF ShopInv, RowsStand
<1>2. ASSUME NEW e \in Editors, Shop!AddUnit(e)
      PROVE  ShopInv' /\ OrdersKept
  <2>1. /\ UNCHANGED <<category, product, colour, line, wish>> /\ editor' \in [Editors -> EditorRow]
        /\ editor[e].pc = "unit" /\ editor[e] \in EditorRow
    BY <1>2, EditorsGo DEF Shop!AddUnit
  <2>2. PICK v \in Colours, size \in Sizes : v = editor[e].row /\ size = editor[e].size
    BY <2>1, EditorPlaces
  <2>3. CASE unit' = unit
    BY <1>1, <2>1, <2>3, SameRows DEF ShopInv
  <2>4. ASSUME colour[v] # Missing, NEW u \in Units,
               unit' = [unit EXCEPT ![u] = [colour |-> v, size |-> size, gone |-> FALSE]]
        PROVE  RowsStand'
    <3>1. PICK row : row = [colour |-> v, size |-> size, gone |-> FALSE]
      OBVIOUS
    <3>2. row \in Shop!UnitRow /\ row.colour = v
      BY <3>1 DEF Shop!UnitRow
    <3>. QED
      BY <1>1, <2>1, <2>4, <3>1, <3>2, UnitWritten
  <2>5. \/ unit' = unit
        \/ /\ colour[v] # Missing
           /\ \E u \in Units : unit' = [unit EXCEPT ![u] = [colour |-> v, size |-> size, gone |-> FALSE]]
    BY <1>2, <2>2 DEF Shop!AddUnit, Shop!There
  <2>. QED
    BY <2>1, <2>3, <2>4, <2>5, SameLines DEF ShopInv
<1>3. ASSUME NEW u \in Units, Shop!Leaves(u)
      PROVE  ShopInv' /\ OrdersKept
  <2>1. /\ UNCHANGED <<category, product, colour, line, wish, editor>>
        /\ unit[u] # Missing /\ unit' = [unit EXCEPT ![u].gone = TRUE]
    BY <1>3 DEF Shop!Leaves, Shop!There
  <2>2. PICK old \in Shop!UnitRow : old = unit[u] /\ colour[old.colour] # Missing
    BY <1>1, <2>1 DEF RowsStand, ShopTables, UnitsStand
  <2>3. PICK row : row = [old EXCEPT !.gone = TRUE]
    OBVIOUS
  <2>4. row = [colour |-> old.colour, size |-> old.size, gone |-> TRUE]
    BY <2>3 DEF Shop!UnitRow
  <2>5. row \in Shop!UnitRow /\ row.colour = old.colour
    BY <2>4 DEF Shop!UnitRow
  <2>6. unit' = [unit EXCEPT ![u] = row]
    BY <2>1, <2>2, <2>3
  <2>. QED
    BY <1>1, <2>1, <2>2, <2>5, <2>6, UnitWritten, SameLines DEF ShopInv
<1>. QED
  BY <1>2, <1>3

(* What customers write: a line that was not an order's, and wishes.       *)
LEMMA LineWritten ==
  ASSUME RowsStand, NEW l \in Lines, NEW row, line' = [line EXCEPT ![l] = row],
         \/ row = Missing
         \/ /\ row \in Shop!LineRow /\ product[row.product] # Missing
            /\ row.colour # Missing => /\ row.colour \in Colours /\ colour[row.colour] # Missing
                                       /\ colour[row.colour].product = row.product,
         UNCHANGED <<category, product, colour, unit, wish>>
  PROVE  RowsStand'
<1>1. ShopTables'
  BY DEF RowsStand, ShopTables
<1>2. ProductsStand' /\ ColoursStand' /\ UnitsStand'
  BY DEF RowsStand, ProductsStand, ColoursStand, UnitsStand, Shop!There
<1>3. LinesStand'
  BY DEF RowsStand, ShopTables, LinesStand
<1>. QED
  BY <1>1, <1>2, <1>3 DEF RowsStand

LEMMA CustomerSteps ==
  ASSUME ShopInv,
         \/ \E l \in Lines : \/ \E v \in Colours : Shop!Bag(l, v)
                            \/ Shop!Unbag(l)
                            \/ \E item \in Lines : Shop!Order(l, item)
         \/ \E p \in Products : Shop!Wish(p)
  PROVE  ShopInv' /\ OrdersKept
<1>1. RowsStand /\ ShopTables /\ LinesStand
  BY DEF ShopInv, RowsStand
<1>2. ASSUME NEW l \in Lines, NEW v \in Colours, Shop!Bag(l, v)
      PROVE  ShopInv' /\ OrdersKept
  <2>1. /\ UNCHANGED <<category, product, colour, unit, wish, editor>>
        /\ line[l] = Missing /\ colour[v] # Missing
    BY <1>2 DEF Shop!Bag, Shop!There
  <2>2. PICK row : row = [product |-> colour[v].product, colour |-> v, ordered |-> FALSE]
    OBVIOUS
  <2>3. colour[v].product \in Products /\ product[colour[v].product] # Missing
    BY <1>1, <2>1, RowPlaces DEF RowsStand, ShopTables, ColoursStand
  <2>4. row \in Shop!LineRow /\ row.product = colour[v].product /\ row.colour = v
    BY <2>2, <2>3 DEF Shop!LineRow
  <2>5. line' = [line EXCEPT ![l] = row]
    BY <1>2, <2>2 DEF Shop!Bag
  <2>6. RowsStand'
    BY <1>1, <2>1, <2>3, <2>4, <2>5, LineWritten
  <2>7. OrdersKept
    BY <1>1, <2>1, <2>5 DEF OrdersKept, ShopTables
  <2>. QED
    BY <2>1, <2>6, <2>7 DEF ShopInv
<1>3. ASSUME NEW l \in Lines, Shop!Unbag(l)
      PROVE  ShopInv' /\ OrdersKept
  <2>1. /\ UNCHANGED <<category, product, colour, unit, wish, editor>>
        /\ line[l] # Missing /\ ~line[l].ordered
    BY <1>3 DEF Shop!Unbag, Shop!There
  <2>2. line' = [line EXCEPT ![l] = Missing]
    BY <1>1, <1>3 DEF Shop!Unbag, Shop!Without, ShopTables
  <2>3. RowsStand'
    BY <1>1, <2>1, <2>2, LineWritten
  <2>4. OrdersKept
    BY <1>1, <2>1, <2>2 DEF OrdersKept, ShopTables
  <2>. QED
    BY <2>1, <2>3, <2>4 DEF ShopInv
<1>4. ASSUME NEW l \in Lines, NEW item \in Lines, Shop!Order(l, item)
      PROVE  ShopInv' /\ OrdersKept
  <2>1. /\ UNCHANGED <<category, product, colour, unit, wish, editor>>
        /\ line[l] # Missing /\ line[item] = Missing
        /\ line' = [line EXCEPT ![item] = [line[l] EXCEPT !.ordered = TRUE]]
    BY <1>4 DEF Shop!Order, Shop!There
  <2>2. PICK old \in Shop!LineRow : old = line[l]
    BY <1>1, <2>1 DEF ShopTables
  <2>3. PICK row : row = [old EXCEPT !.ordered = TRUE]
    OBVIOUS
  <2>4. row = [product |-> old.product, colour |-> old.colour, ordered |-> TRUE]
    BY <2>3 DEF Shop!LineRow
  <2>5. row \in Shop!LineRow /\ row.product = line[l].product /\ row.colour = line[l].colour
    BY <2>2, <2>4 DEF Shop!LineRow
  <2>6. line' = [line EXCEPT ![item] = row]
    BY <2>1, <2>2, <2>3
  <2>7. RowsStand'
    <3>1. /\ product[row.product] # Missing
          /\ row.colour # Missing => /\ row.colour \in Colours /\ colour[row.colour] # Missing
                                     /\ colour[row.colour].product = row.product
      BY <1>1, <2>1, <2>5 DEF LinesStand
    <3>2. UNCHANGED <<category, product, colour, unit, wish>>
      BY <2>1
    <3>. QED
      BY <1>1, <2>5, <2>6, <3>1, <3>2, LineWritten
  <2>8. OrdersKept
    BY <1>1, <2>1, <2>6 DEF OrdersKept, ShopTables
  <2>. QED
    BY <2>1, <2>7, <2>8 DEF ShopInv
<1>5. ASSUME NEW p \in Products, Shop!Wish(p)
      PROVE  ShopInv' /\ OrdersKept
  <2>1. /\ UNCHANGED <<category, product, colour, unit, line, editor>>
        /\ wish' \subseteq wish \cup {p} /\ p \in Shop!There(product)
    BY <1>5 DEF Shop!Wish
  <2>2. ShopTables' /\ ColoursStand' /\ UnitsStand'
    BY <1>1, <2>1 DEF RowsStand, ShopTables, ColoursStand, UnitsStand
  <2>3. LinesStand'
    BY <1>1, <2>1 DEF LinesStand
  <2>4. ProductsStand'
    BY <1>1, <2>1 DEF RowsStand, ProductsStand, Shop!There
  <2>. QED
    BY <2>1, <2>2, <2>3, <2>4, SameLines DEF ShopInv, RowsStand
<1>. QED
  BY <1>2, <1>3, <1>4, <1>5

LEMMA ConsoleSteps ==
  ASSUME ShopInv,
         \/ \E c \in Categories : Shop!CreateCategory(c)
         \/ \E v \in Colours : \/ \E p \in Products : Shop!AddVariant(v, p)
                             \/ \E sizes \in SUBSET Sizes : Shop!UpdateVariant(v, sizes)
  PROVE  ShopInv' /\ OrdersKept
<1>1. RowsStand /\ ShopTables
  BY DEF ShopInv, RowsStand
<1>2. ASSUME NEW c \in Categories, Shop!CreateCategory(c)
      PROVE  ShopInv' /\ OrdersKept
  <2>1. UNCHANGED <<product, colour, unit, line, wish, editor>> /\ category' = category \cup {c}
    BY <1>2 DEF Shop!CreateCategory
  <2>2. ShopTables' /\ ProductsStand'
    BY <1>1, <2>1 DEF RowsStand, ShopTables, ProductsStand, Shop!There
  <2>3. ColoursStand' /\ UnitsStand' /\ LinesStand'
    BY <1>1, <2>1 DEF RowsStand, ColoursStand, UnitsStand, LinesStand
  <2>. QED
    BY <2>1, <2>2, <2>3, SameLines DEF ShopInv, RowsStand
<1>3. ASSUME NEW v \in Colours, NEW p \in Products, Shop!AddVariant(v, p)
      PROVE  ShopInv' /\ OrdersKept
  <2>1. /\ UNCHANGED <<category, product, unit, line, wish, editor>>
        /\ colour[v] = Missing /\ product[p] # Missing
        /\ colour' = [colour EXCEPT ![v] = [product |-> p, sizes |-> Sizes]]
    BY <1>3 DEF Shop!AddVariant, Shop!Fresh, Shop!There
  <2>2. PICK row : row = [product |-> p, sizes |-> Sizes]
    OBVIOUS
  <2>3. row \in Shop!ColourRow /\ row.product = p
    BY <2>2 DEF Shop!ColourRow
  <2>4. PICK products : products = product
    OBVIOUS
  <2>5. /\ colour' \in [Colours -> Shop!ColourRow \cup {Missing}]
        /\ ColoursStand' /\ UnitsStand' /\ LinesStand'
    BY <1>1, <2>1, <2>2, <2>3, <2>4, ColourAdded DEF RowsStand, ShopTables
  <2>6. ShopTables' /\ ProductsStand'
    BY <1>1, <2>1, <2>5 DEF RowsStand, ShopTables, ProductsStand, Shop!There
  <2>. QED
    BY <2>1, <2>5, <2>6, SameLines DEF ShopInv, RowsStand
<1>4. ASSUME NEW v \in Colours, NEW sizes \in SUBSET Sizes, Shop!UpdateVariant(v, sizes)
      PROVE  ShopInv' /\ OrdersKept
  <2>1. /\ UNCHANGED <<category, product, unit, line, wish, editor>>
        /\ colour[v] # Missing /\ colour' = [colour EXCEPT ![v].sizes = sizes]
    BY <1>4 DEF Shop!UpdateVariant, Shop!There
  <2>2. PICK old \in Shop!ColourRow : old = colour[v]
    BY <1>1, <2>1 DEF ShopTables
  <2>3. PICK row : row = [old EXCEPT !.sizes = sizes]
    OBVIOUS
  <2>4. row = [product |-> old.product, sizes |-> sizes]
    BY <2>3 DEF Shop!ColourRow
  <2>5. row \in Shop!ColourRow /\ row.product = colour[v].product /\ row # Missing
    BY <2>2, <2>4, RowPlaces DEF Shop!ColourRow
  <2>6. /\ colour' \in [Colours -> Shop!ColourRow \cup {Missing}]
        /\ \A w \in Colours : /\ colour'[w] # Missing <=> colour[w] # Missing
                               /\ colour'[w].product = colour[w].product
    BY <1>1, <2>1, <2>2, <2>3, <2>5 DEF ShopTables
  <2>7. ShopTables' /\ ProductsStand'
    BY <1>1, <2>1, <2>6 DEF RowsStand, ShopTables, ProductsStand, Shop!There
  <2>8. ColoursStand' /\ LinesStand'
    BY <1>1, <2>1, <2>6 DEF RowsStand, ColoursStand, LinesStand
  <2>9. UnitsStand'
    BY <1>1, <2>1, <2>6, RowPlaces DEF RowsStand, ShopTables, UnitsStand
  <2>. QED
    BY <2>1, <2>7, <2>8, <2>9, SameLines DEF ShopInv, RowsStand
<1>. QED
  BY <1>2, <1>3, <1>4

-----------------------------------------------------------------------------
LEMMA ShopStarts == Shop!Init => ShopInv
<1>. SUFFICES ASSUME Shop!Init PROVE ShopInv
  OBVIOUS
<1>1. ShopTables /\ ProductsStand
  BY DEF Shop!Init, ShopTables, ProductsStand, Shop!There
<1>2. ColoursStand /\ UnitsStand /\ LinesStand
  BY DEF Shop!Init, ColoursStand, UnitsStand, LinesStand
<1>3. editor \in [Editors -> EditorRow]
  BY DEF Shop!Init, EditorRow
<1>. QED
  BY <1>1, <1>2, <1>3 DEF ShopInv, RowsStand

LEMMA ShopGoesOn ==
  ASSUME ShopInv, [Shop!Next]_catalogueVars
  PROVE  ShopInv' /\ OrdersKept
<1>1. CASE UNCHANGED catalogueVars
  BY <1>1, SameRows DEF catalogueVars, ShopInv
<1>2. CASE Shop!Next
  BY <1>2, CountingSteps, DropCategoryStep, WriteStep, DropProductStep, DropVariantStep, UnitSteps, CustomerSteps,
     ConsoleSteps DEF Shop!Next
<1>. QED
  BY <1>1, <1>2

LEMMA ShopInvGives == ShopInv => Shop!TypeOK /\ Shop!NothingDangles
<1>. SUFFICES ASSUME ShopInv PROVE Shop!TypeOK /\ Shop!NothingDangles
  OBVIOUS
<1>1. RowsStand /\ ShopTables
  BY DEF ShopInv, RowsStand
<1>2. Shop!TypeOK
  BY <1>1 DEF ShopTables, Shop!TypeOK, Shop!There
<1>3. /\ Shop!There(product) = {p \in Products : product[p] # Missing}
      /\ Shop!There(colour) = {v \in Colours : colour[v] # Missing}
      /\ Shop!There(unit) = {u \in Units : unit[u] # Missing}
      /\ Shop!There(line) = {l \in Lines : line[l] # Missing}
  BY <1>1 DEF ShopTables, Shop!There
<1>4. Shop!NothingDangles
  BY <1>1, <1>3, RowPlaces DEF RowsStand, ShopTables, ProductsStand, ColoursStand, UnitsStand, LinesStand,
                               Shop!NothingDangles
<1>. QED
  BY <1>2, <1>4

LEMMA SpecSells == Spec => Shop!Init /\ [][Shop!Next]_catalogueVars
<1>1. Init => Shop!Init
  BY DEF Init
<1>2. [Next]_vars => [Shop!Next]_catalogueVars
  BY DEF Next, vars, catalogueVars
<1>. QED
  BY <1>1, <1>2, PTL DEF Spec

LEMMA ShopAlways == Spec => []ShopInv
<1>1. ShopInv /\ [Shop!Next]_catalogueVars => ShopInv'
  BY ShopGoesOn
<1>. QED
  BY <1>1, SpecSells, ShopStarts, PTL

(* Whatever is deleted while somebody adds to it, nothing refers to a row  *)
(* that is gone (console/products: deleteProduct, deleteVariant;           *)
(* console/categories).                                                    *)
THEOREM NothingEverDangles == Spec => []NothingDangles
<1>1. ShopInv => NothingDangles
  BY ShopInvGives DEF NothingDangles
<1>. QED
  BY <1>1, ShopAlways, PTL

(* What was ordered stays on its order, whatever the console deletes       *)
(* (deleteProduct, deleteVariant).                                         *)
THEOREM OrdersStay == Spec => OrderedStays
<1>1. ShopInv /\ [Shop!Next]_catalogueVars =>
        [\A l \in Lines : line[l] # Missing /\ line[l].ordered
                         => line'[l] # Missing /\ line'[l].ordered /\ line'[l].product = line[l].product]_Shop!catalogueVars
  BY ShopGoesOn DEF OrdersKept
<1>. QED
  BY <1>1, ShopAlways, SpecSells, PTL DEF OrderedStays, Shop!OrderedStays

-----------------------------------------------------------------------------
(* Amounts charged.  An order keeps the total, the currency and the rate it *)
(* was placed with; what the customer saw, every payment of the order and  *)
(* every session under way carry the amount they make.                     *)

VisitRow == [currency : Money!Currencies, rate : Rates \cup {Scale}]
SeenRow == [currency : Money!Currencies, amount : Nat]
OpeningRow ==
  [pc : {"ask"}, bill : Bills, gateway : Money!Gateways, minor : Nat]
    \cup [pc : {"retire"}, bill : Bills, gateway : Money!Gateways, minor : Nat, stale : Payments]

MoneyTables ==
  /\ rate \in [Foreign -> Rates \cup {Nothing}]
  /\ visit \in VisitRow \cup {Nothing}
  /\ bill \in [Bills -> Money!BillRow \cup {Nothing}]
  /\ payment \in [Payments -> Money!PaymentRow \cup {Nothing}]
  /\ opening \in [PaySessions -> OpeningRow \cup {Nothing}]
  /\ seen \in [Bills -> SeenRow \cup {Nothing}]

(* What an order comes to, in the customer's currency.                     *)
Due(row) == Money!Convert(row.total, row.rate)
Agreed(row) == [currency |-> row.currency, amount |-> Due(row)]

SeenFits == \A b \in Bills : bill[b] # Nothing => seen[b] = Agreed(bill[b])

PaymentsFit ==
  \A p \in Payments : payment[p] # Nothing =>
    /\ bill[payment[p].bill] # Nothing
    /\ payment[p].minor = Due(bill[payment[p].bill]) /\ payment[p].currency = bill[payment[p].bill].currency
    /\ payment[p].status = "refunded" => payment[p].returned = payment[p].minor

OpeningsFit ==
  \A s \in PaySessions : opening[s] # Nothing =>
    /\ bill[opening[s].bill] # Nothing /\ opening[s].minor = Due(bill[opening[s].bill])
    /\ opening[s].pc = "retire" => payment[opening[s].stale] # Nothing

MoneyInv == MoneyTables /\ SeenFits /\ PaymentsFit /\ OpeningsFit

-----------------------------------------------------------------------------
LEMMA DividesEvenly ==
  ASSUME NEW d \in Nat, d > 0, NEW q \in Nat, NEW r \in Nat, r < d
  PROVE  (d * q + r) \div d = q
<1>1. PICK a \in Nat : a = d * q + r
  OBVIOUS
<1>2. PICK n \in Int : n = a \div d
  OBVIOUS
<1>3. d * n <= a /\ a < d * n + d
  BY <1>2
<1>4. CASE n < q
  <2>1. PICK k \in Nat : q = n + 1 + k
    BY <1>4
  <2>2. d * q = d * n + d + d * k
    BY <2>1
  <2>. QED
    BY <1>1, <1>3, <2>2
<1>5. CASE n > q
  <2>1. PICK k \in Nat : n = q + 1 + k
    BY <1>5
  <2>2. d * n = d * q + d + d * k
    BY <2>1
  <2>. QED
    BY <1>1, <1>3, <2>2
<1>. QED
  BY <1>1, <1>2, <1>4, <1>5

LEMMA WholeAmounts ==
  ASSUME NEW t \in Nat, NEW r \in Nat, NEW s \in Nat, s > 0
  PROVE  (2 * t * r + s) \div (2 * s) \in Nat
<1>1. PICK a \in Nat : a = 2 * t * r + s
  OBVIOUS
<1>2. PICK d \in Nat : d = 2 * s /\ d > 0
  OBVIOUS
<1>3. a \div d \in Nat
  BY <1>2
<1>. QED
  BY <1>1, <1>2, <1>3

(* Giving back a whole order gives back what was charged, to the paisa.    *)
LEMMA WholeRefund ==
  ASSUME NEW t \in Nat, t > 0, NEW m \in Nat
  PROVE  (2 * t * m + t) \div (2 * t) = m
<1>1. PICK d \in Nat : d = 2 * t /\ d > 0 /\ t < d
  OBVIOUS
<1>2. (d * m + t) \div d = m
  BY <1>1, DividesEvenly
<1>. QED
  BY <1>1, <1>2

LEMMA BillPlaces ==
  ASSUME NEW row \in Money!BillRow
  PROVE  /\ row.total \in Nat /\ row.total > 0 /\ row.rate \in Nat /\ row.currency \in Money!Currencies
         /\ Money!Convert(row.total, row.rate) \in Nat
         /\ \A v \in BOOLEAN :
              /\ [row EXCEPT !.payable = v] \in Money!BillRow
              /\ [row EXCEPT !.payable = v].total = row.total /\ [row EXCEPT !.payable = v].rate = row.rate
              /\ [row EXCEPT !.payable = v].currency = row.currency
<1>1. Scale \in Nat /\ Scale > 0 /\ Rates \subseteq Nat /\ Totals \subseteq Nat \ {0}
  BY ChargesAssumption
<1>2. row.total \in Totals /\ row.rate \in Rates \cup {Scale} /\ row.currency \in Money!Currencies
  BY DEF Money!BillRow
<1>3. row.total \in Nat /\ row.total > 0 /\ row.rate \in Nat
  <2>1. row.total \in Nat /\ row.total # 0
    BY <1>1, <1>2
  <2>2. row.rate \in Nat
    BY <1>1, <1>2
  <2>. QED
    BY <2>1, <2>2
<1>4. Money!Convert(row.total, row.rate) \in Nat
  BY <1>1, <1>3, WholeAmounts DEF Money!Convert
<1>5. \A v \in BOOLEAN :
        /\ [row EXCEPT !.payable = v] \in Money!BillRow
        /\ [row EXCEPT !.payable = v].total = row.total /\ [row EXCEPT !.payable = v].rate = row.rate
        /\ [row EXCEPT !.payable = v].currency = row.currency
  BY DEF Money!BillRow
<1>. QED
  BY <1>2, <1>3, <1>4, <1>5

LEMMA PaymentPlaces ==
  ASSUME NEW row \in Money!PaymentRow
  PROVE  /\ row.bill \in Bills /\ row.minor \in Nat /\ row.currency \in Money!Currencies /\ row.returned \in Nat
         /\ \A s \in {"pending", "paid", "failed", "refunded"} :
              /\ [row EXCEPT !.status = s] \in Money!PaymentRow
              /\ [row EXCEPT !.status = s].bill = row.bill /\ [row EXCEPT !.status = s].minor = row.minor
              /\ [row EXCEPT !.status = s].currency = row.currency /\ [row EXCEPT !.status = s].status = s
              /\ [row EXCEPT !.status = s].returned = row.returned
BY DEF Money!PaymentRow

LEMMA BillOfPayment ==
  ASSUME MoneyInv, NEW p \in Payments, payment[p] # Nothing
  PROVE  payment[p] \in Money!PaymentRow /\ payment[p].bill \in Bills /\ bill[payment[p].bill] # Nothing
<1>1. payment[p] \in Money!PaymentRow
  BY DEF MoneyInv, MoneyTables
<1>2. payment[p].bill \in Bills
  BY <1>1 DEF Money!PaymentRow
<1>. QED
  BY <1>1, <1>2 DEF MoneyInv, PaymentsFit

LEMMA OpeningPlaces ==
  ASSUME NEW row \in OpeningRow
  PROVE  /\ row.bill \in Bills /\ row.gateway \in Money!Gateways /\ row.minor \in Nat
         /\ row.pc \in {"ask", "retire"} /\ (row.pc = "retire" => row.stale \in Payments)
BY DEF OpeningRow

-----------------------------------------------------------------------------
(* What there is keeps what was agreed on; what is refunded is what was    *)
(* charged.                                                                *)
MoneyStays ==
  /\ \A b \in Bills : bill[b] # Nothing =>
       /\ bill'[b] # Nothing /\ seen'[b] = seen[b] /\ bill'[b].total = bill[b].total
       /\ bill'[b].currency = bill[b].currency /\ bill'[b].rate = bill[b].rate
  /\ \A p \in Payments : payment[p] # Nothing =>
       /\ payment'[p] # Nothing /\ payment'[p].bill = payment[p].bill
       /\ payment'[p].minor = payment[p].minor /\ payment'[p].currency = payment[p].currency
       /\ payment'[p].status = "refunded" =>
            \/ payment[p].status = "refunded" /\ payment'[p].returned = payment[p].returned
            \/ payment'[p].returned = payment[p].minor

LEMMA MoneyFits ==
  ASSUME MoneyInv, MoneyTables', MoneyStays,
         \A b \in Bills : bill[b] = Nothing /\ bill'[b] # Nothing => seen'[b] = Agreed(bill'[b]),
         \A p \in Payments : payment[p] = Nothing /\ payment'[p] # Nothing =>
           LET b == payment'[p].bill IN
           /\ b \in Bills /\ bill[b] # Nothing /\ payment'[p].minor = Due(bill[b])
           /\ payment'[p].currency = bill[b].currency /\ payment'[p].status # "refunded",
         \A s \in PaySessions : opening'[s] # Nothing =>
           \/ opening'[s] = opening[s]
           \/ LET b == opening'[s].bill IN
              /\ b \in Bills /\ bill[b] # Nothing /\ opening'[s].minor = Due(bill[b])
              /\ opening'[s].pc = "retire" => opening'[s].stale \in Payments /\ payment[opening'[s].stale] # Nothing
  PROVE  MoneyInv'
<1>1. \A b \in Bills : bill[b] # Nothing =>
        /\ bill'[b] # Nothing /\ Due(bill'[b]) = Due(bill[b]) /\ Agreed(bill'[b]) = Agreed(bill[b])
        /\ bill'[b].currency = bill[b].currency /\ seen'[b] = seen[b]
  BY DEF MoneyStays, Due, Agreed
<1>2. SeenFits'
  BY <1>1 DEF MoneyInv, SeenFits
<1>3. PaymentsFit'
  <2>. SUFFICES ASSUME NEW p \in Payments, payment'[p] # Nothing
                PROVE  LET b == payment'[p].bill IN
                       /\ bill'[b] # Nothing
                       /\ payment'[p].minor = Due(bill'[b]) /\ payment'[p].currency = bill'[b].currency
                       /\ payment'[p].status = "refunded" => payment'[p].returned = payment'[p].minor
    BY DEF PaymentsFit
  <2>1. CASE payment[p] = Nothing
    BY <1>1, <2>1
  <2>2. CASE payment[p] # Nothing
    <3>1. payment[p].bill \in Bills
      BY <2>2, BillOfPayment
    <3>2. /\ bill[payment[p].bill] # Nothing /\ payment[p].minor = Due(bill[payment[p].bill])
          /\ payment[p].currency = bill[payment[p].bill].currency
          /\ payment[p].status = "refunded" => payment[p].returned = payment[p].minor
      BY <2>2 DEF MoneyInv, PaymentsFit
    <3>. QED
      BY <1>1, <2>2, <3>1, <3>2 DEF MoneyStays
  <2>. QED
    BY <2>1, <2>2
<1>4. OpeningsFit'
  <2>. SUFFICES ASSUME NEW s \in PaySessions, opening'[s] # Nothing
                PROVE  LET b == opening'[s].bill IN
                       /\ bill'[b] # Nothing /\ opening'[s].minor = Due(bill'[b])
                       /\ opening'[s].pc = "retire" => payment'[opening'[s].stale] # Nothing
    BY DEF OpeningsFit
  <2>1. \A p \in Payments : payment[p] # Nothing => payment'[p] # Nothing
    BY DEF MoneyStays
  <2>2. CASE opening'[s] = opening[s]
    <3>1. opening[s].bill \in Bills /\ (opening[s].pc = "retire" => opening[s].stale \in Payments)
      BY <2>2, OpeningPlaces DEF MoneyInv, MoneyTables
    <3>2. /\ bill[opening[s].bill] # Nothing /\ opening[s].minor = Due(bill[opening[s].bill])
          /\ opening[s].pc = "retire" => payment[opening[s].stale] # Nothing
      BY <2>2 DEF MoneyInv, OpeningsFit
    <3>. QED
      BY <1>1, <2>1, <2>2, <3>1, <3>2
  <2>3. CASE opening'[s] # opening[s]
    BY <1>1, <2>1, <2>3
  <2>. QED
    BY <2>2, <2>3
<1>. QED
  BY <1>2, <1>3, <1>4 DEF MoneyInv

(* Steps that leave orders, payments and sessions alone.                   *)
LEMMA VisitSteps ==
  ASSUME MoneyInv,
         \/ Money!Refresh \/ Money!Leave \/ Money!Reconfigure \/ UNCHANGED chargeVars
         \/ \E query, preferred \in Money!Currencies \cup {Nothing} : \E country, place \in Places \cup {Nothing} :
              Money!Arrive(query, preferred, country, place)
  PROVE  MoneyInv'
<1>1. MoneyTables
  BY DEF MoneyInv
<1>2. UNCHANGED <<bill, payment, opening, seen>>
  BY DEF Money!Refresh, Money!Leave, Money!Reconfigure, Money!Arrive, chargeVars
<1>3. rate' \in [Foreign -> Rates \cup {Nothing}]
  <2>1. CASE Money!Refresh
    BY <1>1, <2>1 DEF Money!Refresh, MoneyTables
  <2>2. CASE ~Money!Refresh
    BY <1>1, <2>2 DEF Money!Leave, Money!Reconfigure, Money!Arrive, chargeVars, MoneyTables
  <2>. QED
    BY <2>1, <2>2
<1>4. visit' \in VisitRow \cup {Nothing}
  <2>1. CASE Money!Refresh \/ Money!Leave \/ Money!Reconfigure \/ UNCHANGED chargeVars
    BY <1>1, <2>1 DEF Money!Refresh, Money!Leave, Money!Reconfigure, chargeVars, MoneyTables
  <2>2. ASSUME NEW query \in Money!Currencies \cup {Nothing}, NEW preferred \in Money!Currencies \cup {Nothing},
               NEW country \in Places \cup {Nothing}, NEW place \in Places \cup {Nothing},
               Money!Arrive(query, preferred, country, place)
        PROVE  visit' \in VisitRow
    <3>1. \A where : Money!CurrencyForCountry(where) \in Money!Currencies
      BY ChargesAssumption DEF Money!CurrencyForCountry, Money!Currencies
    <3>2. PICK c : c = Money!DisplayCurrency(query, preferred, country, place)
      OBVIOUS
    <3>3. c \in Money!Currencies
      BY <3>1, <3>2 DEF Money!DisplayCurrency
    <3>4. Money!RateOf(c) \in Rates \cup {Scale}
      BY <1>1, <3>3 DEF Money!RateOf, Money!Currencies, MoneyTables
    <3>. QED
      BY <2>2, <3>2, <3>3, <3>4 DEF Money!Arrive, VisitRow
  <2>. QED
    BY <2>1, <2>2
<1>. QED
  BY <1>1, <1>2, <1>3, <1>4 DEF MoneyInv, MoneyTables, SeenFits, PaymentsFit, OpeningsFit

LEMMA PlaceStep ==
  ASSUME MoneyInv, NEW b \in Bills, NEW total \in Totals, Money!PlaceOrder(b, total)
  PROVE  MoneyInv'
<1>1. MoneyTables /\ visit \in VisitRow
  BY DEF MoneyInv, MoneyTables, Money!PlaceOrder
<1>2. PICK row : row = [total |-> total, currency |-> visit.currency, rate |-> visit.rate, payable |-> TRUE]
  OBVIOUS
<1>3. PICK shown : shown = Money!Presented(total, visit.currency, visit.rate)
  OBVIOUS
<1>4. /\ bill[b] = Nothing /\ bill' = [bill EXCEPT ![b] = row] /\ seen' = [seen EXCEPT ![b] = shown]
      /\ UNCHANGED <<rate, visit, payment, opening>>
  BY <1>2, <1>3 DEF Money!PlaceOrder
<1>5. /\ row \in Money!BillRow /\ row.total = total /\ row.currency = visit.currency /\ row.rate = visit.rate
  BY <1>1, <1>2 DEF VisitRow, Money!BillRow
<1>6. shown = Agreed(row) /\ shown \in SeenRow
  BY <1>3, <1>5, BillPlaces DEF Money!Presented, Agreed, Due, SeenRow
<1>7. /\ bill'[b] = row /\ seen'[b] = shown
      /\ \A a \in Bills \ {b} : bill'[a] = bill[a] /\ seen'[a] = seen[a]
  BY <1>1, <1>4 DEF MoneyTables
<1>8. MoneyTables'
  BY <1>1, <1>4, <1>5, <1>6 DEF MoneyTables
<1>9. seen'[b] = Agreed(bill'[b])
  BY <1>6, <1>7
<1>10. MoneyStays
  BY <1>4, <1>7 DEF MoneyStays
<1>. QED
  BY <1>4, <1>7, <1>8, <1>9, <1>10, MoneyFits

LEMMA ChargeIsWhole ==
  ASSUME MoneyInv, NEW b \in Bills, bill[b] # Nothing
  PROVE  bill[b] \in Money!BillRow /\ Money!Charge(b) = Due(bill[b]) /\ Due(bill[b]) \in Nat
<1>1. bill[b] \in Money!BillRow
  BY DEF MoneyInv, MoneyTables
<1>. QED
  BY <1>1, BillPlaces DEF Money!Charge, Money!RateCharged, Due

(* A session computes the amount from the order, and carries it along.     *)
LEMMA PaySessionSteps ==
  ASSUME MoneyInv, NEW s \in PaySessions,
         (\E b \in Bills : Money!BeginSession(s, b)) \/ Money!GiveUp(s)
  PROVE  MoneyInv'
<1>1. MoneyTables /\ UNCHANGED <<rate, visit, bill, payment, seen>>
  BY DEF MoneyInv, Money!BeginSession, Money!GiveUp
<1>2. MoneyStays
  BY <1>1 DEF MoneyStays
<1>3. ASSUME NEW to, opening' = [opening EXCEPT ![s] = to],
             \/ to = Nothing
             \/ /\ to \in OpeningRow /\ bill[to.bill] # Nothing /\ to.minor = Due(bill[to.bill])
                /\ to.pc = "retire" => payment[to.stale] # Nothing
      PROVE  MoneyInv'
  <2>1. MoneyTables' /\ opening'[s] = to /\ \A t \in PaySessions \ {s} : opening'[t] = opening[t]
    BY <1>1, <1>3 DEF MoneyTables
  <2>2. to # Nothing => to.bill \in Bills /\ (to.pc = "retire" => to.stale \in Payments)
    BY <1>3, OpeningPlaces
  <2>. QED
    BY <1>1, <1>2, <1>3, <2>1, <2>2, MoneyFits
<1>4. CASE Money!GiveUp(s)
  BY <1>3, <1>4 DEF Money!GiveUp, Money!SessionGoes
<1>5. ASSUME NEW b \in Bills, Money!BeginSession(s, b)
      PROVE  MoneyInv'
  <2>1. bill[b] # Nothing /\ Money!Charge(b) = Due(bill[b]) /\ Due(bill[b]) \in Nat /\ Money!LaneOf(b) \in Money!Gateways
    BY <1>5, ChargeIsWhole DEF Money!BeginSession, Money!LaneOf, Money!Gateways
  <2>2. CASE opening' = [opening EXCEPT ![s] = Money!Asking(b, Money!LaneOf(b), Money!Charge(b))]
    <3>1. PICK to : to = Money!Asking(b, Money!LaneOf(b), Money!Charge(b))
      OBVIOUS
    <3>2. to \in OpeningRow /\ to.bill = b /\ to.minor = Due(bill[b]) /\ to.pc = "ask"
      BY <2>1, <3>1 DEF Money!Asking, OpeningRow
    <3>. QED
      BY <1>3, <2>1, <2>2, <3>1, <3>2
  <2>3. ASSUME NEW p \in Money!PendingOf(b),
               opening' = [opening EXCEPT ![s] = [pc |-> "retire", bill |-> b, gateway |-> Money!LaneOf(b),
                                                  minor |-> Money!Charge(b), stale |-> p]]
        PROVE  MoneyInv'
    <3>1. PICK to : to = [pc |-> "retire", bill |-> b, gateway |-> Money!LaneOf(b), minor |-> Money!Charge(b), stale |-> p]
      OBVIOUS
    <3>2. p \in Payments /\ payment[p] # Nothing
      BY DEF Money!PendingOf, Money!PaymentsOf
    <3>3. to \in OpeningRow /\ to.bill = b /\ to.minor = Due(bill[b]) /\ to.stale = p
      BY <2>1, <3>1, <3>2 DEF OpeningRow
    <3>. QED
      BY <1>3, <2>1, <2>3, <3>1, <3>2, <3>3
  <2>. QED
    BY <1>5, <2>2, <2>3 DEF Money!BeginSession, Money!SessionGoes
<1>. QED
  BY <1>4, <1>5

(* A payment whose status is written keeps its order and its amount.       *)
LEMMA RetireStep ==
  ASSUME MoneyInv, NEW s \in PaySessions, Money!Retire(s)
  PROVE  MoneyInv'
<1>1. MoneyTables /\ opening[s] \in OpeningRow /\ opening[s] # Nothing /\ opening[s].pc = "retire"
      /\ UNCHANGED <<rate, visit, bill, seen>>
  BY DEF MoneyInv, MoneyTables, Money!Retire
<1>2. PICK q \in Payments, b \in Bills :
        /\ q = opening[s].stale /\ payment[q] # Nothing
        /\ b = opening[s].bill /\ bill[b] # Nothing /\ opening[s].minor = Due(bill[b])
  BY <1>1, OpeningPlaces DEF MoneyInv, OpeningsFit
<1>3. PICK to : to = Money!Asking(opening[s].bill, opening[s].gateway, opening[s].minor)
  OBVIOUS
<1>4. to \in OpeningRow /\ to.bill = b /\ to.minor = Due(bill[b]) /\ to.pc = "ask"
  BY <1>1, <1>2, <1>3, OpeningPlaces DEF Money!Asking, OpeningRow
<1>5. PICK row : row = [payment[q] EXCEPT !.status = "failed"]
  OBVIOUS
<1>6. /\ row \in Money!PaymentRow /\ row.bill = payment[q].bill /\ row.minor = payment[q].minor
      /\ row.currency = payment[q].currency /\ row.status = "failed"
  BY <1>1, <1>2, <1>5, PaymentPlaces DEF MoneyTables
<1>7. row # Nothing
  BY <1>6, ChargesAssumption
<1>8. payment' = [payment EXCEPT ![q] = row] /\ opening' = [opening EXCEPT ![s] = to]
  BY <1>2, <1>3, <1>5 DEF Money!Retire, Money!SessionGoes
<1>9. /\ MoneyTables' /\ payment'[q] = row /\ \A p \in Payments \ {q} : payment'[p] = payment[p]
      /\ opening'[s] = to /\ \A t \in PaySessions \ {s} : opening'[t] = opening[t]
  BY <1>1, <1>4, <1>6, <1>8 DEF MoneyTables
<1>10. MoneyStays
  BY <1>1, <1>6, <1>7, <1>9 DEF MoneyStays
<1>. QED
  BY <1>1, <1>2, <1>4, <1>9, <1>10, MoneyFits

LEMMA InsertStep ==
  ASSUME MoneyInv, NEW s \in PaySessions, NEW p \in Payments, Money!InsertPayment(s, p)
  PROVE  MoneyInv'
<1>1. MoneyTables /\ opening[s] \in OpeningRow /\ opening[s] # Nothing /\ payment[p] = Nothing
      /\ UNCHANGED <<rate, visit, bill, seen>>
  BY DEF MoneyInv, MoneyTables, Money!InsertPayment
<1>2. PICK b \in Bills, amount \in Nat, gateway \in Money!Gateways :
        /\ b = opening[s].bill /\ bill[b] # Nothing /\ amount = opening[s].minor /\ amount = Due(bill[b])
        /\ gateway = opening[s].gateway
  BY <1>1, OpeningPlaces DEF MoneyInv, OpeningsFit
<1>3. PICK row : row = [bill |-> b, status |-> "pending", gateway |-> gateway, minor |-> amount,
                        currency |-> bill[b].currency, returned |-> 0]
  OBVIOUS
<1>4. /\ row \in Money!PaymentRow /\ row.bill = b /\ row.minor = amount /\ row.currency = bill[b].currency
      /\ row.status = "pending"
  BY <1>2, <1>3, ChargeIsWhole, BillPlaces DEF Money!PaymentRow
<1>5. payment' = [payment EXCEPT ![p] = row] /\ opening' = [opening EXCEPT ![s] = Nothing]
  BY <1>2, <1>3 DEF Money!InsertPayment, Money!SessionGoes
<1>6. /\ MoneyTables' /\ payment'[p] = row /\ \A q \in Payments \ {p} : payment'[q] = payment[q]
      /\ opening'[s] = Nothing /\ \A t \in PaySessions \ {s} : opening'[t] = opening[t]
  BY <1>1, <1>4, <1>5 DEF MoneyTables
<1>7. MoneyStays
  BY <1>1, <1>6 DEF MoneyStays
<1>. QED
  BY <1>1, <1>2, <1>4, <1>6, <1>7, MoneyFits

LEMMA CloseStep ==
  ASSUME MoneyInv, NEW b \in Bills, Money!Close(b)
  PROVE  MoneyInv'
<1>1. MoneyTables /\ bill[b] \in Money!BillRow /\ UNCHANGED <<rate, visit, opening, seen>>
  BY DEF MoneyInv, MoneyTables, Money!Close
<1>2. PICK row : row = [bill[b] EXCEPT !.payable = FALSE]
  OBVIOUS
<1>3. /\ row \in Money!BillRow /\ row.total = bill[b].total /\ row.rate = bill[b].rate
      /\ row.currency = bill[b].currency /\ bill' = [bill EXCEPT ![b] = row]
  BY <1>1, <1>2, BillPlaces DEF Money!Close
<1>4. /\ row # Nothing /\ bill'[b] = row /\ \A a \in Bills \ {b} : bill'[a] = bill[a]
      /\ bill' \in [Bills -> Money!BillRow \cup {Nothing}]
  BY <1>1, <1>3, ChargesAssumption DEF MoneyTables
<1>5. payment' = [p \in Payments |-> IF p \in Money!PendingOf(b) THEN [payment[p] EXCEPT !.status = "failed"]
                                    ELSE payment[p]]
  BY DEF Money!Close
<1>6. ASSUME NEW p \in Payments
      PROVE  \/ payment'[p] = payment[p]
             \/ /\ payment[p] # Nothing /\ payment'[p] \in Money!PaymentRow /\ payment'[p] # Nothing
                /\ payment'[p].bill = payment[p].bill /\ payment'[p].minor = payment[p].minor
                /\ payment'[p].currency = payment[p].currency /\ payment'[p].status = "failed"
  <2>1. CASE p \in Money!PendingOf(b)
    <3>1. PICK old \in Money!PaymentRow : old = payment[p] /\ payment[p] # Nothing
      BY <1>1, <2>1 DEF Money!PendingOf, Money!PaymentsOf, MoneyTables
    <3>2. payment'[p] = [old EXCEPT !.status = "failed"]
      BY <1>5, <2>1, <3>1
    <3>3. payment'[p] # Nothing
      BY <3>1, <3>2, PaymentPlaces, ChargesAssumption
    <3>4. /\ [old EXCEPT !.status = "failed"] \in Money!PaymentRow
          /\ [old EXCEPT !.status = "failed"].bill = old.bill /\ [old EXCEPT !.status = "failed"].minor = old.minor
          /\ [old EXCEPT !.status = "failed"].currency = old.currency
          /\ [old EXCEPT !.status = "failed"].status = "failed"
      BY PaymentPlaces
    <3>. QED
      BY <3>1, <3>2, <3>3, <3>4
  <2>2. CASE p \notin Money!PendingOf(b)
    BY <1>5, <2>2
  <2>. QED
    BY <2>1, <2>2
<1>7. payment' \in [Payments -> Money!PaymentRow \cup {Nothing}]
  <2>1. \A p \in Payments : payment'[p] \in Money!PaymentRow \cup {Nothing}
    BY <1>1, <1>6 DEF MoneyTables
  <2>. QED
    BY <1>5, <2>1
<1>8. MoneyTables'
  BY <1>1, <1>4, <1>7 DEF MoneyTables
<1>9. MoneyStays
  BY <1>1, <1>3, <1>4, <1>6 DEF MoneyStays
<1>10. \A p \in Payments : payment[p] = Nothing => payment'[p] = Nothing
  BY <1>6
<1>11. \A a \in Bills : bill[a] = Nothing => bill'[a] = Nothing
  BY <1>1, <1>4, ChargesAssumption
<1>12. opening' = opening
  BY <1>1
<1>. QED
  BY <1>8, <1>9, <1>10, <1>11, <1>12, MoneyFits

LEMMA PayStep ==
  ASSUME MoneyInv, NEW p \in Payments, Money!Pay(p)
  PROVE  MoneyInv'
<1>1. /\ MoneyTables /\ payment[p] # Nothing /\ payment[p] \in Money!PaymentRow
      /\ UNCHANGED <<rate, visit, opening, seen>>
  BY DEF MoneyInv, MoneyTables, Money!Pay
<1>2. PICK b \in Bills : b = payment[p].bill /\ bill[b] # Nothing /\ bill[b] \in Money!BillRow
  BY <1>1, PaymentPlaces DEF MoneyInv, MoneyTables, PaymentsFit
<1>3. PICK row, paid : row = [bill[b] EXCEPT !.payable = FALSE] /\ paid = [payment[p] EXCEPT !.status = "paid"]
  OBVIOUS
<1>4. /\ row \in Money!BillRow /\ row.total = bill[b].total /\ row.rate = bill[b].rate
      /\ row.currency = bill[b].currency /\ bill' = [bill EXCEPT ![b] = row]
  BY <1>2, <1>3, BillPlaces DEF Money!Pay
<1>5. /\ paid \in Money!PaymentRow /\ paid.bill = payment[p].bill /\ paid.minor = payment[p].minor
      /\ paid.currency = payment[p].currency /\ paid.status = "paid" /\ payment' = [payment EXCEPT ![p] = paid]
  BY <1>1, <1>3, PaymentPlaces DEF Money!Pay
<1>6. /\ row # Nothing /\ bill'[b] = row /\ \A a \in Bills \ {b} : bill'[a] = bill[a]
      /\ paid # Nothing /\ payment'[p] = paid /\ \A q \in Payments \ {p} : payment'[q] = payment[q]
  BY <1>1, <1>4, <1>5, ChargesAssumption DEF MoneyTables
<1>7. MoneyTables'
  BY <1>1, <1>4, <1>5 DEF MoneyTables
<1>8. MoneyStays
  BY <1>1, <1>4, <1>5, <1>6 DEF MoneyStays
<1>. QED
  BY <1>1, <1>2, <1>6, <1>7, <1>8, MoneyFits

LEMMA GiveBackStep ==
  ASSUME MoneyInv, NEW p \in Payments, Money!GiveBack(p)
  PROVE  MoneyInv'
<1>1. /\ MoneyTables /\ payment[p] # Nothing /\ payment[p] \in Money!PaymentRow
      /\ UNCHANGED <<rate, visit, bill, opening, seen>>
  BY DEF MoneyInv, MoneyTables, Money!GiveBack
<1>2. PICK old \in Money!PaymentRow : old = payment[p]
  BY <1>1
<1>3. PICK of \in Money!BillRow : of = bill[old.bill]
  <2>1. old.bill \in Bills /\ bill[old.bill] # Nothing
    BY <1>1, <1>2, PaymentPlaces DEF MoneyInv, PaymentsFit
  <2>. QED
    BY <1>1, <2>1 DEF MoneyTables
<1>4. Money!MinorOf(p, of.total) = old.minor
  <2>1. of.total \in Nat /\ of.total > 0 /\ old.minor \in Nat
    BY BillPlaces, PaymentPlaces
  <2>2. Money!MinorOf(p, of.total) = (2 * of.total * old.minor + of.total) \div (2 * of.total)
    BY <1>2, <1>3 DEF Money!MinorOf
  <2>. QED
    BY <2>1, <2>2, WholeRefund
<1>5. PICK half, row : half = [old EXCEPT !.status = "refunded"] /\ row = [half EXCEPT !.returned = old.minor]
  OBVIOUS
<1>6. half \in Money!PaymentRow /\ half.bill = old.bill /\ half.minor = old.minor /\ half.currency = old.currency
      /\ half.status = "refunded" /\ old.minor \in Nat
  BY <1>5, PaymentPlaces
<1>7. /\ row \in Money!PaymentRow /\ row.bill = old.bill /\ row.minor = old.minor /\ row.currency = old.currency
      /\ row.status = "refunded" /\ row.returned = old.minor
  BY <1>5, <1>6 DEF Money!PaymentRow
<1>8. payment' = [payment EXCEPT ![p] = row]
  <2>1. payment' = [[payment EXCEPT ![p].status = "refunded"] EXCEPT ![p].returned = old.minor]
    BY <1>2, <1>3, <1>4 DEF Money!GiveBack
  <2>2. [[payment EXCEPT ![p].status = "refunded"] EXCEPT ![p].returned = old.minor]
          = [payment EXCEPT ![p] = [[payment[p] EXCEPT !.status = "refunded"] EXCEPT !.returned = old.minor]]
    BY <1>1 DEF MoneyTables
  <2>. QED
    BY <1>2, <1>5, <2>1, <2>2
<1>9. row # Nothing /\ payment'[p] = row /\ \A q \in Payments \ {p} : payment'[q] = payment[q]
  BY <1>1, <1>7, <1>8, ChargesAssumption DEF MoneyTables
<1>10. MoneyTables'
  BY <1>1, <1>7, <1>8 DEF MoneyTables
<1>11. MoneyStays
  BY <1>1, <1>2, <1>7, <1>9 DEF MoneyStays
<1>. QED
  BY <1>1, <1>9, <1>10, <1>11, MoneyFits

-----------------------------------------------------------------------------
LEMMA MoneyStarts == Money!Init => MoneyInv
BY DEF Money!Init, MoneyInv, MoneyTables, SeenFits, PaymentsFit, OpeningsFit

LEMMA MoneyGoesOn ==
  ASSUME MoneyInv, [Money!Next]_chargeVars
  PROVE  MoneyInv'
BY VisitSteps, PlaceStep, PaySessionSteps, RetireStep, InsertStep, CloseStep, PayStep, GiveBackStep DEF Money!Next

LEMMA MoneyInvGives == MoneyInv => Money!TypeOK /\ Money!ShownIsCharged
<1>. SUFFICES ASSUME MoneyInv PROVE Money!TypeOK /\ Money!ShownIsCharged
  OBVIOUS
<1>1. MoneyTables /\ SeenFits /\ PaymentsFit
  BY DEF MoneyInv
<1>2. Money!TypeOK
  BY <1>1 DEF MoneyTables, Money!TypeOK
<1>3. ASSUME NEW p \in Payments, payment[p] # Nothing
      PROVE  LET told == seen[payment[p].bill] IN
             /\ payment[p].currency = told.currency /\ payment[p].minor = told.amount
             /\ payment[p].status = "refunded" => payment[p].returned = told.amount
  <2>1. PICK b \in Bills : b = payment[p].bill /\ bill[b] # Nothing
    BY <1>3, BillOfPayment
  <2>2. seen[b].currency = bill[b].currency /\ seen[b].amount = Due(bill[b])
    <3>1. seen[b] = [currency |-> bill[b].currency, amount |-> Due(bill[b])]
      BY <1>1, <2>1 DEF SeenFits, Agreed
    <3>. QED
      BY <3>1
  <2>. QED
    BY <1>1, <1>3, <2>1, <2>2 DEF PaymentsFit
<1>4. \A b \in Bills : bill[b] # Nothing => Money!Shown(b) = seen[b]
  BY <1>1 DEF SeenFits, Agreed, Due, Money!Shown, Money!Presented
<1>. QED
  BY <1>2, <1>3, <1>4 DEF Money!ShownIsCharged

LEMMA SpecCharges == Spec => Money!Init /\ [][Money!Next]_chargeVars
<1>1. Init => Money!Init
  BY DEF Init
<1>2. [Next]_vars => [Money!Next]_chargeVars
  BY DEF Next, vars, chargeVars
<1>. QED
  BY <1>1, <1>2, PTL DEF Spec

LEMMA MoneyAlways == Spec => []MoneyInv
<1>1. MoneyInv /\ [Money!Next]_chargeVars => MoneyInv'
  BY MoneyGoesOn
<1>. QED
  BY <1>1, SpecCharges, MoneyStarts, PTL

(* However the rates move and the sessions of an order race, its page and  *)
(* every payment of it say what the customer was shown when placing it,    *)
(* and a refund returns exactly that (payments/session.ts,                 *)
(* payments/refunds.ts, orders/service.ts).                                *)
THEOREM WhatIsShownIsCharged == Spec => []ShownIsCharged
<1>1. MoneyInv => ShownIsCharged
  BY MoneyInvGives DEF ShownIsCharged
<1>. QED
  BY <1>1, MoneyAlways, PTL

-----------------------------------------------------------------------------
(* Every table of the six components keeps its shape, for any number of    *)
(* rows and requests.                                                      *)
THEOREM TypesStay == Spec => []TypeOK
<1>1. DepositInv /\ SignInInv /\ DeliveringInv /\ BookInv /\ ShopInv /\ MoneyInv => TypeOK
  BY DepositInvGives, SignInInvGives, DeliveringInvGives, BookInvGives, ShopInvGives, MoneyInvGives DEF TypeOK
<1>. QED
  BY <1>1, DepositsAlways, SignInAlways, DeliveringAlways, BookAlways, ShopAlways, MoneyAlways, PTL
=============================================================================
