--------------------------- MODULE DepositClaims ---------------------------
(***************************************************************************)
(* What the README says of deposits given back, where the code does it     *)
(* only when requests for an item do not overlap: refuted by a run.        *)
(***************************************************************************)
EXTENDS Deposits

GivenBack(i) ==
  SumFunctionOnSet([r \in Made |-> refund[r].amount], {r \in RefundsOf(i) : refund[r].reference})

(* No more than the deposit is given back for an item (README: "Deposit    *)
(* refund by return condition | excellent/good: 100%, fair: 50%").         *)
(* refundDepositForOrderItem looks for a refund and makes one without a    *)
(* lock or a unique index: two clicks give it back twice.                  *)
GivenByCondition == \A i \in Items : GivenBack(i) <= ItemDeposit[i]

MCItemDeposit == [i \in Items |-> 3]
=============================================================================
