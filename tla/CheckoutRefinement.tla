------------------------- MODULE CheckoutRefinement -------------------------
(* Checkout keeps CheckoutPromise: the rows behind each part of the promise. *)
EXTENDS Checkout

\* A payment is not mistaken for one of the other turns.
ASSUME TurnAssumption == {"shopping", "placed"} \cap Payment = {}

TurnOf(c) ==
  IF checkout[c].status = "COMPLETED" THEN "placed"
  ELSE IF checkout[c].status = "PAYMENT_PENDING"
       THEN CHOOSE p \in Payment : p \in PendingPayments(c)
       ELSE "shopping"

DealOf(c) ==
  IF checkout[c].status \in {"PAYMENT_PENDING", "COMPLETED"}
  THEN checkout[c].quote
  ELSE None

Promise == INSTANCE CheckoutPromise WITH
  turn <- [c \in Checkout |-> TurnOf(c)],
  deal <- [c \in Checkout |-> DealOf(c)],
  taken <- {p \in Payment : payment[p].status = "CAPTURED"},
  shelf <- available

\* Whatever links, webhooks, sweeps, crashes and stale reads do between the
\* transactions of packages/commerce/src/checkout, each transaction is one step of
\* the promise, or none: no deal changes while it is waited for or once it is placed,
\* no checkout is placed twice, and stock leaves and comes back exactly with the deal.
PromiseKept == Promise!Spec

=============================================================================
