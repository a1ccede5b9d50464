----------------------------- MODULE MCCheckout -----------------------------
(* Instances of Checkout for TLC. *)
EXTENDS CheckoutRefinement, TLC

CONSTANTS q1, q2

MCQuote == {q1, q2}
MCOneQuote == {q2}
\* The second quote is the first with the discount code: same contents, another total.
MCUnits == [q \in Quote |-> 1]
MCTotal == [q \in Quote |-> IF q = q1 THEN 2 ELSE 1]
MCDiscounted == [q \in Quote |-> q = q2]

Symmetry == Permutations(Checkout) \cup Permutations(Payment) \cup Permutations(Cart)

(* The run of one and of two checkouts explores only some steps.           *)

\* All that one checkout can go through.
OneCheckout == Cardinality(Started') <= 1

\* What two checkouts that want the same unit and the same use of a discount do to each
\* other, both begun before either is paid for, without the shopper's calls, links that
\* fail and prices that change.
Contention ==
  /\ Cardinality(Started) = 2 \/ \A p \in Payment : payment[p].status = "NONE"
  /\ ShopperCalls' = {}
  /\ \A p \in Payment : link'[p] \notin {"mispaid", "failed"}
  /\ \A c \in Started : checkout'[c].quote \in {checkout[c].quote, None}

InScope == OneCheckout \/ Contention

=============================================================================
