--------------------------- MODULE CheckoutProofs ---------------------------
(***************************************************************************)
(* Proofs about Checkout, for every number of checkouts, carts, payments   *)
(* and quotes.  The inductive invariant IInv adds to the properties what   *)
(* the rows refer to (Rows) and what begins and calls under way remember   *)
(* of a payment (Memories).  From it follow that Checkout implements       *)
(* CheckoutPromise; with one more invariant (LInv), that the ledgers of    *)
(* stock and of discount uses balance; and with another (LinkInv), that    *)
(* money the provider took is recorded or still to be delivered.           *)
(***************************************************************************)
EXTENDS CheckoutRefinement, Sums

CoreType ==
  /\ cart \in [Cart -> {"ACTIVE", "CONVERTED"}]
  /\ checkout \in [Checkout -> CheckoutRow]
  /\ checking \subseteq Checkout
  /\ payment \in [Payment -> PaymentRow]
  /\ available \in Int
  /\ reserved \in Int
  /\ held \in [Checkout -> Nat]
  /\ sold \in [Checkout -> Nat]
  /\ uses \in Nat
  /\ redemption \in [Checkout -> {"NONE", "RESERVED", "RELEASED", "REDEEMED"}]
  /\ orders \subseteq OrderRow

OuterType ==
  /\ attempt \in [Payment -> {"none", "creating", "created", "refused", "over"}]
  /\ link \in [Payment -> {"none", "pending", "captured", "mispaid", "failed", "closed"}]
  /\ settled \subseteq Payment
  /\ calls \subseteq Call

\* What a row refers to exists; a begin holds the row of an open checkout; only a
\* completed checkout has sold anything.
Rows ==
  /\ \A c \in Checkout :
       /\ checkout[c].status # "NONE" => checkout[c].cart \in Cart
       /\ checkout[c].status \in {"OPEN", "PAYMENT_PENDING", "COMPLETED"} =>
            checkout[c].quote \in Quote
       /\ c \in checking => checkout[c].status = "OPEN"
       /\ checkout[c].status # "COMPLETED" => sold[c] = 0
  /\ \A p \in Payment :
       IF payment[p].status = "NONE"
       THEN ~payment[p].ref /\ payment[p].checkout = None
       ELSE /\ payment[p].checkout \in Checkout
            /\ checkout[payment[p].checkout].status # "NONE"

\* A begin, and a call that asked, concern a payment that exists.
Memories ==
  /\ \A p \in Payment : attempt[p] # "none" => payment[p].status # "NONE"
  /\ \A call \in calls :
       call.phase # "unasked" \/ call.kind # "cancel" =>
         /\ call.payment \in Payment
         /\ payment[call.payment].status # "NONE"

Core == CoreType /\ Rows /\ HoldsWhilePaying /\ OneOrderPerCheckout
Outer == OuterType /\ Memories
IInv == Core /\ Outer

\* A payment, once made, stays made.
PaymentsStay ==
  \A p \in Payment : payment[p].status # "NONE" => payment'[p].status # "NONE"

coreVars == <<cart, checkout, checking, payment, stockVars, discountVars, orders>>

-----------------------------------------------------------------------------
(* Ending an attempt keeps the core.                                       *)

\* A step that touches none of the core's rows keeps what the core says of them.
LEMMA CoreUnchanged ==
  ASSUME Core, UNCHANGED coreVars
  PROVE  Core' /\ PaymentsStay
<1>1. UNCHANGED <<cart, checkout, checking, payment, available, reserved, held, sold,
                  uses, redemption, orders>>
  BY DEF coreVars, stockVars, discountVars
<1>2. CoreType' /\ Rows' /\ PaymentsStay
  BY <1>1 DEF Core, CoreType, Rows, PaymentsStay
<1>3. \A c \in Checkout : PendingPayments(c)' = PendingPayments(c)
  BY <1>1 DEF PendingPayments
<1>4. HoldsWhilePaying'
  BY <1>1, <1>3 DEF Core, HoldsWhilePaying
<1>5. OneOrderPerCheckout'
  BY <1>1 DEF Core, OneOrderPerCheckout
<1> QED
  BY <1>2, <1>4, <1>5 DEF Core

\* endAttempt closes the payment, reopens its checkout and gives back what the checkout
\* held: afterwards nothing is held for a checkout that is not paying.
LEMMA EndAttemptKeepsCore ==
  ASSUME Core, NEW p \in Payment, payment[p].status # "NONE",
         NEW to \in {"FAILED", "CANCELLED"},
         EndAttempt(p, to), UNCHANGED <<cart, checking, orders>>
  PROVE  Core' /\ PaymentsStay
<1> DEFINE c == payment[p].checkout
<1>1. c \in Checkout
  BY DEF Core, Rows
<1>2. CASE payment[p].status # "PENDING"
  <2>1. UNCHANGED coreVars
    BY <1>2 DEF EndAttempt, coreVars
  <2> QED
    BY <2>1, CoreUnchanged
<1>3. CASE payment[p].status = "PENDING"
  <2>1. checkout[c].status = "PAYMENT_PENDING"
    BY <1>1, <1>3 DEF Core, HoldsWhilePaying, PendingPayments
  <2>2. PendingPayments(c) = {p}
    BY <1>1, <1>3, <2>1 DEF Core, HoldsWhilePaying, PendingPayments
  <2>3. /\ payment' = [payment EXCEPT ![p].status = to]
        /\ checkout' = [checkout EXCEPT ![c].status = "OPEN"]
        /\ ReleaseStock(c)
        /\ ReleaseDiscountUse(c)
    BY <1>3, <2>1 DEF EndAttempt
  <2>4. \A r \in Payment :
          /\ payment'[r].status = IF r = p THEN to ELSE payment[r].status
          /\ payment'[r].checkout = payment[r].checkout
          /\ payment'[r].amount = payment[r].amount
          /\ payment'[r].ref = payment[r].ref
    BY <2>3 DEF Core, CoreType, PaymentRow
  <2>5. \A d \in Checkout :
          /\ checkout'[d].status = IF d = c THEN "OPEN" ELSE checkout[d].status
          /\ checkout'[d].quote = checkout[d].quote
          /\ checkout'[d].cart = checkout[d].cart
    BY <1>1, <2>3 DEF Core, CoreType, CheckoutRow
  <2>6. CoreType'
    <3>1. checkout' \in [Checkout -> CheckoutRow]
      <4>1. checkout \in [Checkout -> CheckoutRow] /\ checkout[c] \in CheckoutRow
        BY <1>1 DEF Core, CoreType
      <4>2. PICK row : row = [checkout[c] EXCEPT !.status = "OPEN"]
        OBVIOUS
      <4>3. row \in CheckoutRow
        BY <4>1, <4>2 DEF CheckoutRow
      <4>4. checkout' = [checkout EXCEPT ![c] = row]
        BY <2>3, <4>2
      <4> QED
        BY <4>1, <4>3, <4>4
    <3>2. payment' \in [Payment -> PaymentRow]
      <4>1. payment \in [Payment -> PaymentRow] /\ payment[p] \in PaymentRow
        BY DEF Core, CoreType
      <4>2. PICK row : row = [payment[p] EXCEPT !.status = to]
        OBVIOUS
      <4>3. row \in PaymentRow
        BY <4>1, <4>2 DEF PaymentRow
      <4>4. payment' = [payment EXCEPT ![p] = row]
        BY <2>3, <4>2
      <4> QED
        BY <4>1, <4>3, <4>4
    <3>3. available' \in Int /\ reserved' \in Int /\ held' \in [Checkout -> Nat]
          /\ sold' \in [Checkout -> Nat]
      BY <1>1, <2>3 DEF Core, CoreType, ReleaseStock
    <3>4. uses' \in Nat
          /\ redemption' \in [Checkout -> {"NONE", "RESERVED", "RELEASED", "REDEEMED"}]
      BY <1>1, <2>3 DEF Core, CoreType, ReleaseDiscountUse, discountVars
    <3> QED
      BY <3>1, <3>2, <3>3, <3>4 DEF Core, CoreType
  <2>7. Rows'
    <3>1. c \notin checking
      BY <1>1, <2>1 DEF Core, Rows
    <3>2. sold' = sold
      BY <2>3 DEF ReleaseStock
    <3> QED
      BY <1>1, <1>3, <2>1, <2>4, <2>5, <3>1, <3>2 DEF Core, Rows
  <2>8. \A d \in Checkout : PendingPayments(d)' = PendingPayments(d) \ {p}
    BY <2>4 DEF PendingPayments
  <2>9. HoldsWhilePaying'
    <3> SUFFICES ASSUME NEW d \in Checkout
                 PROVE  IF checkout'[d].status = "PAYMENT_PENDING"
                        THEN /\ \E r \in Payment :
                                  /\ PendingPayments(d)' = {r}
                                  /\ payment'[r].amount = Total[checkout'[d].quote]
                             /\ held'[d] = Units[checkout'[d].quote]
                             /\ redemption'[d] = "RESERVED" <=>
                                  Discounted[checkout'[d].quote]
                        ELSE /\ PendingPayments(d)' = {}
                             /\ held'[d] = 0
                             /\ redemption'[d] # "RESERVED"
      BY DEF HoldsWhilePaying
    <3>1. CASE d = c
      <4>1. PendingPayments(d)' = {} /\ checkout'[d].status = "OPEN"
        BY <1>1, <2>2, <2>5, <2>8, <3>1
      <4>2. held'[d] = 0
        BY <1>1, <2>3, <3>1 DEF Core, CoreType, ReleaseStock
      <4>3. redemption'[d] # "RESERVED"
        BY <1>1, <2>3, <3>1 DEF Core, CoreType, ReleaseDiscountUse, discountVars
      <4> QED
        BY <4>1, <4>2, <4>3
    <3>2. CASE d # c
      <4>1. PendingPayments(d)' = PendingPayments(d)
        BY <2>8, <3>2 DEF PendingPayments
      <4>2. held'[d] = held[d] /\ redemption'[d] = redemption[d]
        BY <2>3, <3>2 DEF Core, CoreType, ReleaseStock, ReleaseDiscountUse, discountVars
      <4> QED
        BY <2>4, <2>5, <3>2, <4>1, <4>2 DEF Core, HoldsWhilePaying
    <3> QED
      BY <3>1, <3>2
  <2>10. OneOrderPerCheckout'
    <3>1. orders' = orders /\ sold' = sold
      BY <2>3 DEF ReleaseStock
    <3>2. \A d \in Checkout : checkout'[d].status = "COMPLETED" <=> checkout[d].status = "COMPLETED"
      BY <2>1, <2>5
    <3>3. \A r \in Payment : payment[r].status = "CAPTURED" => payment'[r].status = "CAPTURED"
      BY <1>3, <2>4
    <3>4. \A o \in orders : o.payment \in Payment /\ o.checkout \in Checkout
      BY DEF Core, CoreType, OrderRow
    <3> QED
      BY <2>4, <3>1, <3>2, <3>3, <3>4 DEF Core, OneOrderPerCheckout
  <2> QED
    BY <2>4, <2>6, <2>7, <2>9, <2>10 DEF Core, PaymentsStay
<1> QED
  BY <1>2, <1>3

-----------------------------------------------------------------------------
(* Recording money keeps the core.                                         *)

\* Payment p keeps what the core says of it: its status, checkout and amount.
MarkedOnly(p) ==
  /\ payment' \in [Payment -> PaymentRow]
  /\ \A r \in Payment :
       /\ payment'[r].status = payment[r].status
       /\ payment'[r].checkout = payment[r].checkout
       /\ payment'[r].amount = payment[r].amount
       /\ r # p => payment'[r].ref = payment[r].ref

\* A capture that only marks its payment leaves every order and every held unit alone.
LEMMA MarkedOnlyKeepsCore ==
  ASSUME Core, NEW p \in Payment, payment[p].status # "NONE", MarkedOnly(p),
         UNCHANGED <<cart, checkout, checking, stockVars, discountVars, orders>>
  PROVE  Core' /\ PaymentsStay
<1> USE DEF MarkedOnly
<1>1. CoreType'
  BY DEF Core, CoreType, stockVars, discountVars
<1>2. Rows'
  BY DEF Core, Rows, stockVars
<1>3. HoldsWhilePaying'
  <2>1. \A c \in Checkout : PendingPayments(c)' = PendingPayments(c)
    BY DEF PendingPayments
  <2> QED
    BY <2>1 DEF Core, HoldsWhilePaying, stockVars, discountVars
<1>4. OneOrderPerCheckout'
  BY DEF Core, CoreType, OrderRow, OneOrderPerCheckout, stockVars
<1> QED
  BY <1>1, <1>2, <1>3, <1>4 DEF Core, PaymentsStay

\* A payment becomes CAPTURED and nothing else changes.
LEMMA MarkCapturedKeepsCore ==
  ASSUME Core, NEW p \in Payment, payment[p].status \notin {"NONE", "PENDING"},
         \/ payment' = [payment EXCEPT ![p].status = "CAPTURED"]
         \/ payment' = [payment EXCEPT ![p].status = "CAPTURED", ![p].order = TRUE],
         UNCHANGED <<cart, checkout, checking, stockVars, discountVars, orders>>
  PROVE  Core' /\ PaymentsStay
<1>1. \A r \in Payment :
        /\ payment'[r].status = IF r = p THEN "CAPTURED" ELSE payment[r].status
        /\ payment'[r].checkout = payment[r].checkout
        /\ payment'[r].amount = payment[r].amount
        /\ payment'[r].ref = payment[r].ref
  <2>1. payment \in [Payment -> PaymentRow] /\ payment[p] \in PaymentRow
    BY DEF Core, CoreType
  <2>2. PICK row : /\ payment' = [payment EXCEPT ![p] = row]
                   /\ \/ row = [payment[p] EXCEPT !.status = "CAPTURED"]
                      \/ row = [payment[p] EXCEPT !.status = "CAPTURED", !.order = TRUE]
    OBVIOUS
  <2>3. /\ row.status = "CAPTURED" /\ row.checkout = payment[p].checkout
        /\ row.amount = payment[p].amount /\ row.ref = payment[p].ref
    BY <2>1, <2>2 DEF PaymentRow
  <2> QED
    BY <2>1, <2>2, <2>3
<1>2. payment' \in [Payment -> PaymentRow]
  <2>1. payment \in [Payment -> PaymentRow] /\ payment[p] \in PaymentRow
    BY DEF Core, CoreType
  <2>2. /\ [payment[p] EXCEPT !.status = "CAPTURED"] \in PaymentRow
        /\ [payment[p] EXCEPT !.status = "CAPTURED", !.order = TRUE] \in PaymentRow
    BY <2>1 DEF PaymentRow
  <2> QED
    BY <2>1, <2>2
<1>3. CoreType'
  <2>1. CoreType /\ UNCHANGED <<cart, checkout, checking, orders, available, reserved, held, sold,
                               uses, redemption>>
    BY DEF Core, stockVars, discountVars
  <2> QED
    BY <1>2, <2>1 DEF CoreType
<1>4. Rows'
  <2>1. Rows /\ UNCHANGED <<checkout, checking, sold>>
    BY DEF Core, stockVars
  <2> QED
    BY <1>1, <2>1 DEF Rows
<1>5. \A c \in Checkout : PendingPayments(c)' = PendingPayments(c)
  BY <1>1 DEF PendingPayments
<1>6. HoldsWhilePaying'
  BY <1>1, <1>5 DEF Core, HoldsWhilePaying, stockVars, discountVars
<1>7. OneOrderPerCheckout'
  <2>1. UNCHANGED <<orders, sold, checkout>>
    BY DEF stockVars
  <2>2. \A o \in orders : o.payment \in Payment /\ o.checkout \in Checkout
    BY DEF Core, CoreType, OrderRow
  <2> QED
    BY <1>1, <2>1, <2>2 DEF Core, OneOrderPerCheckout
<1> QED
  BY <1>1, <1>3, <1>4, <1>6, <1>7 DEF Core, PaymentsStay

\* Placing the order completes the checkout, turns its holds into the order's, and adds
\* the one order of that checkout.
LEMMA PlaceOrderKeepsCore ==
  ASSUME Core, NEW p \in Payment,
         payment[p].status \notin {"NONE", "CAPTURED"},
         payment[p].checkout \notin checking,
         CompleteCheckout(p), UNCHANGED checking
  PROVE  Core' /\ PaymentsStay
<1> DEFINE c == payment[p].checkout
           q == checkout[c].quote
<1>1. c \in Checkout /\ checkout[c].status # "NONE" /\ checkout[c].cart \in Cart
  BY DEF Core, Rows
<1>2. /\ checkout[c].status # "COMPLETED"
      /\ QuoteMatches(p)
      /\ PlaceOrder(p, c, q)
  BY DEF CompleteCheckout
<1>p. payment' = [r \in Payment |->
        IF r = p THEN [payment[r] EXCEPT !.status = "CAPTURED", !.order = TRUE]
        ELSE IF r \in PendingPayments(c)
             THEN [payment[r] EXCEPT !.status = "CANCELLED"]
             ELSE payment[r]]
  BY <1>2 DEF PlaceOrder
<1>c. /\ checkout' = [checkout EXCEPT ![c].status = "COMPLETED"]
      /\ cart' = [cart EXCEPT ![checkout[c].cart] = "CONVERTED"]
  BY <1>2 DEF PlaceOrder
<1>late. Late(c) \in BOOLEAN
  BY DEF Late
<1>3. q \in Quote /\ Total[q] = payment[p].amount
  BY <1>1, <1>2 DEF Core, CoreType, CheckoutRow, QuoteMatches
<1>4. Units[q] \in Nat /\ Discounted[q] \in BOOLEAN
  BY <1>3, CatalogueAssumption
<1>5. \A r \in Payment :
        /\ payment'[r].status =
             IF r = p THEN "CAPTURED"
             ELSE IF r \in PendingPayments(c) THEN "CANCELLED" ELSE payment[r].status
        /\ payment'[r].checkout = payment[r].checkout
        /\ payment'[r].amount = payment[r].amount
        /\ payment'[r].ref = payment[r].ref
  <2> TAKE r \in Payment
  <2>1. payment[r] \in PaymentRow
    BY DEF Core, CoreType
  <2>2. payment'[r] = IF r = p THEN [payment[r] EXCEPT !.status = "CAPTURED", !.order = TRUE]
                      ELSE IF r \in PendingPayments(c)
                           THEN [payment[r] EXCEPT !.status = "CANCELLED"]
                           ELSE payment[r]
    BY <1>p
  <2> QED
    BY <2>1, <2>2 DEF PaymentRow
<1>6. \A d \in Checkout :
        /\ checkout'[d].status = IF d = c THEN "COMPLETED" ELSE checkout[d].status
        /\ checkout'[d].quote = checkout[d].quote
        /\ checkout'[d].cart = checkout[d].cart
  BY <1>1, <1>c DEF Core, CoreType, CheckoutRow
<1>7. held[c] = IF Late(c) THEN 0 ELSE Units[q]
  BY <1>1 DEF Late, Core, HoldsWhilePaying
<1>8. /\ held' = [held EXCEPT ![c] = 0]
      /\ sold' = [sold EXCEPT ![c] = Units[q]]
  <2>1. sold[c] = 0
    BY <1>1, <1>2 DEF Core, Rows
  <2>2. ClaimStock(c, Units[q], Late(c))
    BY <1>2 DEF PlaceOrder
  <2>3. /\ held' = [held EXCEPT ![c] = 0]
        /\ sold' = [sold EXCEPT ![c] = @ + held[c] + IF Late(c) THEN Units[q] ELSE 0]
    BY <2>2 DEF ClaimStock
  <2>4. sold[c] + held[c] + (IF Late(c) THEN Units[q] ELSE 0) = Units[q]
    BY <1>4, <1>7, <2>1
  <2> QED
    BY <2>3, <2>4
<1>9. /\ uses' \in Nat
      /\ redemption' \in [Checkout -> {"NONE", "RESERVED", "RELEASED", "REDEEMED"}]
      /\ \A d \in Checkout \ {c} : redemption'[d] = redemption[d]
      /\ redemption'[c] # "RESERVED"
  <2>1. CASE Discounted[q]
    <3>1. /\ uses' = uses \/ uses' = uses + 1
          /\ \E s \in {"NONE", "REDEEMED"} :
               redemption' = [redemption EXCEPT ![c] = s]
      <4>1. ClaimDiscountUse(c, OverLimit(c))
        BY <1>2, <2>1 DEF PlaceOrder
      <4>2. CASE OverLimit(c)
        BY <4>1, <4>2 DEF ClaimDiscountUse
      <4>3. CASE ~OverLimit(c)
        BY <4>1, <4>3 DEF ClaimDiscountUse
      <4> QED
        BY <4>2, <4>3
    <3> QED
      BY <1>1, <3>1 DEF Core, CoreType
  <2>2. CASE ~Discounted[q]
    <3>1. UNCHANGED discountVars
      BY <1>2, <2>2 DEF PlaceOrder
    <3>2. redemption[c] # "RESERVED"
      BY <1>1, <1>4, <2>2 DEF Core, HoldsWhilePaying
    <3> QED
      BY <3>1, <3>2 DEF Core, CoreType, discountVars
  <2> QED
    BY <2>1, <2>2
<1>10. PICK o \in OrderRow :
         /\ orders' = orders \cup {o}
         /\ o.checkout = c
         /\ o.payment = p
         /\ o.quote = q
  <2> DEFINE new == [checkout |-> c, payment |-> p, quote |-> q,
                     shortage |-> Short(c), overLimit |-> OverLimit(c)]
  <2>1. Short(c) \in BOOLEAN /\ OverLimit(c) \in BOOLEAN
    BY DEF Short, OverLimit
  <2>2. new \in OrderRow
    BY <1>1, <1>3, <2>1 DEF OrderRow
  <2>3. orders' = orders \cup {new}
    BY <1>2 DEF PlaceOrder
  <2> QED
    BY <2>2, <2>3
<1>11. CoreType'
  <2>1. checkout' \in [Checkout -> CheckoutRow]
    <3>1. checkout \in [Checkout -> CheckoutRow] /\ checkout[c] \in CheckoutRow
      BY <1>1 DEF Core, CoreType
    <3>2. PICK row : row = [checkout[c] EXCEPT !.status = "COMPLETED"]
      OBVIOUS
    <3>3. row \in CheckoutRow
      BY <3>1, <3>2 DEF CheckoutRow
    <3>4. checkout' = [checkout EXCEPT ![c] = row]
      BY <1>c, <3>2
    <3> QED
      BY <3>1, <3>3, <3>4
  <2>2. payment' \in [Payment -> PaymentRow]
    <3>1. ASSUME NEW r \in Payment
          PROVE  /\ payment[r] \in PaymentRow
                 /\ [payment[r] EXCEPT !.status = "CAPTURED", !.order = TRUE] \in PaymentRow
                 /\ [payment[r] EXCEPT !.status = "CANCELLED"] \in PaymentRow
      <4>1. payment[r] \in PaymentRow
        BY DEF Core, CoreType
      <4> QED
        BY <4>1 DEF PaymentRow
    <3> QED
      BY <1>p, <3>1
  <2>3. cart' \in [Cart -> {"ACTIVE", "CONVERTED"}]
    BY <1>1, <1>c DEF Core, CoreType
  <2>4. available' \in Int /\ reserved' \in Int
    <3>1. ClaimStock(c, Units[q], Late(c))
      BY <1>2 DEF PlaceOrder
    <3>2. /\ available' = available - Units[q] \/ available' = available
          /\ reserved' = reserved + Units[q] \/ reserved' = reserved
      BY <3>1 DEF ClaimStock
    <3>3. available \in Int /\ reserved \in Int
      BY DEF Core, CoreType
    <3> QED
      BY <1>4, <3>2, <3>3
  <2>5. held' \in [Checkout -> Nat] /\ sold' \in [Checkout -> Nat]
    BY <1>1, <1>4, <1>8 DEF Core, CoreType
  <2> QED
    BY <1>9, <1>10, <2>1, <2>2, <2>3, <2>4, <2>5 DEF Core, CoreType
<1>12. Rows'
  <2>1. \A r \in Payment : payment'[r].status = "NONE" <=> payment[r].status = "NONE"
    BY <1>5 DEF PendingPayments
  <2>2. \A d \in Checkout :
          /\ d \in checking => d # c /\ checkout[d].status = "OPEN"
          /\ d # c => sold'[d] = sold[d]
    BY <1>8 DEF Core, CoreType, Rows
  <2>3. \A d \in Checkout :
          /\ checkout'[d].status # "NONE" => checkout'[d].cart \in Cart
          /\ checkout'[d].status \in {"OPEN", "PAYMENT_PENDING", "COMPLETED"} =>
               checkout'[d].quote \in Quote
          /\ d \in checking' => checkout'[d].status = "OPEN"
          /\ checkout'[d].status # "COMPLETED" => sold'[d] = 0
    BY <1>1, <1>3, <1>6, <2>2 DEF Core, Rows
  <2>4. \A r \in Payment :
          IF payment'[r].status = "NONE"
          THEN ~payment'[r].ref /\ payment'[r].checkout = None
          ELSE /\ payment'[r].checkout \in Checkout
               /\ checkout'[payment'[r].checkout].status # "NONE"
    BY <1>5, <1>6, <2>1 DEF Core, Rows
  <2> QED
    BY <2>3, <2>4 DEF Rows
<1>13. \A d \in Checkout :
         PendingPayments(d)' = IF d = c THEN {} ELSE PendingPayments(d)
  BY <1>5 DEF PendingPayments
<1>14. HoldsWhilePaying'
  <2> SUFFICES ASSUME NEW d \in Checkout
               PROVE  IF checkout'[d].status = "PAYMENT_PENDING"
                      THEN /\ \E r \in Payment :
                                /\ PendingPayments(d)' = {r}
                                /\ payment'[r].amount = Total[checkout'[d].quote]
                           /\ held'[d] = Units[checkout'[d].quote]
                           /\ redemption'[d] = "RESERVED" <=>
                                Discounted[checkout'[d].quote]
                      ELSE /\ PendingPayments(d)' = {}
                           /\ held'[d] = 0
                           /\ redemption'[d] # "RESERVED"
    BY DEF HoldsWhilePaying
  <2>1. CASE d = c
    BY <1>1, <1>6, <1>8, <1>9, <1>13, <2>1 DEF Core, CoreType
  <2>2. CASE d # c
    <3>1. /\ PendingPayments(d)' = PendingPayments(d)
          /\ held'[d] = held[d]
          /\ redemption'[d] = redemption[d]
      BY <1>8, <1>9, <1>13, <2>2 DEF Core, CoreType
    <3> QED
      BY <1>5, <1>6, <2>2, <3>1 DEF Core, HoldsWhilePaying
  <2> QED
    BY <2>1, <2>2
<1>15. OneOrderPerCheckout'
  <2>1. \A old \in orders : old \in OrderRow /\ old.checkout # c
    BY <1>1, <1>2 DEF Core, CoreType, OneOrderPerCheckout
  <2>2. \A d \in Checkout :
          checkout'[d].status = "COMPLETED" <=> \E x \in orders' : x.checkout = d
    BY <1>1, <1>6, <1>10 DEF Core, OneOrderPerCheckout
  <2>3. \A o1, o2 \in orders' : o1.checkout = o2.checkout => o1 = o2
    BY <1>10, <2>1 DEF Core, OneOrderPerCheckout
  <2>4. ASSUME NEW x \in orders'
        PROVE  /\ payment'[x.payment].status = "CAPTURED"
               /\ payment'[x.payment].checkout = x.checkout
               /\ payment'[x.payment].amount = Total[x.quote]
               /\ sold'[x.checkout] = Units[x.quote]
    <3>1. CASE x = o
      BY <1>1, <1>3, <1>5, <1>8, <1>10, <3>1 DEF Core, CoreType
    <3>2. CASE x \in orders
      <4>1. /\ x.payment \in Payment
            /\ x.checkout \in Checkout \ {c}
            /\ payment[x.payment].status = "CAPTURED"
            /\ payment[x.payment].checkout = x.checkout
            /\ payment[x.payment].amount = Total[x.quote]
            /\ sold[x.checkout] = Units[x.quote]
        BY <2>1, <3>2 DEF OrderRow, Core, OneOrderPerCheckout
      <4>2. x.payment \notin PendingPayments(c)
        BY <4>1 DEF PendingPayments
      <4> QED
        BY <1>5, <1>8, <4>1, <4>2 DEF Core, CoreType
    <3> QED
      BY <1>10, <3>1, <3>2
  <2> QED
    BY <2>2, <2>3, <2>4 DEF OneOrderPerCheckout
<1> QED
  BY <1>5, <1>11, <1>12, <1>14, <1>15 DEF Core, PaymentsStay

\* Whatever the provider reports of a payment, once or again, in time or late.
LEMMA ApplyOutcomeKeepsCore ==
  ASSUME Core, NEW p \in Payment, payment[p].status # "NONE",
         ApplyOutcome(p), UNCHANGED checking
  PROVE  Core' /\ PaymentsStay
<1> DEFINE c == payment[p].checkout
<1>1. c \in Checkout /\ c \notin checking
  BY DEF Core, Rows, ApplyOutcome, Free
<1>2. CASE Capture(p)
  <2>1. CASE payment[p].status = "CAPTURED"
    BY <1>2, <2>1, CoreUnchanged DEF Capture, coreVars
  <2>2. CASE payment[p].status # "CAPTURED" /\ AttachExtraCapture(p)
    <3>1. payment[p].status # "PENDING"
      BY <1>1, <2>2 DEF AttachExtraCapture, Core, HoldsWhilePaying, PendingPayments
    <3> QED
      BY <2>2, <3>1, MarkCapturedKeepsCore DEF AttachExtraCapture
  <2>3. CASE payment[p].status # "CAPTURED" /\ CaptureWithoutOrder(p)
    <3>1. payment[p].status # "PENDING"
      <4>1. ASSUME payment[p].status = "PENDING" PROVE QuoteMatches(p)
        <5>1. p \in PendingPayments(c)
          BY <4>1 DEF PendingPayments
        <5>2. checkout[c].status = "PAYMENT_PENDING"
          BY <1>1, <5>1 DEF Core, HoldsWhilePaying
        <5>3. checkout[c].quote \in Quote /\ payment[p].amount = Total[checkout[c].quote]
          BY <1>1, <5>1, <5>2 DEF Core, HoldsWhilePaying, Rows
        <5> QED
          BY <5>3, NoneAssumption DEF QuoteMatches
      <4> QED
        BY <2>3, <4>1 DEF CaptureWithoutOrder
    <3> QED
      BY <2>3, <3>1, MarkCapturedKeepsCore DEF CaptureWithoutOrder
  <2>4. CASE payment[p].status # "CAPTURED" /\ CompleteCheckout(p)
    BY <1>1, <2>4, PlaceOrderKeepsCore
  <2> QED
    BY <1>2, <2>1, <2>2, <2>3, <2>4 DEF Capture
<1>3. CASE EndAttempt(p, "FAILED") /\ UNCHANGED <<cart, orders>>
  BY <1>3, EndAttemptKeepsCore
<1>4. CASE EndAttempt(p, "CANCELLED") /\ UNCHANGED <<cart, orders>>
  BY <1>4, EndAttemptKeepsCore
<1> QED
  BY <1>2, <1>3, <1>4 DEF ApplyOutcome

-----------------------------------------------------------------------------
(* Every step keeps the invariant, one action at a time.                   *)

\* The empty store satisfies the invariant.
LEMMA InitEstablishes == Init => IInv
<1> SUFFICES ASSUME Init PROVE IInv
  OBVIOUS
<1>1. CoreType
  BY CatalogueAssumption
     DEF Init, CoreType, CheckoutRow, PaymentRow, OrderRow, NoRow, NoPayment
<1>2. Rows
  BY DEF Init, Rows, NoRow, NoPayment
<1>3. HoldsWhilePaying
  BY DEF Init, HoldsWhilePaying, PendingPayments, NoRow, NoPayment
<1>4. OneOrderPerCheckout
  BY DEF Init, OneOrderPerCheckout, NoRow
<1>5. Outer
  BY DEF Init, Outer, OuterType, Memories
<1> QED
  BY <1>1, <1>2, <1>3, <1>4, <1>5 DEF IInv, Core

\* No step unmakes a payment, so a new memory is the only one to look at.
LEMMA OuterKept ==
  ASSUME Outer, PaymentsStay, OuterType',
         \A p \in Payment :
           attempt'[p] # "none" => attempt[p] # "none" \/ payment'[p].status # "NONE",
         \A call \in calls' \ calls :
           call.phase # "unasked" \/ call.kind # "cancel" =>
             call.payment \in Payment /\ payment[call.payment].status # "NONE"
  PROVE  Outer'
BY DEF Outer, OuterType, Memories, PaymentsStay

\* A new call under way.
LEMMA NewCallKeepsOuter ==
  ASSUME Outer, PaymentsStay, NEW kind \in CallKind, NEW c \in Checkout,
         NEW p \in Payment \cup {None}, NEW phase \in Phase,
         NewCall(kind, c, p, phase), UNCHANGED <<providerVars, settled>>,
         phase # "unasked" \/ kind # "cancel" =>
           p \in Payment /\ payment[p].status # "NONE"
  PROVE  Outer'
<1> DEFINE new == [kind |-> kind, checkout |-> c, payment |-> p, phase |-> phase]
<1>1. calls' = calls \cup {new} /\ new \in Call
  BY DEF NewCall, Call
<1>2. OuterType'
  BY <1>1 DEF Outer, OuterType, providerVars
<1> QED
  BY <1>1, <1>2, OuterKept DEF providerVars

\* A call under way that moves on or ends.
LEMMA CallKeepsOuter ==
  ASSUME Outer, PaymentsStay, NEW call \in calls,
         \/ CallDone(call)
         \/ call.phase # "unasked" /\ \E phase \in Phase : CallMoves(call, phase),
         link' \in [Payment -> {"none", "pending", "captured", "mispaid", "failed", "closed"}],
         UNCHANGED <<attempt, settled>>
  PROVE  Outer'
<1>1. call \in Call
  BY DEF Outer, OuterType
<1>2. CASE CallDone(call)
  <2>1. calls' = calls \ {call}
    BY <1>2 DEF CallDone
  <2>2. OuterType'
    BY <2>1 DEF Outer, OuterType
  <2> QED
    BY <2>1, <2>2, OuterKept
<1>3. ASSUME call.phase # "unasked", NEW phase \in Phase, CallMoves(call, phase)
      PROVE  Outer'
  <2> DEFINE moved == [call EXCEPT !.phase = phase]
  <2>1. /\ moved \in Call
        /\ moved.payment = call.payment
    BY <1>1, <1>3 DEF Call
  <2>2. calls' = (calls \ {call}) \cup {moved}
    BY <1>3 DEF CallMoves
  <2>3. OuterType'
    BY <2>1, <2>2 DEF Outer, OuterType
  <2>4. call.payment \in Payment /\ payment[call.payment].status # "NONE"
    BY <1>3 DEF Outer, Memories
  <2> QED
    BY <2>1, <2>2, <2>3, <2>4, OuterKept
<1> QED
  BY <1>2, <1>3

\* StartCheckout, Reprice, BeginPayment and AbandonPayment, CheckoutExpires and the
\* sweeps of checkouts: one row changes, no payment, stock or discount.
LEMMA RowStepKeepsInv ==
  ASSUME IInv, NEW c \in Checkout, NEW row \in CheckoutRow,
         checkout' = [checkout EXCEPT ![c] = row],
         checking' \subseteq checking \cup {c},
         c \in checking' => row.status = "OPEN",
         row.status \in {"OPEN", "PAYMENT_PENDING", "EXPIRED"},
         row.status = "PAYMENT_PENDING" <=> checkout[c].status = "PAYMENT_PENDING",
         row.status = "PAYMENT_PENDING" => row.quote = checkout[c].quote,
         row.status \in {"OPEN", "PAYMENT_PENDING"} => row.quote \in Quote,
         row.cart \in Cart,
         checkout[c].status # "COMPLETED",
         UNCHANGED <<cart, payment, providerVars, settled, calls,
                     stockVars, discountVars, orders>>
  PROVE  IInv'
<1>1. \A d \in Checkout : checkout'[d] = IF d = c THEN row ELSE checkout[d]
  BY DEF IInv, Core, CoreType
<1>2. CoreType'
  BY DEF IInv, Core, CoreType, stockVars, discountVars
<1>3. Rows'
  <2>1. \A d \in Checkout :
          /\ checkout'[d].status # "NONE" => checkout'[d].cart \in Cart
          /\ checkout'[d].status \in {"OPEN", "PAYMENT_PENDING", "COMPLETED"} =>
               checkout'[d].quote \in Quote
          /\ d \in checking' => checkout'[d].status = "OPEN"
          /\ checkout'[d].status # "COMPLETED" => sold[d] = 0
    BY <1>1 DEF IInv, Core, Rows
  <2>2. \A p \in Payment :
          IF payment[p].status = "NONE"
          THEN ~payment[p].ref /\ payment[p].checkout = None
          ELSE /\ payment[p].checkout \in Checkout
               /\ checkout'[payment[p].checkout].status # "NONE"
    BY <1>1 DEF IInv, Core, Rows
  <2> QED
    BY <2>1, <2>2 DEF Rows, stockVars
<1>4. HoldsWhilePaying'
  BY <1>1 DEF IInv, Core, HoldsWhilePaying, PendingPayments, stockVars, discountVars
<1>5. OneOrderPerCheckout'
  BY <1>1 DEF IInv, Core, CoreType, OrderRow, OneOrderPerCheckout, stockVars
<1>6. Outer'
  BY DEF IInv, Outer, OuterType, Memories, providerVars
<1> QED
  BY <1>2, <1>3, <1>4, <1>5, <1>6 DEF IInv, Core

\* beginPayment's transaction takes holds for a checkout that had none and makes the
\* only pending payment it has.
LEMMA ReserveKeepsInv ==
  ASSUME IInv, NEW c \in Checkout, NEW p \in Payment, NEW q \in Quote,
         ReserveForPayment(c, p, q)
  PROVE  IInv'
<1>1. /\ checkout[c].status = "OPEN"
      /\ checkout[c].cart \in Cart
      /\ PendingPayments(c) = {}
      /\ held[c] = 0
      /\ redemption[c] # "RESERVED"
      /\ payment[p].status = "NONE"
  BY DEF ReserveForPayment, IInv, Core, Rows, HoldsWhilePaying
<1>2. Units[q] \in Nat /\ Total[q] \in Nat /\ Discounted[q] \in BOOLEAN
  BY CatalogueAssumption
<1>3. /\ checkout' = [checkout EXCEPT
           ![c].status = "PAYMENT_PENDING", ![c].quote = q, ![c].expired = FALSE]
      /\ checking' = checking \ {c}
  BY DEF ReserveForPayment
<1>4. payment' = [payment EXCEPT ![p] =
        [status |-> "PENDING", checkout |-> c, amount |-> Total[q],
         ref |-> FALSE, order |-> FALSE, expired |-> FALSE]]
  BY DEF ReserveForPayment
<1>5. \A d \in Checkout :
        IF d = c
        THEN /\ checkout'[d].status = "PAYMENT_PENDING"
             /\ checkout'[d].quote = q
             /\ checkout'[d].cart = checkout[d].cart
        ELSE checkout'[d] = checkout[d]
  BY <1>3 DEF IInv, Core, CoreType, CheckoutRow
<1>6. \A r \in Payment :
        IF r = p
        THEN /\ payment'[r].status = "PENDING"
             /\ payment'[r].checkout = c
             /\ payment'[r].amount = Total[q]
        ELSE payment'[r] = payment[r]
  BY <1>4 DEF IInv, Core, CoreType
<1>7. held' = [held EXCEPT ![c] = Units[q]] /\ sold' = sold
  <2>1. held' = [held EXCEPT ![c] = @ + Units[q]] /\ sold' = sold
    BY DEF ReserveForPayment
  <2>2. held[c] + Units[q] = Units[q]
    BY <1>1, <1>2
  <2> QED
    BY <2>1, <2>2
<1>8. /\ redemption' \in [Checkout -> {"NONE", "RESERVED", "RELEASED", "REDEEMED"}]
      /\ \A d \in Checkout \ {c} : redemption'[d] = redemption[d]
      /\ redemption'[c] = "RESERVED" <=> Discounted[q]
  <2>1. CASE Discounted[q]
    BY <2>1 DEF ReserveForPayment, IInv, Core, CoreType
  <2>2. CASE ~Discounted[q]
    BY <1>1, <2>2 DEF ReserveForPayment, IInv, Core, CoreType
  <2> QED
    BY <2>1, <2>2
<1>9. CoreType'
  <2>1. checkout' \in [Checkout -> CheckoutRow]
    <3> DEFINE pending == [checkout EXCEPT ![c].status = "PAYMENT_PENDING"]
               quoted == [pending EXCEPT ![c].quote = q]
    <3>1. pending \in [Checkout -> CheckoutRow]
      BY DEF IInv, Core, CoreType, CheckoutRow
    <3>2. quoted \in [Checkout -> CheckoutRow]
      <4> HIDE DEF pending
      <4> QED
        BY <3>1 DEF CheckoutRow
    <3>3. checkout' = [quoted EXCEPT ![c].expired = FALSE]
      BY <1>3
    <3> HIDE DEF quoted
    <3> QED
      BY <3>2, <3>3 DEF CheckoutRow
  <2>2. payment' \in [Payment -> PaymentRow]
    BY <1>2, <1>4 DEF IInv, Core, CoreType, PaymentRow
  <2>3. /\ available' \in Int
        /\ reserved' \in Int
        /\ uses' \in Nat
    BY <1>2 DEF ReserveForPayment, IInv, Core, CoreType
  <2>4. held' \in [Checkout -> Nat] /\ sold' \in [Checkout -> Nat]
    BY <1>2, <1>7 DEF IInv, Core, CoreType
  <2> QED
    BY <1>3, <1>8, <2>1, <2>2, <2>3, <2>4 DEF ReserveForPayment, IInv, Core, CoreType
<1>10. Rows'
  <2>1. \A d \in Checkout :
          /\ checkout'[d].status # "NONE" => checkout'[d].cart \in Cart
          /\ checkout'[d].status \in {"OPEN", "PAYMENT_PENDING", "COMPLETED"} =>
               checkout'[d].quote \in Quote
          /\ d \in checking' => checkout'[d].status = "OPEN"
          /\ checkout'[d].status # "COMPLETED" => sold'[d] = 0
    BY <1>1, <1>3, <1>5, <1>7 DEF IInv, Core, Rows
  <2>2. \A r \in Payment :
          IF payment'[r].status = "NONE"
          THEN ~payment'[r].ref /\ payment'[r].checkout = None
          ELSE /\ payment'[r].checkout \in Checkout
               /\ checkout'[payment'[r].checkout].status # "NONE"
    BY <1>5, <1>6 DEF IInv, Core, Rows
  <2> QED
    BY <2>1, <2>2 DEF Rows
<1>11. \A d \in Checkout :
         PendingPayments(d)' = IF d = c THEN {p} ELSE PendingPayments(d)
  BY <1>1, <1>6 DEF PendingPayments
<1>12. HoldsWhilePaying'
  <2> SUFFICES ASSUME NEW d \in Checkout
               PROVE  IF checkout'[d].status = "PAYMENT_PENDING"
                      THEN /\ \E r \in Payment :
                                /\ PendingPayments(d)' = {r}
                                /\ payment'[r].amount = Total[checkout'[d].quote]
                           /\ held'[d] = Units[checkout'[d].quote]
                           /\ redemption'[d] = "RESERVED" <=>
                                Discounted[checkout'[d].quote]
                      ELSE /\ PendingPayments(d)' = {}
                           /\ held'[d] = 0
                           /\ redemption'[d] # "RESERVED"
    BY DEF HoldsWhilePaying
  <2>1. CASE d = c
    BY <1>5, <1>6, <1>7, <1>8, <1>11, <2>1 DEF IInv, Core, CoreType
  <2>2. CASE d # c
    <3>1. /\ PendingPayments(d)' = PendingPayments(d)
          /\ held'[d] = held[d]
          /\ redemption'[d] = redemption[d]
          /\ checkout'[d] = checkout[d]
      BY <1>5, <1>7, <1>8, <1>11, <2>2 DEF IInv, Core, CoreType
    <3>2. \A r \in PendingPayments(d) : payment'[r] = payment[r]
      BY <1>1, <1>6 DEF PendingPayments
    <3> QED
      BY <3>1, <3>2 DEF IInv, Core, HoldsWhilePaying
  <2> QED
    BY <2>1, <2>2
<1>13. OneOrderPerCheckout'
  <2>1. orders' = orders /\ \A o \in orders : o \in OrderRow
    BY DEF ReserveForPayment, IInv, Core, CoreType
  <2>2. \A d \in Checkout : checkout'[d].status = "COMPLETED" <=> checkout[d].status = "COMPLETED"
    BY <1>1, <1>5
  <2>3. \A r \in Payment : payment[r].status = "CAPTURED" => payment'[r] = payment[r]
    BY <1>1, <1>6
  <2>4. \A o \in orders : o.payment \in Payment /\ o.checkout \in Checkout
    BY <2>1 DEF OrderRow
  <2> QED
    BY <1>7, <2>1, <2>2, <2>3, <2>4 DEF IInv, Core, OneOrderPerCheckout
<1>14. Outer'
  <2>1. PaymentsStay
    BY <1>6 DEF PaymentsStay
  <2>2. OuterType'
    BY DEF ReserveForPayment, IInv, Outer, OuterType
  <2> QED
    BY <1>6, <2>1, <2>2, OuterKept DEF ReserveForPayment, IInv, Outer, OuterType
<1> QED
  BY <1>9, <1>10, <1>12, <1>13, <1>14 DEF IInv, Core

\* Every operation on a checkout keeps the invariant.
LEMMA CheckoutStepKeepsInv ==
  ASSUME IInv, NEW c \in Checkout, CheckoutStep(c)
  PROVE  IInv'
<1> USE DEF IInv, Core
<1>1. ASSUME NEW k \in Cart, NEW q \in Quote, StartCheckout(c, k, q)
      PROVE  IInv'
  <2> DEFINE row == [status |-> "OPEN", cart |-> k, quote |-> q, expired |-> FALSE]
  <2>1. row \in CheckoutRow
    BY DEF CheckoutRow
  <2>2. c \notin checking
    BY <1>1 DEF StartCheckout, Rows
  <2> QED
    BY <1>1, <2>1, <2>2, RowStepKeepsInv DEF StartCheckout, Rows
<1>2. ASSUME NEW q \in Quote, Reprice(c, q)
      PROVE  IInv'
  <2> DEFINE row == [checkout[c] EXCEPT !.quote = q]
  <2>1. row \in CheckoutRow /\ row.status = "OPEN" /\ row.cart \in Cart /\ row.quote = q
    BY <1>2 DEF Reprice, Rows, CoreType, CheckoutRow
  <2>2. checkout' = [checkout EXCEPT ![c] = row]
    BY <1>2 DEF Reprice
  <2> QED
    BY <1>2, <2>1, <2>2, RowStepKeepsInv DEF Reprice
<1>3. CASE BeginPayment(c)
  <2> DEFINE row == checkout[c]
  <2>1. row \in CheckoutRow /\ row.status = "OPEN" /\ row.cart \in Cart /\ row.quote \in Quote
    BY <1>3 DEF BeginPayment, Rows, CoreType
  <2>2. checkout' = [checkout EXCEPT ![c] = row]
    BY <1>3 DEF BeginPayment, CoreType
  <2> QED
    BY <1>3, <2>1, <2>2, RowStepKeepsInv DEF BeginPayment
<1>4. ASSUME NEW p \in Payment, NEW q \in Quote, ReserveForPayment(c, p, q)
      PROVE  IInv'
  BY <1>4, ReserveKeepsInv
<1>5. CASE AbandonPayment(c)
  <2>1. PICK q \in Quote : checkout' = [checkout EXCEPT ![c].quote = q]
    BY <1>5 DEF AbandonPayment
  <2> DEFINE row == [checkout[c] EXCEPT !.quote = q]
  <2>2. row \in CheckoutRow /\ row.status = "OPEN" /\ row.cart \in Cart /\ row.quote = q
    BY <1>5 DEF AbandonPayment, Rows, CoreType, CheckoutRow
  <2>3. checkout' = [checkout EXCEPT ![c] = row]
    BY <2>1
  <2>4. checkout[c].status = "OPEN"
    BY <1>5 DEF AbandonPayment, Rows
  <2> QED
    BY <1>5, <2>2, <2>3, <2>4, RowStepKeepsInv DEF AbandonPayment
<1>6. CASE ConfirmPayment(c)
  <2>1. Core' /\ PaymentsStay
    BY <1>6, CoreUnchanged DEF ConfirmPayment, coreVars
  <2>2. PICK p \in PendingPayments(c) : NewCall("confirm", c, p, "asking")
    BY <1>6 DEF ConfirmPayment
  <2>3. p \in Payment /\ payment[p].status # "NONE"
    BY DEF PendingPayments
  <2>4. Outer'
    BY <1>6, <2>1, <2>2, <2>3, NewCallKeepsOuter DEF ConfirmPayment, CallKind, Phase
  <2> QED
    BY <2>1, <2>4
<1>7. CASE CancelPayment(c)
  <2>1. Core' /\ PaymentsStay
    BY <1>7, CoreUnchanged DEF CancelPayment, coreVars
  <2>2. UNCHANGED <<providerVars, settled>>
    BY <1>7 DEF CancelPayment
  <2>3. \/ NewCall("cancel", c, None, "unasked")
        \/ \E p \in PendingPayments(c) : NewCall("cancel", c, p, "asking")
    BY <1>7 DEF CancelPayment
  <2>4. CASE NewCall("cancel", c, None, "unasked")
    BY <2>1, <2>2, <2>4, NewCallKeepsOuter DEF CallKind, Phase
  <2>5. ASSUME NEW p \in PendingPayments(c), NewCall("cancel", c, p, "asking")
        PROVE  Outer'
    <3>1. p \in Payment /\ payment[p].status # "NONE"
      BY DEF PendingPayments
    <3> QED
      BY <2>1, <2>2, <2>5, <3>1, NewCallKeepsOuter DEF CallKind, Phase
  <2> QED
    BY <2>1, <2>3, <2>4, <2>5
<1>8. CASE CheckoutExpires(c)
  <2> DEFINE row == [checkout[c] EXCEPT !.expired = TRUE]
  <2>1. /\ row \in CheckoutRow
        /\ row.status = checkout[c].status
        /\ row.cart = checkout[c].cart
        /\ row.quote = checkout[c].quote
    BY DEF CoreType, CheckoutRow
  <2>2. checkout' = [checkout EXCEPT ![c] = row]
    BY <1>8 DEF CheckoutExpires
  <2>3. /\ checkout[c].status \in {"OPEN", "PAYMENT_PENDING"}
        /\ c \notin checking
        /\ checkout[c].cart \in Cart
        /\ checkout[c].quote \in Quote
    BY <1>8 DEF CheckoutExpires, Free, Rows
  <2>4. /\ checkout[c].status \in {"OPEN", "PAYMENT_PENDING", "EXPIRED"}
        /\ checkout[c].status # "COMPLETED"
        /\ checking' \subseteq checking \cup {c} /\ c \notin checking'
        /\ UNCHANGED <<cart, payment, providerVars, settled, calls,
                       stockVars, discountVars, orders>>
    BY <1>8, <2>3 DEF CheckoutExpires
  <2> HIDE DEF row
  <2>5. /\ row.status \in {"OPEN", "PAYMENT_PENDING", "EXPIRED"}
        /\ row.status = "PAYMENT_PENDING" <=> checkout[c].status = "PAYMENT_PENDING"
        /\ row.status = "PAYMENT_PENDING" => row.quote = checkout[c].quote
        /\ row.status \in {"OPEN", "PAYMENT_PENDING"} => row.quote \in Quote
        /\ row.cart \in Cart /\ row \in CheckoutRow
    BY <2>1, <2>3, <2>4
  <2> HIDE DEF IInv, Core, Outer
  <2> QED
    BY <2>2, <2>4, <2>5, RowStepKeepsInv
<1>9. CASE SweepCheckout(c)
  <2> DEFINE row == [checkout[c] EXCEPT !.status = "EXPIRED"]
  <2>1. row \in CheckoutRow /\ row.status = "EXPIRED" /\ row.cart = checkout[c].cart
    BY DEF CoreType, CheckoutRow
  <2>2. checkout' = [checkout EXCEPT ![c] = row]
    BY <1>9 DEF SweepCheckout
  <2>3. /\ checkout[c].status = "OPEN"
        /\ checkout[c].cart \in Cart
        /\ c \notin checking
    BY <1>9 DEF SweepCheckout, Free, Rows
  <2> HIDE DEF row
  <2> QED
    BY <1>9, <2>1, <2>2, <2>3, RowStepKeepsInv DEF SweepCheckout
<1>10. CASE PurgeCheckout(c)
  <2> DEFINE row == [checkout[c] EXCEPT !.quote = None]
  <2>1. row \in CheckoutRow /\ row.status = checkout[c].status /\ row.cart = checkout[c].cart
    BY DEF CoreType, CheckoutRow
  <2>2. checkout' = [checkout EXCEPT ![c] = row]
    BY <1>10 DEF PurgeCheckout
  <2>3. /\ checkout[c].status = "EXPIRED"
        /\ checkout[c].cart \in Cart
        /\ c \notin checking
    BY <1>10 DEF PurgeCheckout, Rows
  <2> HIDE DEF row
  <2> QED
    BY <1>10, <2>1, <2>2, <2>3, RowStepKeepsInv DEF PurgeCheckout
<1> QED
  BY <1>1, <1>2, <1>3, <1>4, <1>5, <1>6, <1>7, <1>8, <1>9, <1>10 DEF CheckoutStep

\* Every step of beginPayment's provider call, and every webhook, keeps the invariant.
LEMMA PaymentStepKeepsInv ==
  ASSUME IInv, NEW p \in Payment, PaymentStep(p)
  PROVE  IInv'
<1> USE DEF IInv, Core
<1>1. CASE ProviderCreatesLink(p)
  BY <1>1, CoreUnchanged, OuterKept
     DEF ProviderCreatesLink, coreVars, Outer, OuterType
<1>2. CASE CreatePaymentFails(p)
  BY <1>2, CoreUnchanged, OuterKept
     DEF CreatePaymentFails, coreVars, Outer, OuterType
<1>3. CASE RecordLink(p)
  <2>1. payment' = [payment EXCEPT ![p].ref = TRUE] /\ payment[p].status = "PENDING"
    BY <1>3 DEF RecordLink
  <2>2. MarkedOnly(p)
    BY <2>1 DEF MarkedOnly, CoreType, PaymentRow
  <2>3. UNCHANGED <<cart, checkout, checking, stockVars, discountVars, orders>>
    BY <1>3 DEF RecordLink
  <2>4. Core' /\ PaymentsStay
    BY <2>1, <2>2, <2>3, MarkedOnlyKeepsCore
  <2>5. OuterType'
    BY <1>3 DEF RecordLink, Outer, OuterType
  <2> QED
    BY <1>3, <2>4, <2>5, OuterKept DEF RecordLink, Outer, OuterType
<1>4. CASE DropLink(p)
  BY <1>4, CoreUnchanged, OuterKept DEF DropLink, coreVars, Outer, OuterType
<1>5. CASE StartFailed(p)
  <2>1. Core' /\ PaymentsStay
    BY <1>5, EndAttemptKeepsCore DEF StartFailed
  <2> QED
    BY <1>5, <2>1, OuterKept DEF StartFailed, Outer, OuterType
<1>6. CASE BeginPaymentDies(p)
  BY <1>6, CoreUnchanged, OuterKept DEF BeginPaymentDies, coreVars, Outer, OuterType
<1>7. ASSUME NEW how \in Outcome, LinkEnds(p, how)
      PROVE  IInv'
  BY <1>7, CoreUnchanged, OuterKept, OutcomeAssumption
     DEF LinkEnds, coreVars, Outer, OuterType
<1>8. CASE Webhook(p)
  <2>1. CASE payment[p].ref
    <3>1. payment[p].status # "NONE"
      BY <2>1 DEF Rows
    <3>2. ApplyOutcome(p) /\ UNCHANGED checking
      BY <1>8, <2>1 DEF Webhook
    <3>3. Core' /\ PaymentsStay
      BY <3>1, <3>2, ApplyOutcomeKeepsCore
    <3> QED
      BY <1>8, <3>3, OuterKept DEF Webhook, providerVars, Outer, OuterType
  <2>2. CASE ~payment[p].ref
    BY <1>8, <2>2, CoreUnchanged, OuterKept
       DEF Webhook, coreVars, providerVars, Outer, OuterType
  <2> QED
    BY <2>1, <2>2
<1>9. CASE SweepPayment(p)
  <2>1. payment[p].status = "PENDING" /\ payment[p].checkout \in Checkout
    BY <1>9 DEF SweepPayment, Rows
  <2>2. PICK phase \in Phase : NewCall("sweep", payment[p].checkout, p, phase)
    BY <1>9 DEF SweepPayment, Phase
  <2>3. Core' /\ PaymentsStay
    BY <1>9, CoreUnchanged DEF SweepPayment, coreVars
  <2>4. Outer'
    BY <1>9, <2>1, <2>2, <2>3, NewCallKeepsOuter DEF SweepPayment, CallKind
  <2> QED
    BY <2>3, <2>4
<1>10. CASE PaymentWindowEnds(p)
  <2>1. payment' = [payment EXCEPT ![p].expired = TRUE] /\ payment[p].status = "PENDING"
    BY <1>10 DEF PaymentWindowEnds
  <2>2. MarkedOnly(p)
    BY <2>1 DEF MarkedOnly, CoreType, PaymentRow
  <2>3. Core' /\ PaymentsStay
    BY <1>10, <2>1, <2>2, MarkedOnlyKeepsCore DEF PaymentWindowEnds
  <2> QED
    BY <1>10, <2>3, OuterKept DEF PaymentWindowEnds, providerVars, Outer, OuterType
<1> QED
  BY <1>1, <1>2, <1>3, <1>4, <1>5, <1>6, <1>7, <1>8, <1>9, <1>10 DEF PaymentStep

\* Every step of a confirm, a cancel or a sweep under way keeps the invariant, whatever
\* happened since it read the payment.
LEMMA CallStepKeepsInv ==
  ASSUME IInv, NEW call \in calls, CallStep(call)
  PROVE  IInv'
<1> USE DEF IInv, Core
<1> DEFINE p == call.payment
           linkType == [Payment -> {"none", "pending", "captured", "mispaid", "failed", "closed"}]
<1>1. call \in Call /\ link \in linkType
  BY DEF Outer, OuterType
<1>2. CASE Ask(call)
  <2>1. p \in Payment /\ payment[p].status # "NONE"
    BY <1>2 DEF Ask, Outer, Memories
  <2>2. UNCHANGED <<checking, providerVars, settled>> /\ link' \in linkType
    BY <1>1, <1>2 DEF Ask, providerVars
  <2>3. CASE ApplyOutcome(p) /\ CallDone(call)
    <3>1. Core' /\ PaymentsStay
      BY <2>1, <2>2, <2>3, ApplyOutcomeKeepsCore
    <3> QED
      BY <2>2, <2>3, <3>1, CallKeepsOuter DEF providerVars
  <2>4. CASE AskNotCaptured(call)
    <3>1. Core' /\ PaymentsStay
      BY <2>2, <2>4, CoreUnchanged DEF AskNotCaptured, coreVars
    <3>2. \E phase \in Phase : CallMoves(call, phase)
      BY <2>4 DEF AskNotCaptured, Phase
    <3>3. call.phase # "unasked"
      BY <1>2 DEF Ask
    <3> QED
      BY <2>2, <3>1, <3>2, <3>3, CallKeepsOuter DEF providerVars
  <2> QED
    BY <1>2, <2>3, <2>4 DEF Ask, AskConfirm, AskCaptured
<1>3. CASE StopLink(call)
  <2>1. Core' /\ PaymentsStay
    BY <1>3, CoreUnchanged DEF StopLink, coreVars
  <2>2. call.phase = "stopping" /\ CallMoves(call, "ending") /\ UNCHANGED <<attempt, settled>>
    BY <1>3 DEF StopLink
  <2>3. link' \in linkType
    BY <1>1, <1>3 DEF StopLink
  <2> QED
    BY <2>1, <2>2, <2>3, CallKeepsOuter DEF Phase
<1>4. CASE EndCall(call)
  <2>1. UNCHANGED <<cart, checking, providerVars, settled, orders>> /\ CallDone(call)
    BY <1>4 DEF EndCall
  <2>2. Core' /\ PaymentsStay
    <3>1. CASE UNCHANGED <<checkout, payment, stockVars, discountVars>>
      BY <2>1, <3>1, CoreUnchanged DEF coreVars
    <3>2. ASSUME NEW r \in CallTargets(call), EndAttempt(r, "CANCELLED")
          PROVE  Core' /\ PaymentsStay
      <4>1. r \in Payment /\ payment[r].status # "NONE"
        <5>1. CASE call.kind = "cancel"
          BY <5>1 DEF CallTargets, PendingPayments
        <5>2. CASE call.kind # "cancel"
          BY <5>2 DEF CallTargets, Outer, Memories
        <5> QED
          BY <5>1, <5>2
      <4> QED
        BY <2>1, <3>2, <4>1, EndAttemptKeepsCore
    <3> QED
      BY <1>4, <3>1, <3>2 DEF EndCall
  <2> QED
    BY <1>1, <2>1, <2>2, CallKeepsOuter DEF providerVars
<1>5. CASE CallFails(call)
  <2>1. Core' /\ PaymentsStay
    BY <1>5, CoreUnchanged DEF CallFails, coreVars
  <2> QED
    BY <1>1, <1>5, <2>1, CallKeepsOuter DEF CallFails, providerVars
<1> QED
  BY <1>2, <1>3, <1>4, <1>5 DEF CallStep

\* In every reachable state the rows agree with each other and with what begins and
\* calls under way remember: the inductive invariant the properties follow from.
THEOREM Invariance == Spec => []IInv
<1>1. Init => IInv
  BY InitEstablishes
<1>2. IInv /\ [Next]_vars => IInv'
  <2> SUFFICES ASSUME IInv, [Next]_vars PROVE IInv'
    OBVIOUS
  <2>1. CASE UNCHANGED vars
    <3>1. Core'
      BY <2>1, CoreUnchanged DEF vars, IInv, coreVars, stockVars, discountVars
    <3>2. Outer'
      BY <2>1 DEF vars, IInv, Outer, OuterType, Memories
    <3> QED
      BY <3>1, <3>2 DEF IInv
  <2>2. CASE \E c \in Checkout : CheckoutStep(c)
    BY <2>2, CheckoutStepKeepsInv
  <2>3. CASE \E p \in Payment : PaymentStep(p)
    BY <2>3, PaymentStepKeepsInv
  <2>4. CASE \E call \in calls : CallStep(call)
    BY <2>4, CallStepKeepsInv
  <2> QED
    BY <2>1, <2>2, <2>3, <2>4 DEF Next
<1> QED
  BY <1>1, <1>2, PTL DEF Spec

-----------------------------------------------------------------------------
(* What the invariant gives.                                               *)

\* Every variable keeps its type for any number of checkouts, payments and quotes; in
\* particular the discount's usage count stays a natural number.
THEOREM TypeCorrectness == Spec => []TypeOK
<1>1. IInv => TypeOK
  BY DEF IInv, Core, CoreType, Outer, OuterType, TypeOK
<1> QED
  BY <1>1, Invariance, PTL

\* No attempt that ended, was superseded or was abandoned keeps stock or a discount
\* use, and an attempt in flight holds exactly what its quote asks for.
THEOREM HoldsOnlyWhilePaying == Spec => []HoldsWhilePaying
<1>1. IInv => HoldsWhilePaying
  BY DEF IInv, Core
<1> QED
  BY <1>1, Invariance, PTL

\* Captures that arrive twice, late or for several attempts place exactly one order,
\* paid and stocked as it says.
THEOREM ExactlyOneOrder == Spec => []OneOrderPerCheckout
<1>1. IInv => OneOrderPerCheckout
  BY DEF IInv, Core
<1> QED
  BY <1>1, Invariance, PTL

-----------------------------------------------------------------------------
(* What a step may do to the payments and the orders: nothing; rewrite a   *)
(* payment that took no money, without recording any; or capture one.      *)

Rewrites(p, row) ==
  /\ payment[p].status \in {"NONE", "PENDING"}
  /\ row.status \notin {"NONE", "CAPTURED"}
  /\ payment' = [payment EXCEPT ![p] = row]
  /\ orders' = orders

Captures(p) ==
  /\ payment[p].status \notin {"NONE", "CAPTURED"}
  /\ AttachExtraCapture(p) \/ CaptureWithoutOrder(p) \/ CompleteCheckout(p)

MoneyStep ==
  \/ UNCHANGED <<payment, orders>>
  \/ \E p \in Payment, row \in PaymentRow : Rewrites(p, row)
  \/ \E p \in Payment : Captures(p)

\* Ending an attempt rewrites one payment that took no money, and no order.
LEMMA EndAttemptIsMoneyStep ==
  ASSUME IInv, NEW p \in Payment, NEW to \in {"FAILED", "CANCELLED"},
         EndAttempt(p, to), orders' = orders
  PROVE  MoneyStep
<1>1. CASE payment[p].status # "PENDING"
  BY <1>1 DEF EndAttempt, MoneyStep
<1>2. CASE payment[p].status = "PENDING"
  <2> DEFINE row == [payment[p] EXCEPT !.status = to]
  <2>1. row \in PaymentRow /\ row.status = to
    BY DEF IInv, Core, CoreType, PaymentRow
  <2>2. payment' = [payment EXCEPT ![p] = row]
    BY <1>2 DEF EndAttempt
  <2> HIDE DEF row
  <2> QED
    BY <1>2, <2>1, <2>2 DEF MoneyStep, Rewrites
<1> QED
  BY <1>1, <1>2

\* An outcome of the provider either captures one payment or ends its attempt.
LEMMA ApplyOutcomeIsMoneyStep ==
  ASSUME IInv, NEW p \in Payment, payment[p].status # "NONE", ApplyOutcome(p)
  PROVE  MoneyStep
<1>1. CASE Capture(p)
  BY <1>1 DEF Capture, MoneyStep, Captures
<1>2. CASE (EndAttempt(p, "FAILED") \/ EndAttempt(p, "CANCELLED")) /\ orders' = orders
  BY <1>2, EndAttemptIsMoneyStep
<1> QED
  BY <1>1, <1>2 DEF ApplyOutcome

\* Every step of the system is one of the three kinds of money step.
LEMMA NextIsMoneyStep ==
  ASSUME IInv, Next
  PROVE  MoneyStep
<1>1. ASSUME NEW c \in Checkout, CheckoutStep(c)
      PROVE  MoneyStep
  <2>1. ASSUME NEW p \in Payment, NEW q \in Quote, ReserveForPayment(c, p, q)
        PROVE  MoneyStep
    <3> DEFINE row == [status |-> "PENDING", checkout |-> c, amount |-> Total[q],
                       ref |-> FALSE, order |-> FALSE, expired |-> FALSE]
    <3>1. row \in PaymentRow /\ row.status = "PENDING"
      BY CatalogueAssumption DEF PaymentRow
    <3>2. Rewrites(p, row)
      BY <2>1 DEF ReserveForPayment, Rewrites
    <3> HIDE DEF row
    <3> QED
      BY <3>1, <3>2 DEF MoneyStep
  <2>2. CASE UNCHANGED <<payment, orders>>
    BY <2>2 DEF MoneyStep
  <2> QED
    BY <1>1, <2>1, <2>2
       DEF CheckoutStep, StartCheckout, Reprice, BeginPayment, AbandonPayment,
           ConfirmPayment, CancelPayment, CheckoutExpires, SweepCheckout, PurgeCheckout
<1>2. ASSUME NEW p \in Payment, PaymentStep(p)
      PROVE  MoneyStep
  <2>1. CASE RecordLink(p)
    <3> DEFINE row == [payment[p] EXCEPT !.ref = TRUE]
    <3>1. row \in PaymentRow /\ row.status = payment[p].status
      BY DEF IInv, Core, CoreType, PaymentRow
    <3>2. /\ payment[p].status = "PENDING"
          /\ payment' = [payment EXCEPT ![p] = row]
          /\ orders' = orders
      BY <2>1 DEF RecordLink
    <3> HIDE DEF row
    <3> QED
      BY <3>1, <3>2 DEF MoneyStep, Rewrites
  <2>2. CASE PaymentWindowEnds(p)
    <3> DEFINE row == [payment[p] EXCEPT !.expired = TRUE]
    <3>1. row \in PaymentRow /\ row.status = payment[p].status
      BY DEF IInv, Core, CoreType, PaymentRow
    <3>2. /\ payment[p].status = "PENDING"
          /\ payment' = [payment EXCEPT ![p] = row]
          /\ orders' = orders
      BY <2>2 DEF PaymentWindowEnds
    <3> HIDE DEF row
    <3> QED
      BY <3>1, <3>2 DEF MoneyStep, Rewrites
  <2>3. CASE StartFailed(p)
    BY <2>3, EndAttemptIsMoneyStep DEF StartFailed
  <2>4. CASE Webhook(p)
    <3>1. CASE payment[p].ref
      BY <2>4, <3>1, ApplyOutcomeIsMoneyStep DEF Webhook, IInv, Core, Rows
    <3>2. CASE ~payment[p].ref
      BY <2>4, <3>2 DEF Webhook, MoneyStep
    <3> QED
      BY <3>1, <3>2
  <2>5. CASE UNCHANGED <<payment, orders>>
    BY <2>5 DEF MoneyStep
  <2> QED
    BY <1>2, <2>1, <2>2, <2>3, <2>4, <2>5
       DEF PaymentStep, ProviderCreatesLink, CreatePaymentFails, DropLink,
           BeginPaymentDies, LinkEnds, SweepPayment
<1>3. ASSUME NEW call \in calls, CallStep(call)
      PROVE  MoneyStep
  <2>1. CASE Ask(call)
    <3>1. call.payment \in Payment /\ payment[call.payment].status # "NONE"
      BY <2>1 DEF Ask, IInv, Outer, Memories
    <3> QED
      BY <2>1, <3>1, ApplyOutcomeIsMoneyStep
         DEF Ask, AskConfirm, AskCaptured, AskNotCaptured, MoneyStep
  <2>2. CASE EndCall(call)
    <3>1. ASSUME NEW r \in CallTargets(call), EndAttempt(r, "CANCELLED"), orders' = orders
          PROVE  MoneyStep
      <4>1. r \in Payment
        <5>1. CASE call.kind = "cancel"
          BY <5>1 DEF CallTargets, PendingPayments
        <5>2. CASE call.kind # "cancel"
          BY <5>2 DEF CallTargets, IInv, Outer, Memories
        <5> QED
          BY <5>1, <5>2
      <4> QED
        BY <3>1, <4>1, EndAttemptIsMoneyStep
    <3> QED
      BY <2>2, <3>1 DEF EndCall, MoneyStep
  <2>3. CASE UNCHANGED <<payment, orders>>
    BY <2>3 DEF MoneyStep
  <2> QED
    BY <1>3, <2>1, <2>2, <2>3 DEF CallStep, StopLink, CallFails
<1> QED
  BY <1>1, <1>2, <1>3 DEF Next

\* What a capture writes.
LEMMA CaptureWrites ==
  ASSUME IInv, NEW p \in Payment, Captures(p)
  PROVE  /\ orders \subseteq orders'
         /\ payment'[p].status = "CAPTURED"
         /\ \A r \in Payment \ {p} :
              payment[r].status # "PENDING" => payment'[r] = payment[r]
         /\ \A r \in Payment \ {p} :
              payment[r].status = "PENDING" =>
                payment'[r].status \in {"PENDING", "CANCELLED"}
         /\ (\E o \in orders : o.checkout = payment[p].checkout) => payment'[p].order
<1> DEFINE c == payment[p].checkout
<1>1. c \in Checkout
  BY DEF Captures, IInv, Core, Rows
<1>2. (\E o \in orders : o.checkout = c) => checkout[c].status = "COMPLETED"
  BY <1>1 DEF IInv, Core, OneOrderPerCheckout
<1>3. CASE AttachExtraCapture(p)
  <2>1. payment' = [payment EXCEPT ![p].status = "CAPTURED", ![p].order = TRUE]
        /\ orders' = orders
    BY <1>3 DEF AttachExtraCapture
  <2> QED
    BY <2>1 DEF IInv, Core, CoreType, PaymentRow
<1>4. CASE CaptureWithoutOrder(p)
  <2>1. payment' = [payment EXCEPT ![p].status = "CAPTURED"] /\ orders' = orders
        /\ checkout[c].status # "COMPLETED"
    BY <1>4 DEF CaptureWithoutOrder
  <2> QED
    BY <1>2, <2>1 DEF IInv, Core, CoreType, PaymentRow
<1>5. CASE CompleteCheckout(p)
  <2>1. payment' = [r \in Payment |->
          IF r = p THEN [payment[r] EXCEPT !.status = "CAPTURED", !.order = TRUE]
          ELSE IF r \in PendingPayments(c)
               THEN [payment[r] EXCEPT !.status = "CANCELLED"]
               ELSE payment[r]]
    BY <1>5 DEF CompleteCheckout, PlaceOrder
  <2>2. orders \subseteq orders' /\ checkout[c].status # "COMPLETED"
    BY <1>5 DEF CompleteCheckout, PlaceOrder
  <2> QED
    BY <1>2, <2>1, <2>2 DEF PendingPayments, IInv, Core, CoreType, PaymentRow
<1> QED
  BY <1>3, <1>4, <1>5 DEF Captures

\* Money that was recorded stays recorded, whatever arrives afterwards.
THEOREM MoneyStaysRecorded == Spec => MoneyIsKept
<1> DEFINE Kept ==
      /\ orders \subseteq orders'
      /\ \A p \in Payment : payment[p].status = "CAPTURED" =>
           /\ payment'[p].status = "CAPTURED"
           /\ payment[p].order => payment'[p].order
<1>1. IInv /\ [Next]_vars => [Kept]_vars
  <2> SUFFICES ASSUME IInv, Next PROVE Kept
    OBVIOUS
  <2>1. CASE UNCHANGED <<payment, orders>>
    BY <2>1
  <2>2. ASSUME NEW p \in Payment, NEW row \in PaymentRow, Rewrites(p, row)
        PROVE  Kept
    BY <2>2 DEF Rewrites, IInv, Core, CoreType
  <2>3. ASSUME NEW p \in Payment, Captures(p)
        PROVE  Kept
    <3>1. payment[p].status # "CAPTURED"
      BY <2>3 DEF Captures
    <3> QED
      BY <2>3, <3>1, CaptureWrites
  <2> QED
    BY <2>1, <2>2, <2>3, NextIsMoneyStep DEF MoneyStep
<1> QED
  BY <1>1, Invariance, PTL DEF Spec, MoneyIsKept

\* A capture for a checkout that has its order is attached to it.
THEOREM ExtraCapturesAreAttached == Spec => ExtraCaptureIsAttached
<1> DEFINE Attached ==
      \A p \in Payment :
        /\ payment[p].status # "CAPTURED"
        /\ payment'[p].status = "CAPTURED"
        /\ \E o \in orders : o.checkout = payment[p].checkout
        => payment'[p].order
<1>1. IInv /\ [Next]_vars => [Attached]_vars
  <2> SUFFICES ASSUME IInv, Next PROVE Attached
    OBVIOUS
  <2>1. CASE UNCHANGED <<payment, orders>>
    BY <2>1
  <2>2. ASSUME NEW p \in Payment, NEW row \in PaymentRow, Rewrites(p, row)
        PROVE  Attached
    BY <2>2 DEF Rewrites, IInv, Core, CoreType
  <2>3. ASSUME NEW p \in Payment, Captures(p)
        PROVE  Attached
    BY <2>3, CaptureWrites
  <2> QED
    BY <2>1, <2>2, <2>3, NextIsMoneyStep DEF MoneyStep
<1> QED
  BY <1>1, Invariance, PTL DEF Spec, ExtraCaptureIsAttached

\* A payment captured while its attempt was in flight buys what the checkout held.
LEMMA TimelyCapture ==
  ASSUME IInv, NEW p \in Payment, Captures(p), payment[p].status = "PENDING"
  PROVE  \E o \in orders' \ orders :
           /\ o.payment = p
           /\ o.quote = checkout[o.checkout].quote
           /\ ~o.shortage
           /\ ~o.overLimit
<1> DEFINE c == payment[p].checkout
           q == checkout[c].quote
           new == [checkout |-> c, payment |-> p, quote |-> q,
                   shortage |-> Short(c), overLimit |-> OverLimit(c)]
<1>1. c \in Checkout /\ p \in PendingPayments(c)
  BY DEF IInv, Core, Rows, PendingPayments
<1>2. checkout[c].status = "PAYMENT_PENDING"
  BY <1>1 DEF IInv, Core, HoldsWhilePaying
<1>3. q \in Quote /\ payment[p].amount = Total[q]
  BY <1>1, <1>2 DEF IInv, Core, HoldsWhilePaying, Rows
<1>4. QuoteMatches(p)
  BY <1>3, NoneAssumption DEF QuoteMatches
<1>5. orders' = orders \cup {new}
  <2>1. CompleteCheckout(p)
    BY <1>2, <1>4 DEF Captures, AttachExtraCapture, CaptureWithoutOrder
  <2> QED
    BY <2>1 DEF CompleteCheckout, PlaceOrder
<1>6. new \notin orders
  <2>1. \A o \in orders : o.checkout # c
    BY <1>1, <1>2 DEF IInv, Core, OneOrderPerCheckout
  <2> QED
    BY <2>1
<1>7. ~Short(c)
  BY <1>2 DEF Short, Late
<1>8. ~OverLimit(c)
  <2>1. redemption[c] = "RESERVED" <=> Discounted[q]
    BY <1>1, <1>2 DEF IInv, Core, HoldsWhilePaying
  <2> QED
    BY <2>1 DEF OverLimit
<1>9. ~new.shortage /\ ~new.overLimit
  BY <1>7, <1>8
<1> QED
  <2>1. /\ new.payment = p
        /\ new.checkout = c
        /\ new.quote = q
    OBVIOUS
  <2> HIDE DEF new
  <2> QED
    BY <1>5, <1>6, <1>9, <2>1

\* Whoever pays in time gets the order in full, with neither flag raised.
THEOREM TimelyCapturesAreWhole == Spec => TimelyCaptureIsWhole
<1> DEFINE Whole ==
      \A p \in Payment :
        payment[p].status = "PENDING" /\ payment'[p].status = "CAPTURED" =>
          \E o \in orders' \ orders :
            /\ o.payment = p
            /\ o.quote = checkout[o.checkout].quote
            /\ ~o.shortage
            /\ ~o.overLimit
<1>1. IInv /\ [Next]_vars => [Whole]_vars
  <2> SUFFICES ASSUME IInv, Next,
                      NEW p \in Payment,
                      payment[p].status = "PENDING", payment'[p].status = "CAPTURED"
               PROVE  \E o \in orders' \ orders :
                        /\ o.payment = p
                        /\ o.quote = checkout[o.checkout].quote
                        /\ ~o.shortage
                        /\ ~o.overLimit
    OBVIOUS
  <2>1. CASE UNCHANGED <<payment, orders>>
    BY <2>1
  <2>2. ASSUME NEW r \in Payment, NEW row \in PaymentRow, Rewrites(r, row)
        PROVE  FALSE
    BY <2>2 DEF Rewrites, IInv, Core, CoreType
  <2>3. ASSUME NEW r \in Payment, Captures(r)
        PROVE  r = p
    BY <2>3, CaptureWrites
  <2> QED
    BY <2>1, <2>2, <2>3, NextIsMoneyStep, TimelyCapture DEF MoneyStep
<1> QED
  BY <1>1, Invariance, PTL DEF Spec, TimelyCaptureIsWhole

-----------------------------------------------------------------------------
(* The status tables.                                                      *)

CheckoutMoved(c) ==
  checkout[c].status # "NONE" /\ checkout'[c].status # checkout[c].status =>
    <<checkout[c].status, checkout'[c].status>> \in CheckoutMoves

PaymentMoved(p) ==
  payment[p].status # "NONE" /\ payment'[p].status # payment[p].status =>
    <<payment[p].status, payment'[p].status>> \in PaymentMoves

\* A money step moves a payment's status only along the table of state.ts.
LEMMA MoneyStepMovesPayments ==
  ASSUME IInv, MoneyStep, NEW p \in Payment
  PROVE  PaymentMoved(p)
<1>1. CASE UNCHANGED <<payment, orders>>
  BY <1>1 DEF PaymentMoved
<1>2. ASSUME NEW r \in Payment, NEW row \in PaymentRow, Rewrites(r, row)
      PROVE  PaymentMoved(p)
  <2>1. row.status \in {"PENDING", "FAILED", "CANCELLED"}
    BY <1>2 DEF Rewrites, PaymentRow
  <2>2. payment'[p] = IF p = r THEN row ELSE payment[p]
    BY <1>2 DEF Rewrites, IInv, Core, CoreType
  <2> QED
    BY <1>2, <2>1, <2>2 DEF Rewrites, PaymentMoved, PaymentMoves
<1>3. ASSUME NEW r \in Payment, Captures(r)
      PROVE  PaymentMoved(p)
  <2>1. payment[p].status \in {"NONE", "PENDING", "CAPTURED", "FAILED", "CANCELLED"}
    BY DEF IInv, Core, CoreType, PaymentRow
  <2>2. CASE p = r
    <3>1. payment'[p].status = "CAPTURED" /\ payment[p].status \notin {"NONE", "CAPTURED"}
      BY <1>3, <2>2, CaptureWrites DEF Captures
    <3> QED
      BY <2>1, <3>1 DEF PaymentMoved, PaymentMoves
  <2>3. CASE p # r
    <3>1. \/ payment'[p] = payment[p]
          \/ /\ payment[p].status = "PENDING"
             /\ payment'[p].status \in {"PENDING", "CANCELLED"}
      BY <1>3, <2>3, CaptureWrites
    <3> QED
      BY <3>1 DEF PaymentMoved, PaymentMoves
  <2> QED
    BY <2>2, <2>3
<1> QED
  BY <1>1, <1>2, <1>3 DEF MoneyStep

\* One checkout's row is rewritten, along the table.
LEMMA RowMoves ==
  ASSUME IInv, NEW d \in Checkout, NEW c \in Checkout, NEW status,
         checkout' = [checkout EXCEPT ![d].status = status],
         <<checkout[d].status, status>> \in CheckoutMoves
  PROVE  CheckoutMoved(c)
<1>1. checkout'[c].status = IF c = d THEN status ELSE checkout[c].status
  BY DEF IInv, Core, CoreType, CheckoutRow
<1> QED
  BY <1>1 DEF CheckoutMoved

\* Ending an attempt moves a checkout only along the table of state.ts.
LEMMA EndAttemptMoves ==
  ASSUME IInv, NEW c \in Checkout, NEW p \in Payment, payment[p].status # "NONE",
         NEW to, EndAttempt(p, to)
  PROVE  CheckoutMoved(c)
<1>1. CASE UNCHANGED checkout
  BY <1>1 DEF CheckoutMoved
<1>2. CASE /\ checkout' = [checkout EXCEPT ![payment[p].checkout].status = "OPEN"]
           /\ checkout[payment[p].checkout].status = "PAYMENT_PENDING"
  <2>1. payment[p].checkout \in Checkout
    BY DEF IInv, Core, Rows
  <2>2. <<checkout[payment[p].checkout].status, "OPEN">> \in CheckoutMoves
    BY <1>2 DEF CheckoutMoves
  <2> QED
    BY <1>2, <2>1, <2>2, RowMoves
<1> QED
  BY <1>1, <1>2 DEF EndAttempt

\* An outcome of the provider moves a checkout only along the table of state.ts.
LEMMA ApplyOutcomeMoves ==
  ASSUME IInv, NEW c \in Checkout, NEW p \in Payment, payment[p].status # "NONE",
         ApplyOutcome(p)
  PROVE  CheckoutMoved(c)
<1>1. CASE UNCHANGED checkout
  BY <1>1 DEF CheckoutMoved
<1>2. CASE EndAttempt(p, "FAILED") \/ EndAttempt(p, "CANCELLED")
  BY <1>2, EndAttemptMoves
<1>3. CASE CompleteCheckout(p)
  <2> DEFINE d == payment[p].checkout
  <2>1. d \in Checkout /\ checkout[d].status # "NONE"
    BY DEF IInv, Core, Rows
  <2>2. /\ checkout[d].status # "COMPLETED"
        /\ checkout' = [checkout EXCEPT ![d].status = "COMPLETED"]
    BY <1>3 DEF CompleteCheckout, PlaceOrder
  <2>3. checkout[d].status \in {"NONE", "OPEN", "PAYMENT_PENDING", "COMPLETED", "EXPIRED"}
    BY <2>1 DEF IInv, Core, CoreType, CheckoutRow
  <2>4. <<checkout[d].status, "COMPLETED">> \in CheckoutMoves
    BY <2>1, <2>2, <2>3 DEF CheckoutMoves
  <2> QED
    BY <2>1, <2>2, <2>4, RowMoves
<1> QED
  BY <1>1, <1>2, <1>3
     DEF ApplyOutcome, Capture, AttachExtraCapture, CaptureWithoutOrder

\* Every step moves a checkout only along the table of state.ts.
LEMMA NextMovesCheckouts ==
  ASSUME IInv, Next, NEW c \in Checkout
  PROVE  CheckoutMoved(c)
<1>1. CASE UNCHANGED checkout
  BY <1>1 DEF CheckoutMoved
<1>2. ASSUME NEW d \in Checkout, CheckoutStep(d)
      PROVE  CheckoutMoved(c)
  <2>1. ASSUME NEW k \in Cart, NEW q \in Quote, StartCheckout(d, k, q)
        PROVE  CheckoutMoved(c)
    BY <2>1 DEF StartCheckout, CheckoutMoved, IInv, Core, CoreType
  <2>2. ASSUME NEW q \in Quote, checkout' = [checkout EXCEPT ![d].quote = q]
        PROVE  CheckoutMoved(c)
    BY <2>2 DEF CheckoutMoved, IInv, Core, CoreType, CheckoutRow
  <2>3. ASSUME NEW p \in Payment, NEW q \in Quote, ReserveForPayment(d, p, q)
        PROVE  CheckoutMoved(c)
    <3>1. checkout[d].status = "OPEN"
      BY <2>3 DEF ReserveForPayment, IInv, Core, Rows
    <3>2. checkout' = [checkout EXCEPT
            ![d].status = "PAYMENT_PENDING", ![d].quote = q, ![d].expired = FALSE]
      BY <2>3 DEF ReserveForPayment
    <3>3. checkout'[c].status = IF c = d THEN "PAYMENT_PENDING" ELSE checkout[c].status
      BY <3>2 DEF IInv, Core, CoreType, CheckoutRow
    <3> QED
      BY <3>1, <3>3 DEF CheckoutMoved, CheckoutMoves
  <2>4. CASE CheckoutExpires(d)
    BY <2>4 DEF CheckoutExpires, CheckoutMoved, IInv, Core, CoreType, CheckoutRow
  <2>5. CASE SweepCheckout(d)
    BY <2>5, RowMoves DEF SweepCheckout, CheckoutMoves
  <2>6. CASE PurgeCheckout(d)
    BY <2>6 DEF PurgeCheckout, CheckoutMoved, IInv, Core, CoreType, CheckoutRow
  <2> QED
    BY <1>1, <1>2, <2>1, <2>2, <2>3, <2>4, <2>5, <2>6
       DEF CheckoutStep, Reprice, BeginPayment, AbandonPayment, ConfirmPayment, CancelPayment
<1>3. ASSUME NEW p \in Payment, PaymentStep(p)
      PROVE  CheckoutMoved(c)
  <2>1. CASE StartFailed(p)
    BY <2>1, EndAttemptMoves DEF StartFailed
  <2>2. CASE Webhook(p)
    BY <1>1, <2>2, ApplyOutcomeMoves DEF Webhook, IInv, Core, Rows
  <2> QED
    BY <1>1, <1>3, <2>1, <2>2
       DEF PaymentStep, ProviderCreatesLink, CreatePaymentFails, RecordLink, DropLink,
           BeginPaymentDies, LinkEnds, SweepPayment, PaymentWindowEnds
<1>4. ASSUME NEW call \in calls, CallStep(call)
      PROVE  CheckoutMoved(c)
  <2>1. CASE Ask(call)
    <3>1. call.payment \in Payment /\ payment[call.payment].status # "NONE"
      BY <2>1 DEF Ask, IInv, Outer, Memories
    <3> QED
      BY <1>1, <2>1, <3>1, ApplyOutcomeMoves DEF Ask, AskConfirm, AskCaptured, AskNotCaptured
  <2>2. CASE EndCall(call)
    <3>1. \A r \in CallTargets(call) : r \in Payment /\ payment[r].status # "NONE"
      BY DEF CallTargets, PendingPayments, IInv, Outer, Memories
    <3> QED
      BY <1>1, <2>2, <3>1, EndAttemptMoves DEF EndCall
  <2> QED
    BY <1>1, <1>4, <2>1, <2>2 DEF CallStep, StopLink, CallFails
<1> QED
  BY <1>2, <1>3, <1>4 DEF Next

\* No late, duplicate or stale answer makes the code attempt a forbidden status change.
THEOREM StatusTablesSuffice == Spec => TransitionsAreAllowed
<1> DEFINE Allowed ==
      /\ \A c \in Checkout : CheckoutMoved(c)
      /\ \A p \in Payment : PaymentMoved(p)
<1>1. IInv /\ [Next]_vars => [Allowed]_vars
  <2> SUFFICES ASSUME IInv, Next PROVE Allowed
    OBVIOUS
  <2>1. \A c \in Checkout : CheckoutMoved(c)
    BY NextMovesCheckouts
  <2>2. \A p \in Payment : PaymentMoved(p)
    BY NextIsMoneyStep, MoneyStepMovesPayments
  <2> QED
    BY <2>1, <2>2
<1> QED
  BY <1>1, Invariance, PTL
     DEF Spec, TransitionsAreAllowed, CheckoutMoved, PaymentMoved

-----------------------------------------------------------------------------
(* Checkout keeps CheckoutPromise.                                         *)

Turn(c) == IF checkout[c].status = "COMPLETED" THEN "placed" ELSE "shopping"

\* Whose turn it is: the one pending attempt's, which makes CHOOSE no choice.
TurnsAreClear ==
  \A c \in Checkout :
    IF checkout[c].status = "PAYMENT_PENDING"
    THEN TurnOf(c) \in Payment /\ PendingPayments(c) = {TurnOf(c)}
    ELSE TurnOf(c) = Turn(c)

\* HoldsWhilePaying leaves one payment to choose while a checkout is being paid for.
LEMMA TurnsClear == IInv => TurnsAreClear
<1> SUFFICES ASSUME IInv, NEW c \in Checkout
             PROVE  IF checkout[c].status = "PAYMENT_PENDING"
                    THEN TurnOf(c) \in Payment /\ PendingPayments(c) = {TurnOf(c)}
                    ELSE TurnOf(c) = Turn(c)
  BY DEF TurnsAreClear
<1>1. CASE checkout[c].status = "PAYMENT_PENDING"
  <2>1. PICK p \in Payment : PendingPayments(c) = {p}
    BY <1>1 DEF IInv, Core, HoldsWhilePaying
  <2>2. TurnOf(c) = CHOOSE r \in Payment : r \in {p}
    BY <1>1, <2>1 DEF TurnOf
  <2>3. TurnOf(c) = p
    BY <2>2
  <2> QED
    BY <1>1, <2>1, <2>3
<1>2. CASE checkout[c].status # "PAYMENT_PENDING"
  BY <1>2 DEF TurnOf, Turn
<1> QED
  BY <1>1, <1>2

\* What a step does to the payments when it neither begins, ends nor captures one.
PaymentRests(p) ==
  /\ payment'[p].checkout = payment[p].checkout
  /\ payment'[p].status = "PENDING" <=> payment[p].status = "PENDING"
  /\ payment'[p].status = "CAPTURED" <=> payment[p].status = "CAPTURED"

\* The checkout's turn and deal stay what they are.
CheckoutRests(c) ==
  /\ checkout'[c].status = "PAYMENT_PENDING" <=> checkout[c].status = "PAYMENT_PENDING"
  /\ checkout'[c].status = "COMPLETED" <=> checkout[c].status = "COMPLETED"
  /\ checkout[c].status \in {"PAYMENT_PENDING", "COMPLETED"} =>
       checkout'[c].quote = checkout[c].quote

\* A checkout whose row and pending payments rest keeps its turn and its deal.
LEMMA TurnRests ==
  ASSUME IInv, IInv', NEW c \in Checkout, CheckoutRests(c),
         checkout[c].status = "PAYMENT_PENDING" =>
           \A p \in Payment :
             payment[p].checkout = c /\ payment[p].status = "PENDING" =>
               payment'[p].checkout = c /\ payment'[p].status = "PENDING"
  PROVE  TurnOf(c)' = TurnOf(c) /\ DealOf(c)' = DealOf(c)
<1>1. TurnsAreClear
  BY TurnsClear
<1>2. TurnsAreClear'
  BY TurnsClear, PTL
<1>3. DealOf(c)' = DealOf(c)
  BY DEF DealOf, CheckoutRests
<1>4. CASE checkout[c].status = "PAYMENT_PENDING"
  <2>1. TurnOf(c) \in PendingPayments(c)
    BY <1>1, <1>4 DEF TurnsAreClear
  <2>2. TurnOf(c) \in PendingPayments(c)'
    BY <1>4, <2>1 DEF PendingPayments
  <2>3. checkout'[c].status = "PAYMENT_PENDING"
    BY <1>4 DEF CheckoutRests
  <2>4. PendingPayments(c)' = {TurnOf(c)'}
    BY <1>2, <2>3 DEF TurnsAreClear
  <2> QED
    BY <1>3, <2>2, <2>4
<1>5. CASE checkout[c].status # "PAYMENT_PENDING"
  BY <1>1, <1>2, <1>3, <1>5 DEF TurnsAreClear, CheckoutRests, Turn
<1> QED
  BY <1>4, <1>5

\* A step that leaves payments, turns and the shelf alone is none of the promise's.
LEMMA Rests ==
  ASSUME IInv, IInv', available' = available,
         \A p \in Payment : PaymentRests(p),
         \A c \in Checkout : CheckoutRests(c)
  PROVE  UNCHANGED Promise!promiseVars
<1>1. \A c \in Checkout : TurnOf(c)' = TurnOf(c) /\ DealOf(c)' = DealOf(c)
  BY TurnRests DEF PaymentRests
<1>2. {p \in Payment : payment[p].status = "CAPTURED"}'
        = {p \in Payment : payment[p].status = "CAPTURED"}
  BY DEF PaymentRests
<1> QED
  BY <1>1, <1>2 DEF Promise!promiseVars

\* beginPayment's reservation is the promise's Wait.
LEMMA ReserveWaits ==
  ASSUME IInv, IInv', NEW c \in Checkout, NEW p \in Payment, NEW q \in Quote,
         ReserveForPayment(c, p, q)
  PROVE  Promise!Wait(c, p)
<1>1. checkout[c].status = "OPEN" /\ payment[p].status = "NONE"
  BY DEF ReserveForPayment, IInv, Core, Rows
<1>2. /\ payment'[p].status = "PENDING" /\ payment'[p].checkout = c
      /\ \A r \in Payment \ {p} : payment'[r] = payment[r]
  BY DEF ReserveForPayment, IInv, Core, CoreType
<1>3. /\ checkout'[c].status = "PAYMENT_PENDING" /\ checkout'[c].quote = q
      /\ \A d \in Checkout \ {c} : checkout'[d] = checkout[d]
  BY DEF ReserveForPayment, IInv, Core, CoreType, CheckoutRow
<1>4. TurnsAreClear /\ TurnsAreClear'
  BY TurnsClear, PTL
<1>5. TurnOf(c) = "shopping"
  BY <1>1, <1>4 DEF TurnsAreClear, Turn
<1>6. TurnOf(c)' = p /\ DealOf(c)' = q
  <2>1. p \in PendingPayments(c)'
    BY <1>2 DEF PendingPayments
  <2>2. PendingPayments(c)' = {TurnOf(c)'}
    BY <1>3, <1>4 DEF TurnsAreClear
  <2> QED
    BY <1>3, <2>1, <2>2 DEF DealOf
<1>7. \A d \in Checkout \ {c} : TurnOf(d)' = TurnOf(d) /\ DealOf(d)' = DealOf(d)
  BY <1>1, <1>2, <1>3, TurnRests DEF CheckoutRests
<1>8. {r \in Payment : payment[r].status = "CAPTURED"}'
        = {r \in Payment : payment[r].status = "CAPTURED"}
  BY <1>1, <1>2
<1>9. [d \in Checkout |-> TurnOf(d)'] = [[d \in Checkout |-> TurnOf(d)] EXCEPT ![c] = p]
  BY <1>6, <1>7
<1>10. [d \in Checkout |-> DealOf(d)'] = [[d \in Checkout |-> DealOf(d)] EXCEPT ![c] = q]
  BY <1>6, <1>7
<1> QED
  BY <1>1, <1>5, <1>8, <1>9, <1>10 DEF Promise!Wait, ReserveForPayment

\* Ending an attempt gives its checkout up, or finds it ended.
LEMMA EndAttemptGivesUp ==
  ASSUME IInv, IInv', NEW p \in Payment, payment[p].status # "NONE",
         NEW to \in {"FAILED", "CANCELLED"}, EndAttempt(p, to)
  PROVE  (\E c \in Checkout : Promise!GiveUp(c)) \/ UNCHANGED Promise!promiseVars
<1>1. PICK c \in Checkout : c = payment[p].checkout
  BY DEF IInv, Core, Rows
<1>2. CASE payment[p].status # "PENDING"
  BY <1>2, Rests DEF EndAttempt, stockVars, PaymentRests, CheckoutRests
<1>3. CASE payment[p].status = "PENDING"
  <2>1. checkout[c].status = "PAYMENT_PENDING" /\ held[c] = Units[checkout[c].quote]
    BY <1>1, <1>3 DEF IInv, Core, HoldsWhilePaying, PendingPayments
  <2>2. /\ payment'[p].status = to /\ payment'[p].checkout = c
        /\ \A r \in Payment \ {p} : payment'[r] = payment[r]
    BY <1>1, <1>3 DEF EndAttempt, IInv, Core, CoreType, PaymentRow
  <2>3. /\ checkout'[c].status = "OPEN"
        /\ \A d \in Checkout \ {c} : checkout'[d] = checkout[d]
    BY <1>1, <1>3, <2>1 DEF EndAttempt, IInv, Core, CoreType, CheckoutRow
  <2>4. TurnsAreClear /\ TurnsAreClear'
    BY TurnsClear, PTL
  <2>5. TurnOf(c) \in Payment /\ DealOf(c) = checkout[c].quote
    BY <1>1, <2>1, <2>4 DEF TurnsAreClear, DealOf
  <2>6. TurnOf(c)' = "shopping" /\ DealOf(c)' = None
    BY <1>1, <2>3, <2>4 DEF TurnsAreClear, Turn, DealOf
  <2>7. \A d \in Checkout \ {c} : TurnOf(d)' = TurnOf(d) /\ DealOf(d)' = DealOf(d)
    BY <1>1, <2>2, <2>3, TurnRests DEF CheckoutRests
  <2>8. {r \in Payment : payment[r].status = "CAPTURED"}'
          = {r \in Payment : payment[r].status = "CAPTURED"}
    BY <1>3, <2>2
  <2>9. available' = available + Units[DealOf(c)]
    BY <1>1, <1>3, <2>1, <2>5 DEF EndAttempt, ReleaseStock
  <2>10. [d \in Checkout |-> TurnOf(d)'] = [[d \in Checkout |-> TurnOf(d)] EXCEPT ![c] = "shopping"]
    BY <2>6, <2>7
  <2>11. [d \in Checkout |-> DealOf(d)'] = [[d \in Checkout |-> DealOf(d)] EXCEPT ![c] = None]
    BY <2>6, <2>7
  <2> QED
    BY <1>1, <2>5, <2>8, <2>9, <2>10, <2>11 DEF Promise!GiveUp
<1> QED
  BY <1>2, <1>3

\* The attempt in flight is for the amount of the quote it waits for.
LEMMA PendingQuoteMatches ==
  ASSUME Core, NEW p \in Payment, payment[p].status = "PENDING"
  PROVE  QuoteMatches(p)
<1> DEFINE c == payment[p].checkout
<1>1. c \in Checkout /\ p \in PendingPayments(c)
  BY DEF Core, Rows, PendingPayments
<1>2. checkout[c].status = "PAYMENT_PENDING"
  BY <1>1 DEF Core, HoldsWhilePaying
<1>3. checkout[c].quote \in Quote /\ payment[p].amount = Total[checkout[c].quote]
  BY <1>1, <1>2 DEF Core, HoldsWhilePaying, Rows
<1> QED
  BY <1>3, NoneAssumption DEF QuoteMatches

\* Money recorded without an order in the same step is money nobody waits for.
LEMMA MarkingTakesOther ==
  ASSUME IInv, IInv', NEW p \in Payment, payment[p].status \notin {"PENDING", "CAPTURED"},
         \/ payment' = [payment EXCEPT ![p].status = "CAPTURED"]
         \/ payment' = [payment EXCEPT ![p].status = "CAPTURED", ![p].order = TRUE],
         UNCHANGED <<checkout, stockVars>>
  PROVE  Promise!TakeOther(p)
<1>1. /\ payment'[p].status = "CAPTURED"
      /\ \A r \in Payment \ {p} : payment'[r] = payment[r]
  BY DEF IInv, Core, CoreType, PaymentRow
<1>2. \A c \in Checkout : TurnOf(c)' = TurnOf(c) /\ DealOf(c)' = DealOf(c)
  BY <1>1, TurnRests DEF CheckoutRests
<1>3. {r \in Payment : payment[r].status = "CAPTURED"}'
        = {r \in Payment : payment[r].status = "CAPTURED"} \cup {p}
  BY <1>1
<1>4. ASSUME NEW c \in Checkout PROVE TurnOf(c) # p
  <2>1. p \notin PendingPayments(c)
    BY DEF PendingPayments
  <2>2. TurnsAreClear
    BY TurnsClear
  <2> QED
    BY <2>1, <2>2, TurnAssumption DEF TurnsAreClear, Turn
<1> QED
  BY <1>2, <1>3, <1>4 DEF Promise!TakeOther, stockVars

\* Placing an order is the promise's Place, or PlaceLate when nothing was waited for.
LEMMA CompletingPlaces ==
  ASSUME IInv, IInv', NEW p \in Payment,
         payment[p].status \notin {"NONE", "CAPTURED"}, CompleteCheckout(p)
  PROVE  \E c \in Checkout : Promise!Place(c, p) \/ Promise!PlaceLate(c)
<1>1. PICK c \in Checkout : c = payment[p].checkout
  BY DEF IInv, Core, Rows
<1>2. PICK q \in Quote : q = checkout[c].quote
  BY <1>1 DEF CompleteCheckout, QuoteMatches, IInv, Core, CoreType, CheckoutRow
<1>0. checkout[c].status # "COMPLETED" /\ PlaceOrder(p, c, q)
  BY <1>1, <1>2 DEF CompleteCheckout
<1>3. /\ payment'[p].status = "CAPTURED"
      /\ \A r \in Payment \ {p} :
           /\ payment'[r].checkout = payment[r].checkout
           /\ payment'[r].status =
                IF r \in PendingPayments(c) THEN "CANCELLED" ELSE payment[r].status
  <2>1. payment' = [r \in Payment |->
          IF r = p THEN [payment[r] EXCEPT !.status = "CAPTURED", !.order = TRUE]
          ELSE IF r \in PendingPayments(c) THEN [payment[r] EXCEPT !.status = "CANCELLED"]
          ELSE payment[r]]
    BY <1>0 DEF PlaceOrder
  <2>2. payment \in [Payment -> PaymentRow]
    BY DEF IInv, Core, CoreType
  <2> QED
    BY <2>1, <2>2 DEF PaymentRow
<1>4. /\ checkout'[c].status = "COMPLETED" /\ checkout'[c].quote = q
      /\ \A d \in Checkout \ {c} : checkout'[d] = checkout[d]
  <2>1. checkout' = [checkout EXCEPT ![c].status = "COMPLETED"]
    BY <1>0 DEF PlaceOrder
  <2>2. checkout \in [Checkout -> CheckoutRow]
    BY DEF IInv, Core, CoreType
  <2> QED
    BY <1>2, <2>1, <2>2 DEF CheckoutRow
<1>5. TurnsAreClear /\ TurnsAreClear'
  BY TurnsClear, PTL
<1>6. TurnOf(c)' = "placed" /\ DealOf(c)' = q
  BY <1>0, <1>4, <1>5 DEF TurnsAreClear, Turn, DealOf
<1>7. \A d \in Checkout \ {c} : TurnOf(d)' = TurnOf(d) /\ DealOf(d)' = DealOf(d)
  <2> SUFFICES ASSUME NEW d \in Checkout \ {c}
               PROVE  TurnOf(d)' = TurnOf(d) /\ DealOf(d)' = DealOf(d)
    OBVIOUS
  <2>1. \A r \in Payment : payment[r].checkout = d /\ payment[r].status = "PENDING" =>
          payment'[r].checkout = d /\ payment'[r].status = "PENDING"
    BY <1>1, <1>3 DEF PendingPayments
  <2> QED
    BY <1>4, <2>1, TurnRests DEF CheckoutRests
<1>8. {r \in Payment : payment[r].status = "CAPTURED"}'
        = {r \in Payment : payment[r].status = "CAPTURED"} \cup {p}
  BY <1>3 DEF PendingPayments
<1>9. [d \in Checkout |-> TurnOf(d)'] = [[d \in Checkout |-> TurnOf(d)] EXCEPT ![c] = "placed"]
  BY <1>6, <1>7
<1>10. CASE Late(c)
  <2>1. TurnOf(c) = "shopping"
    BY <1>0, <1>5, <1>10 DEF TurnsAreClear, Turn, Late
  <2>2. available' = available - Units[q]
    BY <1>0, <1>10 DEF PlaceOrder, ClaimStock
  <2>3. [d \in Checkout |-> DealOf(d)'] = [[d \in Checkout |-> DealOf(d)] EXCEPT ![c] = q]
    BY <1>6, <1>7
  <2> QED
    BY <1>1, <1>2, <1>8, <1>9, <2>1, <2>2, <2>3 DEF Promise!PlaceLate
<1>11. CASE ~Late(c)
  <2>1. TurnOf(c) \in Payment /\ DealOf(c) = q
    BY <1>0, <1>2, <1>5, <1>11 DEF TurnsAreClear, DealOf, Late
  <2>2. available' = available
    BY <1>0, <1>11 DEF PlaceOrder, ClaimStock
  <2>3. [d \in Checkout |-> DealOf(d)'] = [d \in Checkout |-> DealOf(d)]
    BY <1>6, <1>7, <2>1
  <2> QED
    BY <1>1, <1>8, <1>9, <2>1, <2>2, <2>3 DEF Promise!Place
<1> QED
  BY <1>10, <1>11

\* A step of the checkout is one of the promise's, or leaves all it speaks of alone.
Kept ==
  \/ \E c \in Checkout : Promise!GiveUp(c) \/ Promise!PlaceLate(c)
  \/ \E c \in Checkout, p \in Payment : Promise!Wait(c, p) \/ Promise!Place(c, p)
  \/ \E p \in Payment : Promise!TakeOther(p)
  \/ UNCHANGED Promise!promiseVars

\* Applying the provider's view of a payment gives up, places, takes other money or rests.
LEMMA ApplyOutcomeKeepsPromise ==
  ASSUME IInv, IInv', NEW p \in Payment, payment[p].status # "NONE", ApplyOutcome(p)
  PROVE  Kept
<1>1. CASE payment[p].status = "CAPTURED" /\ Capture(p)
  BY <1>1, Rests DEF Capture, stockVars, PaymentRests, CheckoutRests, Kept
<1>2. CASE payment[p].status # "CAPTURED" /\ AttachExtraCapture(p)
  <2>1. payment[p].status # "PENDING"
    BY <1>2 DEF AttachExtraCapture, IInv, Core, Rows, HoldsWhilePaying, PendingPayments
  <2> QED
    BY <1>2, <2>1, MarkingTakesOther DEF AttachExtraCapture, Kept
<1>3. CASE payment[p].status # "CAPTURED" /\ CaptureWithoutOrder(p)
  <2>1. payment[p].status # "PENDING"
    BY <1>3, PendingQuoteMatches DEF CaptureWithoutOrder, IInv
  <2> QED
    BY <1>3, <2>1, MarkingTakesOther DEF CaptureWithoutOrder, Kept
<1>4. CASE payment[p].status # "CAPTURED" /\ CompleteCheckout(p)
  BY <1>4, CompletingPlaces DEF Kept
<1>5. CASE EndAttempt(p, "FAILED") \/ EndAttempt(p, "CANCELLED")
  BY <1>5, EndAttemptGivesUp DEF Kept
<1> QED
  BY <1>1, <1>2, <1>3, <1>4, <1>5 DEF ApplyOutcome, Capture

\* A step of the shopper's checkout keeps the promise: pricing, paying, abandoning, expiring.
LEMMA CheckoutStepKeepsPromise ==
  ASSUME IInv, IInv', NEW c \in Checkout, CheckoutStep(c)
  PROVE  Kept
<1>1. ASSUME NEW p \in Payment, NEW q \in Quote, ReserveForPayment(c, p, q)
      PROVE  Kept
  BY <1>1, ReserveWaits DEF Kept
<1>2. ASSUME NEW k \in Cart, NEW q \in Quote, StartCheckout(c, k, q)
      PROVE  Kept
  BY <1>2, Rests
     DEF StartCheckout, stockVars, PaymentRests, CheckoutRests, IInv, Core, CoreType, Kept
<1>3. ASSUME NEW q \in Quote, checkout[c].status = "OPEN",
             checkout' = [checkout EXCEPT ![c].quote = q], UNCHANGED <<payment, stockVars>>
      PROVE  Kept
  BY <1>3, Rests
     DEF stockVars, PaymentRests, CheckoutRests, IInv, Core, CoreType, CheckoutRow, Kept
<1>4. CASE AbandonPayment(c)
  <2>1. checkout[c].status = "OPEN"
    BY <1>4 DEF AbandonPayment, IInv, Core, Rows
  <2> QED
    BY <1>3, <1>4, <2>1 DEF AbandonPayment
<1>5. CASE CheckoutExpires(c)
  BY <1>5, Rests
     DEF CheckoutExpires, stockVars, PaymentRests, CheckoutRests, IInv, Core, CoreType,
         CheckoutRow, Kept
<1>6. CASE SweepCheckout(c)
  BY <1>6, Rests
     DEF SweepCheckout, stockVars, PaymentRests, CheckoutRests, IInv, Core, CoreType,
         CheckoutRow, Kept
<1>7. CASE PurgeCheckout(c)
  BY <1>7, Rests
     DEF PurgeCheckout, stockVars, PaymentRests, CheckoutRests, IInv, Core, CoreType,
         CheckoutRow, Kept
<1>8. CASE UNCHANGED <<checkout, payment, stockVars>>
  BY <1>8, Rests DEF stockVars, PaymentRests, CheckoutRests, Kept
<1> QED
  BY <1>1, <1>2, <1>3, <1>4, <1>5, <1>6, <1>7, <1>8
     DEF CheckoutStep, Reprice, BeginPayment, ConfirmPayment, CancelPayment

\* A step of a payment keeps the promise: its link, its webhooks, its sweep, a begin that dies.
LEMMA PaymentStepKeepsPromise ==
  ASSUME IInv, IInv', NEW p \in Payment, PaymentStep(p)
  PROVE  Kept
<1>1. CASE UNCHANGED <<checkout, payment, stockVars>>
  BY <1>1, Rests DEF stockVars, PaymentRests, CheckoutRests, Kept
<1>2. CASE StartFailed(p)
  BY <1>2, EndAttemptGivesUp DEF StartFailed, Kept
<1>3. CASE Webhook(p)
  <2>1. payment[p].ref => payment[p].status # "NONE"
    BY DEF IInv, Core, Rows
  <2> QED
    BY <1>1, <1>3, <2>1, ApplyOutcomeKeepsPromise DEF Webhook
<1>4. CASE RecordLink(p) \/ PaymentWindowEnds(p)
  <2>1. /\ \A r \in Payment : PaymentRests(r)
        /\ UNCHANGED <<checkout, stockVars>>
    BY <1>4
       DEF RecordLink, PaymentWindowEnds, PaymentRests, IInv, Core, CoreType, PaymentRow
  <2> QED
    BY <2>1, Rests DEF stockVars, CheckoutRests, Kept
<1> QED
  BY <1>1, <1>2, <1>3, <1>4
     DEF PaymentStep, ProviderCreatesLink, CreatePaymentFails, DropLink, BeginPaymentDies,
         LinkEnds, SweepPayment

\* A step of a call that reconciles or ends attempts keeps the promise, whatever it
\* read before.
LEMMA CallStepKeepsPromise ==
  ASSUME IInv, IInv', NEW call \in calls, CallStep(call)
  PROVE  Kept
<1>1. CASE UNCHANGED <<checkout, payment, stockVars>>
  BY <1>1, Rests DEF stockVars, PaymentRests, CheckoutRests, Kept
<1>2. CASE Ask(call)
  <2>1. call.payment \in Payment /\ payment[call.payment].status # "NONE"
    BY <1>2 DEF Ask, IInv, Outer, Memories
  <2> QED
    BY <1>1, <1>2, <2>1, ApplyOutcomeKeepsPromise
       DEF Ask, AskConfirm, AskCaptured, AskNotCaptured
<1>3. CASE EndCall(call)
  <2>1. \A r \in CallTargets(call) : r \in Payment /\ payment[r].status # "NONE"
    BY <1>3 DEF EndCall, CallTargets, PendingPayments, IInv, Outer, OuterType, Memories, Call
  <2> QED
    BY <1>1, <1>3, <2>1, EndAttemptGivesUp DEF EndCall, Kept
<1> QED
  BY <1>1, <1>2, <1>3 DEF CallStep, StopLink, CallFails

\* Whatever links, webhooks, sweeps, crashes and stale reads do between the transactions
\* of packages/commerce/src/checkout, each transaction is one step of the promise or none.
THEOREM CheckoutKeepsPromise == Spec => PromiseKept
<1>1. Init => Promise!Init
  BY DEF Init, Promise!Init, TurnOf, DealOf, NoRow, NoPayment
<1>2. IInv /\ IInv' /\ [Next]_vars => [Promise!Next]_(Promise!promiseVars)
  <2> SUFFICES ASSUME IInv, IInv', [Next]_vars
               PROVE  [Promise!Next]_(Promise!promiseVars)
    OBVIOUS
  <2>1. Kept
    <3>1. CASE UNCHANGED vars
      BY <3>1, Rests DEF vars, PaymentRests, CheckoutRests, Kept
    <3> QED
      BY <3>1, CheckoutStepKeepsPromise, PaymentStepKeepsPromise, CallStepKeepsPromise
         DEF Next
  <2>2. ASSUME NEW c \in Checkout,
               \/ Promise!GiveUp(c)
               \/ Promise!PlaceLate(c)
               \/ \E p \in Payment : Promise!Wait(c, p) \/ Promise!Place(c, p)
        PROVE  TurnOf(c)' # TurnOf(c)
    BY <2>2, TurnAssumption
       DEF Promise!GiveUp, Promise!PlaceLate, Promise!Wait, Promise!Place
  <2>3. ASSUME NEW p \in Payment, Promise!TakeOther(p)
        PROVE  {r \in Payment : payment[r].status = "CAPTURED"}'
                 # {r \in Payment : payment[r].status = "CAPTURED"}
    BY <2>3 DEF Promise!TakeOther
  <2> QED
    BY <2>1, <2>2, <2>3 DEF Kept, Promise!Next
<1> QED
  BY <1>1, <1>2, Invariance, PTL DEF Spec, PromiseKept, Promise!Spec

-----------------------------------------------------------------------------
(* The ledgers of stock and of discount uses.  A sum over the checkouts    *)
(* started and the sizes of two sets; what a step does to them is one of   *)
(* five things.                                                            *)

\* The units a checkout holds or its order keeps.
Claims == [c \in Checkout |-> held[c] + sold[c]]

\* The uses counted: reserved for a payment, or granted to an order.
Reserved == {c \in Checkout : redemption[c] = "RESERVED"}
Granted == {o \in orders : Discounted[o.quote] /\ ~o.overLimit}

\* The ledgers, with what a sum and a size need: only finitely many are summed.
StockInv ==
  /\ IsFiniteSet(Started)
  /\ available + reserved = OnHand
  /\ reserved = SumFunctionOnSet(Claims, Started)

DiscountInv ==
  /\ IsFiniteSet(Reserved)
  /\ IsFiniteSet(Granted)
  /\ DiscountLedger

LInv == StockInv /\ DiscountInv /\ OversellIsFlagged

\* A checkout begins; takes stock and a use for its payment; gives both back; or a
\* payment places its order.
Starts(c) ==
  /\ checkout[c].status = "NONE"
  /\ Started' = Started \cup {c}
  /\ UNCHANGED <<stockVars, discountVars, orders>>

Reserves(c, q) ==
  /\ checkout[c].status = "OPEN"
  /\ Started' = Started
  /\ Units[q] <= available \/ Oversell
  /\ Discounted[q] => uses < UsageLimit
  /\ available' = available - Units[q]
  /\ reserved' = reserved + Units[q]
  /\ held' = [held EXCEPT ![c] = @ + Units[q]]
  /\ uses' = IF Discounted[q] THEN uses + 1 ELSE uses
  /\ redemption' = [redemption EXCEPT ![c] = IF Discounted[q] THEN "RESERVED" ELSE @]
  /\ UNCHANGED <<sold, orders>>

Releases(c) ==
  /\ checkout[c].status = "PAYMENT_PENDING"
  /\ Started' = Started
  /\ ReleaseStock(c)
  /\ ReleaseDiscountUse(c)
  /\ UNCHANGED orders

Places(p) == payment[p].status \notin {"NONE", "CAPTURED"} /\ CompleteCheckout(p)

LedgerStep ==
  \/ UNCHANGED <<Started, stockVars, discountVars, orders>>
  \/ \E c \in Checkout : Starts(c) \/ Releases(c) \/ \E q \in Quote : Reserves(c, q)
  \/ \E p \in Payment : Places(p)

\* Ending an attempt releases what its checkout held, or does nothing.
LEMMA EndAttemptIsLedgerStep ==
  ASSUME IInv, NEW p \in Payment, payment[p].status # "NONE", NEW to \in {"FAILED", "CANCELLED"},
         EndAttempt(p, to), orders' = orders
  PROVE  LedgerStep
<1>1. PICK c \in Checkout : c = payment[p].checkout
  BY DEF IInv, Core, Rows
<1>2. CASE payment[p].status # "PENDING"
  BY <1>2 DEF EndAttempt, LedgerStep, Started
<1>3. CASE payment[p].status = "PENDING"
  <2>1. checkout[c].status = "PAYMENT_PENDING"
    BY <1>1, <1>3 DEF IInv, Core, HoldsWhilePaying, PendingPayments
  <2>2. /\ checkout' = [checkout EXCEPT ![c].status = "OPEN"]
        /\ ReleaseStock(c) /\ ReleaseDiscountUse(c)
    BY <1>1, <1>3, <2>1 DEF EndAttempt
  <2>3. Started' = Started
    BY <2>1, <2>2 DEF Started, IInv, Core, CoreType, CheckoutRow
  <2> QED
    BY <2>1, <2>2, <2>3 DEF LedgerStep, Releases
<1> QED
  BY <1>2, <1>3

\* An outcome of the provider places an order, releases what was held, or marks a payment.
LEMMA ApplyOutcomeIsLedgerStep ==
  ASSUME IInv, NEW p \in Payment, payment[p].status # "NONE", ApplyOutcome(p)
  PROVE  LedgerStep
<1>1. CASE Capture(p)
  BY <1>1
     DEF Capture, AttachExtraCapture, CaptureWithoutOrder, LedgerStep, Places, Started
<1>2. CASE (EndAttempt(p, "FAILED") \/ EndAttempt(p, "CANCELLED")) /\ orders' = orders
  BY <1>2, EndAttemptIsLedgerStep
<1> QED
  BY <1>1, <1>2 DEF ApplyOutcome

\* Every step of the system is one of the five.
LEMMA NextIsLedgerStep ==
  ASSUME IInv, [Next]_vars
  PROVE  LedgerStep
<1> USE DEF IInv, Core
<1>0. CASE UNCHANGED <<checkout, stockVars, discountVars, orders>>
  BY <1>0 DEF LedgerStep, Started
<1>1. ASSUME NEW c \in Checkout, CheckoutStep(c)
      PROVE  LedgerStep
  <2>1. ASSUME NEW k \in Cart, NEW q \in Quote, StartCheckout(c, k, q)
        PROVE  LedgerStep
    <3>1. Started' = Started \cup {c}
      BY <2>1 DEF StartCheckout, Started, CoreType
    <3> QED
      BY <2>1, <3>1 DEF StartCheckout, LedgerStep, Starts
  <2>2. ASSUME NEW p \in Payment, NEW q \in Quote, ReserveForPayment(c, p, q)
        PROVE  LedgerStep
    <3>1. checkout[c].status = "OPEN"
      BY <2>2 DEF ReserveForPayment, Rows
    <3>2. Started' = Started
      BY <2>2, <3>1 DEF ReserveForPayment, Started, CoreType, CheckoutRow
    <3>3. Reserves(c, q)
      BY <2>2, <3>1, <3>2 DEF ReserveForPayment, Reserves
    <3> QED
      BY <3>3 DEF LedgerStep
  <2>3. ASSUME checkout[c].status # "NONE", UNCHANGED <<stockVars, discountVars, orders>>,
               NEW row \in CheckoutRow, row.status # "NONE",
               checkout' = [checkout EXCEPT ![c] = row]
        PROVE  LedgerStep
    <3>1. Started' = Started
      BY <2>3 DEF Started, CoreType
    <3> QED
      BY <2>3, <3>1 DEF LedgerStep
  <2>4. checkout[c] \in CheckoutRow
    BY DEF CoreType
  <2>5. ASSUME NEW q \in Quote \cup {None}, checkout' = [checkout EXCEPT ![c].quote = q],
               checkout[c].status # "NONE", UNCHANGED <<stockVars, discountVars, orders>>
        PROVE  LedgerStep
    <3> DEFINE row == [checkout[c] EXCEPT !.quote = q]
    <3>1. row \in CheckoutRow /\ row.status = checkout[c].status
      BY <2>4 DEF CheckoutRow
    <3>2. checkout' = [checkout EXCEPT ![c] = row]
      BY <2>5
    <3> HIDE DEF row
    <3> QED
      BY <2>3, <2>5, <3>1, <3>2
  <2>6. CASE AbandonPayment(c)
    BY <2>5, <2>6 DEF AbandonPayment, Rows
  <2>7. CASE CheckoutExpires(c)
    <3> DEFINE row == [checkout[c] EXCEPT !.expired = TRUE]
    <3>1. row \in CheckoutRow /\ row.status = checkout[c].status
      BY <2>4 DEF CheckoutRow
    <3>2. checkout' = [checkout EXCEPT ![c] = row]
      BY <2>7 DEF CheckoutExpires
    <3> HIDE DEF row
    <3> QED
      BY <2>3, <2>7, <3>1, <3>2 DEF CheckoutExpires
  <2>8. CASE SweepCheckout(c)
    <3> DEFINE row == [checkout[c] EXCEPT !.status = "EXPIRED"]
    <3>1. row \in CheckoutRow /\ row.status = "EXPIRED"
      BY <2>4 DEF CheckoutRow
    <3>2. checkout' = [checkout EXCEPT ![c] = row]
      BY <2>8 DEF SweepCheckout
    <3> HIDE DEF row
    <3> QED
      BY <2>3, <2>8, <3>1, <3>2 DEF SweepCheckout
  <2> QED
    BY <1>0, <1>1, <2>1, <2>2, <2>5, <2>6, <2>7, <2>8
       DEF CheckoutStep, Reprice, BeginPayment, ConfirmPayment, CancelPayment, PurgeCheckout
<1>2. ASSUME NEW p \in Payment, PaymentStep(p)
      PROVE  LedgerStep
  <2>1. CASE StartFailed(p)
    BY <2>1, EndAttemptIsLedgerStep DEF StartFailed
  <2>2. CASE Webhook(p)
    <3>1. payment[p].ref => payment[p].status # "NONE"
      BY DEF Rows
    <3> QED
      BY <1>0, <2>2, <3>1, ApplyOutcomeIsLedgerStep DEF Webhook
  <2> QED
    BY <1>0, <1>2, <2>1, <2>2
       DEF PaymentStep, ProviderCreatesLink, CreatePaymentFails, RecordLink, DropLink,
           BeginPaymentDies, LinkEnds, SweepPayment, PaymentWindowEnds
<1>3. ASSUME NEW call \in calls, CallStep(call)
      PROVE  LedgerStep
  <2>1. CASE Ask(call)
    <3>1. call.payment \in Payment /\ payment[call.payment].status # "NONE"
      BY <2>1 DEF Ask, Outer, Memories
    <3> QED
      BY <1>0, <2>1, <3>1, ApplyOutcomeIsLedgerStep
         DEF Ask, AskConfirm, AskCaptured, AskNotCaptured
  <2>2. CASE EndCall(call)
    <3>1. \A r \in CallTargets(call) : r \in Payment /\ payment[r].status # "NONE"
      BY <2>2 DEF EndCall, CallTargets, PendingPayments, Outer, OuterType, Memories, Call
    <3> QED
      BY <1>0, <2>2, <3>1, EndAttemptIsLedgerStep DEF EndCall
  <2> QED
    BY <1>0, <1>3, <2>1, <2>2 DEF CallStep, StopLink, CallFails
<1>4. CASE UNCHANGED vars
  BY <1>0, <1>4 DEF vars, stockVars, discountVars
<1> QED
  BY <1>1, <1>2, <1>3, <1>4 DEF Next

-----------------------------------------------------------------------------
(* The stock ledger.                                                       *)

\* Units that move between the shelf and one checkout's claim leave the books balanced.
LEMMA ClaimMoves ==
  ASSUME IInv, IInv', StockInv, NEW c \in Started, NEW n \in Int, Started' = Started,
         available' = available - n, reserved' = reserved + n,
         held'[c] + sold'[c] = held[c] + sold[c] + n,
         \A d \in Checkout \ {c} : held'[d] = held[d] /\ sold'[d] = sold[d]
  PROVE  StockInv'
<1>1. PICK f : f = Claims
  OBVIOUS
<1>2. PICK g : g = Claims'
  OBVIOUS
<1>3. \A d \in Started : f[d] \in Int /\ g[d] \in Int
  BY <1>1, <1>2 DEF Claims, Started, IInv, Core, CoreType
<1>4. \A d \in Started \ {c} : g[d] = f[d]
  BY <1>1, <1>2 DEF Claims, Started
<1>5. g[c] = f[c] + n
  BY <1>1, <1>2 DEF Claims, Started
<1>6. SumFunctionOnSet(g, Started) = SumFunctionOnSet(f, Started) - f[c] + g[c]
  BY <1>3, <1>4, SumOfChanged DEF StockInv
<1>7. SumFunctionOnSet(f, Started) \in Int /\ f[c] \in Int
  BY <1>3, SumIsInt DEF StockInv
<1>8. SumFunctionOnSet(g, Started) = SumFunctionOnSet(f, Started) + n
  BY <1>5, <1>6, <1>7
<1>9. available \in Int /\ reserved \in Int /\ OnHand \in Int
  BY CatalogueAssumption DEF IInv, Core, CoreType
<1>10. available' + reserved' = OnHand
  BY <1>9 DEF StockInv
<1> QED
  BY <1>1, <1>2, <1>8, <1>10 DEF StockInv

\* Whatever a step does to the stock, the ledger balances after it.
LEMMA StockStays ==
  ASSUME IInv, IInv', StockInv, LedgerStep
  PROVE  StockInv'
<1> USE DEF IInv, Core
<1>1. CASE UNCHANGED <<Started, stockVars, discountVars, orders>>
  BY <1>1 DEF StockInv, Claims, stockVars
<1>2. ASSUME NEW c \in Checkout, Starts(c)
      PROVE  StockInv'
  <2>1. PICK f : f = Claims
    OBVIOUS
  <2>2. f[c] = 0 /\ c \notin Started /\ \A d \in Checkout : f[d] \in Int
    BY <1>2, <2>1 DEF Starts, Claims, Started, CoreType, Rows, HoldsWhilePaying
  <2>3. \A d \in Started \cup {c} : f[d] \in Int
    BY <2>2 DEF Started
  <2>4. SumFunctionOnSet(f, Started \cup {c}) = SumFunctionOnSet(f, Started) + f[c]
    BY <2>2, <2>3, SumWith DEF StockInv
  <2>5. SumFunctionOnSet(f, Started) \in Int /\ IsFiniteSet(Started \cup {c})
    BY <2>3, SumIsInt, FS_AddElement DEF StockInv
  <2>6. SumFunctionOnSet(f, Started \cup {c}) = SumFunctionOnSet(f, Started)
    BY <2>2, <2>4, <2>5
  <2>7. Claims' = f
    BY <1>2, <2>1 DEF Starts, Claims, stockVars
  <2> QED
    BY <1>2, <2>1, <2>5, <2>6, <2>7 DEF Starts, StockInv, stockVars
<1>3. ASSUME NEW c \in Checkout, NEW q \in Quote, Reserves(c, q)
      PROVE  StockInv'
  <2>1. c \in Started /\ Units[q] \in Int
    BY <1>3, CatalogueAssumption DEF Reserves, Started
  <2>2. /\ held'[c] = held[c] + Units[q] /\ sold' = sold
        /\ \A d \in Checkout \ {c} : held'[d] = held[d]
        /\ held[c] \in Int /\ sold[c] \in Int
    BY <1>3 DEF Reserves, CoreType
  <2>3. held'[c] + sold'[c] = held[c] + sold[c] + Units[q]
    BY <2>1, <2>2
  <2> QED
    BY <1>3, <2>1, <2>2, <2>3, ClaimMoves DEF Reserves
<1>4. ASSUME NEW c \in Checkout, Releases(c)
      PROVE  StockInv'
  <2>1. PICK n \in Int : n = 0 - held[c]
    BY DEF CoreType
  <2>2. c \in Started
    BY <1>4 DEF Releases, Started
  <2>3. /\ held'[c] = 0 /\ sold' = sold
        /\ \A d \in Checkout \ {c} : held'[d] = held[d]
        /\ held[c] \in Int /\ sold[c] \in Int
    BY <1>4 DEF Releases, ReleaseStock, CoreType
  <2>4. held'[c] + sold'[c] = held[c] + sold[c] + n
    BY <2>1, <2>3
  <2>5. available' = available - n /\ reserved' = reserved + n
    BY <1>4, <2>1 DEF Releases, ReleaseStock, CoreType
  <2>6. Started' = Started
    BY <1>4 DEF Releases
  <2> QED
    BY <2>2, <2>3, <2>4, <2>5, <2>6, ClaimMoves
<1>5. ASSUME NEW p \in Payment, Places(p)
      PROVE  StockInv'
  <2>1. PICK c \in Checkout : c = payment[p].checkout
    BY <1>5 DEF Places, Rows
  <2>2. PICK q \in Quote : q = checkout[c].quote
    BY <1>5, <2>1 DEF Places, CompleteCheckout, QuoteMatches, CoreType, CheckoutRow
  <2>3. /\ ClaimStock(c, Units[q], Late(c))
        /\ checkout' = [checkout EXCEPT ![c].status = "COMPLETED"]
    BY <1>5, <2>1, <2>2 DEF Places, CompleteCheckout, PlaceOrder
  <2>4. c \in Started /\ Started' = Started
    <3>1. c \in Started
      BY <1>5, <2>1 DEF Places, Rows, Started
    <3>2. \A d \in Checkout : checkout'[d].status = IF d = c THEN "COMPLETED"
                                                     ELSE checkout[d].status
      BY <2>3 DEF CoreType, CheckoutRow
    <3> QED
      BY <3>1, <3>2 DEF Started
  <2>5. PICK n \in Int : n = IF Late(c) THEN Units[q] ELSE 0
    BY CatalogueAssumption
  <2>6. available' = available - n /\ reserved' = reserved + n
    BY <2>3, <2>5 DEF ClaimStock, CoreType
  <2>7. /\ held'[c] = 0 /\ sold'[c] = sold[c] + held[c] + n
        /\ \A d \in Checkout \ {c} : held'[d] = held[d] /\ sold'[d] = sold[d]
        /\ held[c] \in Int /\ sold[c] \in Int
    BY <2>3, <2>5 DEF ClaimStock, CoreType
  <2>8. held'[c] + sold'[c] = held[c] + sold[c] + n
    BY <2>7
  <2> QED
    BY <2>4, <2>6, <2>7, <2>8, ClaimMoves
<1> QED
  BY <1>1, <1>2, <1>3, <1>4, <1>5 DEF LedgerStep

-----------------------------------------------------------------------------
(* The discount ledger.                                                    *)

\* What a placed order is, and that the checkout had none before.
LEMMA PlacedOrder ==
  ASSUME IInv, NEW p \in Payment, Places(p)
  PROVE  \E c \in Checkout, q \in Quote, o \in OrderRow :
           /\ c = payment[p].checkout /\ q = checkout[c].quote
           /\ PlaceOrder(p, c, q)
           /\ o \notin orders /\ orders' = orders \cup {o}
           /\ o.quote = q /\ o.shortage = Short(c) /\ o.overLimit = OverLimit(c)
<1> USE DEF IInv, Core
<1>1. PICK c \in Checkout : c = payment[p].checkout
  BY DEF Places, Rows
<1>2. PICK q \in Quote : q = checkout[c].quote
  BY <1>1 DEF Places, CompleteCheckout, QuoteMatches, CoreType, CheckoutRow
<1>3. checkout[c].status # "COMPLETED" /\ PlaceOrder(p, c, q)
  BY <1>1, <1>2 DEF Places, CompleteCheckout
<1>4. PICK o : o = [checkout |-> c, payment |-> p, quote |-> q,
                    shortage |-> Short(c), overLimit |-> OverLimit(c)]
  OBVIOUS
<1>5. Short(c) \in BOOLEAN /\ OverLimit(c) \in BOOLEAN
  BY DEF Short, OverLimit
<1>6. o \in OrderRow
  BY <1>4, <1>5 DEF OrderRow
<1>7. o \notin orders
  BY <1>3, <1>4 DEF OneOrderPerCheckout
<1>8. orders' = orders \cup {o}
  BY <1>3, <1>4 DEF PlaceOrder
<1> QED
  BY <1>1, <1>2, <1>3, <1>4, <1>6, <1>7, <1>8

\* One use more or less in one of the two sets is one more or less in the count.
LEMMA UsesStay ==
  ASSUME IInv, IInv', DiscountInv, LedgerStep
  PROVE  DiscountInv'
<1> USE DEF IInv, Core
<1> DEFINE R == Cardinality(Reserved)
           G == Cardinality(Granted)
<1>0. /\ R \in Nat /\ G \in Nat /\ uses = R + G /\ uses <= UsageLimit
      /\ UsageLimit \in Nat /\ \A q \in Quote : Discounted[q] \in BOOLEAN
      /\ IsFiniteSet(Reserved) /\ IsFiniteSet(Granted)
  BY FS_CardinalityType, CatalogueAssumption DEF DiscountInv, DiscountLedger, Reserved, Granted
<1> SUFFICES /\ IsFiniteSet(Reserved') /\ IsFiniteSet(Granted')
             /\ uses' = Cardinality(Reserved') + Cardinality(Granted')
             /\ uses' <= UsageLimit
  BY DEF DiscountInv, DiscountLedger, Reserved, Granted
<1>1. CASE UNCHANGED <<Reserved, Granted, uses>>
  BY <1>0, <1>1
<1>2. CASE UNCHANGED <<discountVars, orders>>
  BY <1>1, <1>2 DEF Reserved, Granted, discountVars
<1>3. ASSUME NEW c \in Checkout, NEW q \in Quote, Reserves(c, q)
      PROVE  /\ IsFiniteSet(Reserved') /\ IsFiniteSet(Granted')
             /\ uses' = Cardinality(Reserved') + Cardinality(Granted')
             /\ uses' <= UsageLimit
  <2>1. Granted' = Granted /\ c \notin Reserved
    BY <1>3 DEF Reserves, Granted, Reserved, HoldsWhilePaying
  <2>2. CASE Discounted[q]
    <3>1. Reserved' = Reserved \cup {c} /\ uses' = uses + 1 /\ uses < UsageLimit
      BY <1>3, <2>2 DEF Reserves, Reserved, CoreType
    <3>2. IsFiniteSet(Reserved') /\ Cardinality(Reserved') = R + 1
      BY <1>0, <2>1, <3>1, FS_AddElement
    <3> QED
      BY <1>0, <2>1, <3>1, <3>2
  <2>3. CASE ~Discounted[q]
    <3>1. Reserved' = Reserved /\ uses' = uses
      BY <1>3, <2>3 DEF Reserves, Reserved, CoreType
    <3> QED
      BY <1>1, <2>1, <3>1
  <2> QED
    BY <2>2, <2>3
<1>4. ASSUME NEW c \in Checkout, Releases(c)
      PROVE  /\ IsFiniteSet(Reserved') /\ IsFiniteSet(Granted')
             /\ uses' = Cardinality(Reserved') + Cardinality(Granted')
             /\ uses' <= UsageLimit
  <2>1. Granted' = Granted
    BY <1>4 DEF Releases, Granted
  <2>2. CASE redemption[c] = "RESERVED"
    <3>1. Reserved' = Reserved \ {c} /\ c \in Reserved
      BY <1>4, <2>2 DEF Releases, ReleaseDiscountUse, Reserved, CoreType
    <3>2. IsFiniteSet(Reserved') /\ Cardinality(Reserved') = R - 1 /\ R # 0
      BY <1>0, <3>1, FS_RemoveElement, FS_EmptySet
    <3>3. uses' = uses - 1
      BY <1>0, <1>4, <2>2, <3>2 DEF Releases, ReleaseDiscountUse
    <3> QED
      BY <1>0, <2>1, <3>2, <3>3
  <2>3. CASE redemption[c] # "RESERVED"
    BY <1>2, <1>4, <2>3 DEF Releases, ReleaseDiscountUse
  <2> QED
    BY <2>2, <2>3
<1>5. ASSUME NEW p \in Payment, Places(p)
      PROVE  /\ IsFiniteSet(Reserved') /\ IsFiniteSet(Granted')
             /\ uses' = Cardinality(Reserved') + Cardinality(Granted')
             /\ uses' <= UsageLimit
  <2>1. PICK c \in Checkout, q \in Quote, o \in OrderRow :
          /\ q = checkout[c].quote
          /\ PlaceOrder(p, c, q)
          /\ o \notin orders /\ orders' = orders \cup {o}
          /\ o.quote = q /\ o.overLimit = OverLimit(c)
    BY <1>5, PlacedOrder
  <2>2. CASE Discounted[q] /\ ~OverLimit(c)
    <3>0. OverLimit(c) = FALSE
      BY <2>2 DEF OverLimit
    <3>1. ClaimDiscountUse(c, FALSE)
      BY <2>1, <2>2, <3>0 DEF PlaceOrder
    <3>2. Granted' = Granted \cup {o} /\ o \notin Granted
      BY <2>1, <2>2 DEF Granted
    <3>3. IsFiniteSet(Granted') /\ Cardinality(Granted') = G + 1
      BY <1>0, <3>2, FS_AddElement
    <3>4. Reserved' = Reserved \ {c}
      BY <3>1 DEF ClaimDiscountUse, Reserved, CoreType
    <3>5. CASE c \in Reserved
      <4>1. IsFiniteSet(Reserved') /\ Cardinality(Reserved') = R - 1
        BY <1>0, <3>4, <3>5, FS_RemoveElement
      <4>2. uses' = uses
        BY <3>1, <3>5 DEF ClaimDiscountUse, Reserved
      <4> QED
        BY <1>0, <3>3, <4>1, <4>2
    <3>6. CASE c \notin Reserved
      <4>1. Reserved' = Reserved
        BY <3>4, <3>6
      <4>2. uses' = uses + 1
        BY <3>1, <3>6 DEF ClaimDiscountUse, Reserved
      <4>3. uses < UsageLimit
        BY <1>0, <2>1, <2>2, <3>6 DEF OverLimit, Reserved
      <4> QED
        BY <1>0, <3>3, <4>1, <4>2, <4>3
    <3> QED
      BY <3>5, <3>6
  <2>3. CASE Discounted[q] /\ OverLimit(c)
    <3>1. ClaimDiscountUse(c, TRUE) /\ redemption[c] # "RESERVED"
      BY <2>1, <2>3 DEF PlaceOrder, OverLimit
    <3>2. Granted' = Granted
      BY <2>1, <2>3 DEF Granted
    <3>3. Reserved' = Reserved /\ uses' = uses
      BY <3>1 DEF ClaimDiscountUse, Reserved, CoreType
    <3> QED
      BY <1>1, <3>2, <3>3
  <2>4. CASE ~Discounted[q]
    <3>1. UNCHANGED discountVars
      BY <2>1, <2>4 DEF PlaceOrder
    <3>2. Granted' = Granted
      BY <2>1, <2>4 DEF Granted
    <3> QED
      BY <1>1, <3>1, <3>2 DEF Reserved, discountVars
  <2> QED
    BY <2>2, <2>3, <2>4
<1> QED
  BY <1>2, <1>3, <1>4, <1>5 DEF LedgerStep, Starts

-----------------------------------------------------------------------------
(* Shortages are told.                                                     *)

\* Only a late capture takes stock below zero, and its order says so.
LEMMA ShortagesStayTold ==
  ASSUME IInv, IInv', OversellIsFlagged, LedgerStep
  PROVE  OversellIsFlagged'
<1> USE DEF IInv, Core
<1>1. CASE UNCHANGED <<stockVars, orders>>
  BY <1>1 DEF OversellIsFlagged, stockVars
<1>2. ASSUME NEW c \in Checkout, NEW q \in Quote, Reserves(c, q)
      PROVE  OversellIsFlagged'
  BY <1>2, CatalogueAssumption DEF Reserves, OversellIsFlagged, CoreType
<1>3. ASSUME NEW c \in Checkout, Releases(c)
      PROVE  OversellIsFlagged'
  BY <1>3 DEF Releases, ReleaseStock, OversellIsFlagged, CoreType
<1>4. ASSUME NEW p \in Payment, Places(p)
      PROVE  OversellIsFlagged'
  <2>1. PICK c \in Checkout, q \in Quote, o \in OrderRow :
          /\ q = checkout[c].quote
          /\ PlaceOrder(p, c, q)
          /\ orders' = orders \cup {o}
          /\ o.shortage = Short(c)
    BY <1>4, PlacedOrder
  <2>2. Units[q] \in Nat /\ available \in Int
    BY CatalogueAssumption DEF CoreType
  <2>3. available' = IF Late(c) THEN available - Units[q] ELSE available
    BY <2>1 DEF PlaceOrder, ClaimStock
  <2>4. CASE Late(c)
    <3>1. available' < 0 /\ ~Oversell => Short(c)
      BY <2>1, <2>2, <2>3, <2>4 DEF Short
    <3> QED
      BY <2>1, <3>1 DEF OversellIsFlagged
  <2>5. CASE ~Late(c)
    BY <2>1, <2>3, <2>5 DEF OversellIsFlagged
  <2> QED
    BY <2>4, <2>5
<1> QED
  BY <1>1, <1>2, <1>3, <1>4 DEF LedgerStep, Starts

-----------------------------------------------------------------------------
\* The books are right from the empty shop on: the invariant of the ledgers, which rests
\* on that of the rows before and after a step.
THEOREM LedgersBalance == Spec => []LInv
<1>1. Init => LInv
  <2> SUFFICES ASSUME Init PROVE LInv
    OBVIOUS
  <2>1. Started = {} /\ Reserved = {} /\ Granted = {}
    BY DEF Init, Started, Reserved, Granted, NoRow
  <2>2. IsFiniteSet({}) /\ Cardinality({}) = 0
    BY FS_EmptySet
  <2>3. SumFunctionOnSet(Claims, {}) = 0
    BY SumOfNone
  <2>4. StockInv
    BY <2>1, <2>2, <2>3, CatalogueAssumption DEF Init, StockInv
  <2>5. DiscountInv
    <3>1. IsFiniteSet(Reserved) /\ IsFiniteSet(Granted)
      BY <2>1, <2>2
    <3>2. uses = Cardinality(Reserved) + Cardinality(Granted)
      BY <2>1, <2>2 DEF Init
    <3>3. uses <= UsageLimit
      BY CatalogueAssumption DEF Init
    <3> QED
      BY <3>1, <3>2, <3>3 DEF DiscountInv, DiscountLedger, Reserved, Granted
  <2> QED
    BY <2>4, <2>5, CatalogueAssumption DEF Init, LInv, OversellIsFlagged
<1>2. IInv /\ IInv' /\ LInv /\ [Next]_vars => LInv'
  BY NextIsLedgerStep, StockStays, UsesStay, ShortagesStayTold DEF LInv
<1> QED
  BY <1>1, <1>2, Invariance, PTL DEF Spec

\* No order of attempts, cancellations, late captures and crashes makes or loses a unit
\* of stock: what is reserved is what checkouts hold and orders keep.
THEOREM StockAddsUp == Spec => []StockLedger
<1>1. IInv /\ LInv => StockLedger
  <2> SUFFICES ASSUME IInv, LInv PROVE StockLedger
    OBVIOUS
  <2>1. PICK f : f = Claims
    OBVIOUS
  <2>2. \A c \in Started : f[c] \in Nat
    BY <2>1 DEF Claims, Started, IInv, Core, CoreType
  <2>3. SumFunctionOnSet(f, Started) \in Nat
    BY <2>2, SumIsNat DEF LInv, StockInv
  <2> QED
    BY <2>1, <2>3 DEF LInv, StockInv, StockLedger, Claims
<1> QED
  BY <1>1, LedgersBalance, Invariance, PTL

\* The last use of a discount is never sold twice, and its count is exact.
THEOREM DiscountAddsUp == Spec => []DiscountLedger
BY LedgersBalance, PTL DEF LInv, DiscountInv

\* Nobody is oversold in silence.
THEOREM ShortagesAreTold == Spec => []OversellIsFlagged
BY LedgersBalance, PTL DEF LInv

-----------------------------------------------------------------------------
(* The provider's side: what its links say and what the rows say of money. *)

\* A link exists once the provider made it; only a recorded link is paid; a delivery
\* that was processed had an end to tell, and a capture it told of is recorded; nothing
\* is recorded as captured that the provider did not capture.
LinkInv ==
  \A p \in Payment :
    /\ attempt[p] \in {"none", "creating"} => link[p] = "none"
    /\ link[p] \in {"captured", "mispaid", "failed"} => payment[p].ref
    /\ p \in settled => LinkEnded(p)
    /\ p \in settled /\ link[p] = "captured" => payment[p].status = "CAPTURED"
    /\ payment[p].status = "CAPTURED" => link[p] = "captured"

\* What a step may do to a payment row, seen from its link: a reference and a capture
\* that were recorded stay, and a capture is recorded only of a link that was paid.
Records(p) ==
  /\ payment[p].ref => payment'[p].ref
  /\ payment[p].status = "CAPTURED" => payment'[p].status = "CAPTURED"
  /\ payment'[p].status = "CAPTURED" => payment[p].status = "CAPTURED" \/ link[p] = "captured"

\* Ending an attempt forgets neither a reference nor a capture.
LEMMA EndAttemptRecords ==
  ASSUME IInv, NEW p \in Payment, NEW to \in {"FAILED", "CANCELLED"}, EndAttempt(p, to)
  PROVE  \A r \in Payment : Records(r)
<1>1. CASE payment[p].status # "PENDING"
  BY <1>1 DEF EndAttempt, Records
<1>2. CASE payment[p].status = "PENDING"
  <2>1. payment' = [payment EXCEPT ![p].status = to]
    BY <1>2 DEF EndAttempt
  <2> QED
    BY <1>2, <2>1 DEF Records, IInv, Core, CoreType, PaymentRow
<1> QED
  BY <1>1, <1>2

\* Nor does an outcome of the provider, which records a capture of what was captured and
\* leaves every captured link it is applied to recorded.
LEMMA ApplyOutcomeRecords ==
  ASSUME IInv, NEW p \in Payment, payment[p].status # "NONE", ApplyOutcome(p)
  PROVE  /\ \A r \in Payment : Records(r)
         /\ link[p] = "captured" => payment'[p].status = "CAPTURED"
<1>1. CASE link[p] = "captured" /\ Capture(p)
  <2>1. CASE payment[p].status = "CAPTURED"
    BY <1>1, <2>1 DEF Capture, Records
  <2>2. CASE Captures(p)
    <3>1. payment'[p].status = "CAPTURED"
      BY <2>2, CaptureWrites
    <3>2. ASSUME NEW r \in Payment, payment[r].ref
          PROVE  payment'[r].ref
      <4>1. payment \in [Payment -> PaymentRow] /\ payment[r] \in PaymentRow
        BY DEF IInv, Core, CoreType
      <4>2. CASE AttachExtraCapture(p)
        BY <3>2, <4>1, <4>2 DEF AttachExtraCapture, PaymentRow
      <4>3. CASE CaptureWithoutOrder(p)
        BY <3>2, <4>1, <4>3 DEF CaptureWithoutOrder, PaymentRow
      <4>4. CASE CompleteCheckout(p)
        <5>1. \/ payment'[r] = payment[r]
              \/ payment'[r] = [payment[r] EXCEPT !.status = "CANCELLED"]
              \/ payment'[r] = [payment[r] EXCEPT !.status = "CAPTURED", !.order = TRUE]
          BY <4>4 DEF CompleteCheckout, PlaceOrder
        <5> QED
          BY <3>2, <4>1, <5>1 DEF PaymentRow
      <4> QED
        BY <2>2, <4>2, <4>3, <4>4 DEF Captures
    <3>3. ASSUME NEW r \in Payment \ {p}
          PROVE  Records(r)
      <4>1. payment[r].ref => payment'[r].ref
        BY <3>2
      <4>2. payment[r].status # "PENDING" => payment'[r] = payment[r]
        BY <2>2, CaptureWrites
      <4>3. payment[r].status = "PENDING" => payment'[r].status # "CAPTURED"
        BY <2>2, CaptureWrites
      <4> QED
        BY <4>1, <4>2, <4>3 DEF Records
    <3> QED
      BY <1>1, <3>1, <3>2, <3>3 DEF Records
  <2> QED
    BY <1>1, <2>1, <2>2 DEF Capture, Captures
<1>2. CASE link[p] # "captured" /\ (EndAttempt(p, "FAILED") \/ EndAttempt(p, "CANCELLED"))
  BY <1>2, EndAttemptRecords
<1> QED
  BY <1>1, <1>2 DEF ApplyOutcome

\* No step forgets a reference or a capture, or records a capture that was none.
LEMMA NextRecords ==
  ASSUME IInv, [Next]_vars
  PROVE  \A r \in Payment : Records(r)
<1>0. CASE UNCHANGED payment
  BY <1>0 DEF Records
<1>1. ASSUME NEW c \in Checkout, CheckoutStep(c)
      PROVE  \A r \in Payment : Records(r)
  <2>1. ASSUME NEW p \in Payment, NEW q \in Quote, ReserveForPayment(c, p, q)
        PROVE  \A r \in Payment : Records(r)
    BY <2>1 DEF ReserveForPayment, Records, IInv, Core, CoreType, Rows
  <2> QED
    BY <1>0, <1>1, <2>1
       DEF CheckoutStep, StartCheckout, Reprice, BeginPayment, AbandonPayment,
           ConfirmPayment, CancelPayment, CheckoutExpires, SweepCheckout, PurgeCheckout
<1>2. ASSUME NEW p \in Payment, PaymentStep(p)
      PROVE  \A r \in Payment : Records(r)
  <2>1. CASE RecordLink(p)
    BY <2>1 DEF RecordLink, Records, IInv, Core, CoreType, PaymentRow
  <2>2. CASE PaymentWindowEnds(p)
    BY <2>2 DEF PaymentWindowEnds, Records, IInv, Core, CoreType, PaymentRow
  <2>3. CASE StartFailed(p)
    BY <2>3, EndAttemptRecords DEF StartFailed
  <2>4. CASE Webhook(p)
    <3>1. payment[p].ref => payment[p].status # "NONE"
      BY DEF IInv, Core, Rows
    <3> QED
      BY <1>0, <2>4, <3>1, ApplyOutcomeRecords DEF Webhook
  <2> QED
    BY <1>0, <1>2, <2>1, <2>2, <2>3, <2>4
       DEF PaymentStep, ProviderCreatesLink, CreatePaymentFails, DropLink,
           BeginPaymentDies, LinkEnds, SweepPayment
<1>3. ASSUME NEW call \in calls, CallStep(call)
      PROVE  \A r \in Payment : Records(r)
  <2>1. CASE Ask(call)
    <3>1. call.payment \in Payment /\ payment[call.payment].status # "NONE"
      BY <2>1 DEF Ask, IInv, Outer, Memories
    <3> QED
      BY <1>0, <2>1, <3>1, ApplyOutcomeRecords
         DEF Ask, AskConfirm, AskCaptured, AskNotCaptured
  <2>2. CASE EndCall(call)
    <3>1. \A r \in CallTargets(call) : r \in Payment
      BY <2>2 DEF EndCall, CallTargets, PendingPayments, IInv, Outer, OuterType, Memories, Call
    <3> QED
      BY <1>0, <2>2, <3>1, EndAttemptRecords DEF EndCall
  <2> QED
    BY <1>0, <1>3, <2>1, <2>2 DEF CallStep, StopLink, CallFails
<1>4. CASE UNCHANGED vars
  BY <1>0, <1>4 DEF vars
<1> QED
  BY <1>1, <1>2, <1>3, <1>4 DEF Next

\* A step after which every link is where it was, and no begin has less behind it, keeps
\* what is known of the links.
LEMMA LinksRest ==
  ASSUME LinkInv, \A r \in Payment : Records(r), UNCHANGED <<link, settled>>,
         \A r \in Payment : attempt'[r] \in {"none", "creating"} =>
                              attempt[r] \in {"none", "creating"}
  PROVE  LinkInv'
BY DEF LinkInv, Records, LinkEnded

\* A link that moves, while it has no end, leaves the other links alone.
LEMMA LinkMoves ==
  ASSUME IInv, LinkInv, \A r \in Payment : Records(r), NEW p \in Payment,
         link[p] \in {"none", "pending"},
         NEW l, link' = [link EXCEPT ![p] = l],
         l \in {"captured", "mispaid", "failed"} => payment[p].ref,
         attempt'[p] \notin {"none", "creating"},
         \A r \in Payment \ {p} : attempt'[r] = attempt[r],
         UNCHANGED <<payment, settled>>
  PROVE  LinkInv'
<1>1. p \notin settled /\ payment[p].status # "CAPTURED"
  BY DEF LinkInv, LinkEnded
<1>2. link'[p] = l /\ \A r \in Payment \ {p} : link'[r] = link[r]
  BY DEF IInv, Outer, OuterType
<1> QED
  BY <1>1, <1>2 DEF LinkInv, LinkEnded

\* Every step keeps what is known of the links.
LEMMA NextKeepsLinks ==
  ASSUME IInv, LinkInv, [Next]_vars
  PROVE  LinkInv'
<1>0. \A r \in Payment : Records(r)
  BY NextRecords
<1>1. CASE UNCHANGED <<attempt, link, settled>>
  BY <1>0, <1>1, LinksRest
<1>2. ASSUME NEW p \in Payment, UNCHANGED <<link, settled>>, NEW a,
             attempt' = [attempt EXCEPT ![p] = a], a = "over" \/ attempt[p] = "none"
      PROVE  LinkInv'
  <2>1. \A r \in Payment : attempt'[r] \in {"none", "creating"} =>
                             attempt[r] \in {"none", "creating"}
    BY <1>2 DEF IInv, Outer, OuterType
  <2> QED
    BY <1>0, <1>2, <2>1, LinksRest
<1>3. ASSUME NEW c \in Checkout, CheckoutStep(c)
      PROVE  LinkInv'
  <2>1. ASSUME NEW p \in Payment, NEW q \in Quote, ReserveForPayment(c, p, q)
        PROVE  LinkInv'
    <3>1. attempt[p] = "none"
      BY <2>1 DEF ReserveForPayment, IInv, Outer, Memories
    <3> QED
      BY <1>2, <2>1, <3>1 DEF ReserveForPayment
  <2> QED
    BY <1>1, <1>3, <2>1
       DEF CheckoutStep, StartCheckout, Reprice, BeginPayment, AbandonPayment, providerVars,
           ConfirmPayment, CancelPayment, CheckoutExpires, SweepCheckout, PurgeCheckout
<1>4. ASSUME NEW p \in Payment, PaymentStep(p)
      PROVE  LinkInv'
  <2>1. ASSUME attempt[p] = "creating", NEW l \in {"none", "pending"},
               link' = [link EXCEPT ![p] = l], NEW a \in {"created", "refused"},
               attempt' = [attempt EXCEPT ![p] = a], UNCHANGED <<payment, settled>>
        PROVE  LinkInv'
    <3>1. link[p] = "none"
      BY <2>1 DEF LinkInv
    <3>2. attempt'[p] = a /\ \A r \in Payment \ {p} : attempt'[r] = attempt[r]
      BY <2>1 DEF IInv, Outer, OuterType
    <3> QED
      BY <1>0, <2>1, <3>1, <3>2, LinkMoves
  <2>2. CASE ProviderCreatesLink(p)
    BY <2>1, <2>2 DEF ProviderCreatesLink
  <2>3. CASE CreatePaymentFails(p)
    BY <2>1, <2>3 DEF CreatePaymentFails
  <2>4. ASSUME NEW how \in Outcome, LinkEnds(p, how)
        PROVE  LinkInv'
    <3>1. attempt[p] \notin {"none", "creating"}
      BY <2>4 DEF LinkEnds, LinkInv
    <3>2. /\ link[p] = "pending"
          /\ link' = [link EXCEPT ![p] = how]
          /\ how \in {"captured", "mispaid", "failed"} => payment[p].ref
          /\ UNCHANGED <<payment, attempt, settled>>
      BY <2>4 DEF LinkEnds
    <3> QED
      BY <1>0, <3>1, <3>2, LinkMoves
  <2>5. CASE Webhook(p)
    <3>1. LinkEnded(p) /\ settled' = settled \cup {p} /\ UNCHANGED <<attempt, link>>
      BY <2>5 DEF Webhook, providerVars
    <3>2. link[p] = "captured" => payment'[p].status = "CAPTURED"
      <4>1. link[p] = "captured" => payment[p].ref
        BY DEF LinkInv
      <4>2. payment[p].ref => payment[p].status # "NONE"
        BY DEF IInv, Core, Rows
      <4> QED
        BY <2>5, <4>1, <4>2, ApplyOutcomeRecords DEF Webhook
    <3> QED
      BY <1>0, <3>1, <3>2 DEF LinkInv, LinkEnded, Records
  <2>6. CASE attempt' = [attempt EXCEPT ![p] = "over"] /\ UNCHANGED <<link, settled>>
    BY <1>2, <2>6
  <2> QED
    BY <1>1, <1>4, <2>2, <2>3, <2>4, <2>5, <2>6
       DEF PaymentStep, RecordLink, DropLink, StartFailed, BeginPaymentDies,
           SweepPayment, PaymentWindowEnds, providerVars
<1>5. ASSUME NEW call \in calls, CallStep(call)
      PROVE  LinkInv'
  <2>1. CASE StopLink(call)
    <3>1. PICK p \in Payment : p = call.payment
      BY <2>1 DEF StopLink, IInv, Outer, Memories
    <3>2. CASE link' # link
      <4>0. link[p] = "pending"
        BY <2>1, <3>1, <3>2 DEF StopLink
      <4>1. attempt[p] \notin {"none", "creating"}
        BY <4>0 DEF LinkInv
      <4>2. link' = [link EXCEPT ![p] = "closed"] /\ UNCHANGED <<payment, attempt, settled>>
        BY <2>1, <3>1, <3>2 DEF StopLink
      <4> QED
        BY <1>0, <4>0, <4>1, <4>2, LinkMoves
    <3>3. CASE UNCHANGED link
      <4>1. UNCHANGED <<attempt, link, settled>>
        BY <2>1, <3>3 DEF StopLink
      <4> QED
        BY <1>1, <4>1
    <3> QED
      BY <3>2, <3>3
  <2> QED
    BY <1>1, <1>5, <2>1 DEF CallStep, Ask, EndCall, CallFails, providerVars
<1>6. CASE UNCHANGED vars
  BY <1>1, <1>6 DEF vars, providerVars
<1> QED
  BY <1>3, <1>4, <1>5, <1>6 DEF Next

\* The invariant of the provider's links holds throughout, beside that of the rows.
THEOREM LinksAndRowsAgree == Spec => []LinkInv
<1>1. Init => LinkInv
  BY DEF Init, LinkInv, LinkEnded, NoPayment
<1>2. IInv /\ LinkInv /\ [Next]_vars => LinkInv'
  BY NextKeepsLinks
<1> QED
  BY <1>1, <1>2, Invariance, PTL DEF Spec

\* Nobody is sent goods for money the provider did not take, and money it took is
\* recorded, or its delivery is still due and can find the payment by its reference.
MoneyAgrees ==
  /\ \A o \in orders : link[o.payment] = "captured"
  /\ \A p \in Payment :
       /\ payment[p].status = "CAPTURED" => link[p] = "captured"
       /\ link[p] = "captured" =>
            payment[p].status = "CAPTURED" \/ (payment[p].ref /\ p \notin settled)

\* The safety half of CaptureIsRecorded: whatever was cancelled, expired, superseded or
\* lost in a crash, no money is ever taken that nothing will record.
THEOREM MoneyIsRecordedOrDue == Spec => []MoneyAgrees
<1>1. IInv /\ LinkInv => MoneyAgrees
  <2> SUFFICES ASSUME IInv, LinkInv PROVE MoneyAgrees
    OBVIOUS
  <2>1. \A o \in orders : o.payment \in Payment /\ payment[o.payment].status = "CAPTURED"
    BY DEF IInv, Core, CoreType, OrderRow, OneOrderPerCheckout
  <2> QED
    BY <2>1 DEF LinkInv, MoneyAgrees
<1> QED
  BY <1>1, Invariance, LinksAndRowsAgree, PTL

\* The delivery of a capture always records it: none is answered and forgotten, neither
\* as ignored nor as one of an attempt that ended before.
THEOREM DeliveriesRecordCaptures ==
  Spec => [][\A p \in Payment :
               Webhook(p) /\ link[p] = "captured" => payment'[p].status = "CAPTURED"]_vars
<1> DEFINE Recorded ==
      \A p \in Payment :
        Webhook(p) /\ link[p] = "captured" => payment'[p].status = "CAPTURED"
<1>1. LinkInv' => [Recorded]_vars
  BY DEF LinkInv, Webhook, providerVars
<1> QED
  BY <1>1, LinksAndRowsAgree, PTL DEF Spec

\* What was sold stays sold as it was: a second capture, a late one or a repeated one
\* neither adds units to a completed checkout nor places another order for it, and
\* nothing takes its units back to the shelf.
THEOREM SalesStand ==
  Spec => [][\A c \in Checkout : checkout[c].status = "COMPLETED" =>
               /\ checkout'[c].status = "COMPLETED"
               /\ sold'[c] = sold[c]
               /\ \A o \in orders' : o.checkout = c => o \in orders]_vars
<1> DEFINE Stands ==
      \A c \in Checkout : checkout[c].status = "COMPLETED" =>
        /\ checkout'[c].status = "COMPLETED"
        /\ sold'[c] = sold[c]
        /\ \A o \in orders' : o.checkout = c => o \in orders
<1> DEFINE MoneyStays ==
      /\ orders \subseteq orders'
      /\ \A p \in Payment : payment[p].status = "CAPTURED" =>
           /\ payment'[p].status = "CAPTURED"
           /\ payment[p].order => payment'[p].order
<1>1. IInv /\ IInv' /\ [MoneyStays]_vars => [Stands]_vars
  <2> SUFFICES ASSUME IInv, IInv', orders \subseteq orders',
                      NEW c \in Checkout, checkout[c].status = "COMPLETED"
               PROVE  /\ checkout'[c].status = "COMPLETED"
                      /\ sold'[c] = sold[c]
                      /\ \A o \in orders' : o.checkout = c => o \in orders
    OBVIOUS
  <2>1. PICK o \in orders : o.checkout = c
    BY DEF IInv, Core, OneOrderPerCheckout
  <2>2. sold[c] = Units[o.quote]
    BY <2>1 DEF IInv, Core, OneOrderPerCheckout
  <2>3. o \in orders'
    OBVIOUS
  <2>4. sold'[c] = Units[o.quote] /\ checkout'[c].status = "COMPLETED"
    BY <2>1, <2>3 DEF IInv, Core, OneOrderPerCheckout
  <2>5. \A d \in orders' : d.checkout = c => d = o
    BY <2>1, <2>3 DEF IInv, Core, OneOrderPerCheckout
  <2> QED
    BY <2>2, <2>4, <2>5
<1> QED
  BY <1>1, Invariance, MoneyStaysRecorded, PTL DEF Spec, MoneyIsKept

=============================================================================
