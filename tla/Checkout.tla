------------------------------ MODULE Checkout ------------------------------
(***************************************************************************)
(* Checkout, payment attempts, stock and discount reservations, and the    *)
(* order a captured payment becomes: packages/commerce/src/checkout.       *)
(*                                                                         *)
(* Every transaction of that code starts by locking its checkout row, so   *)
(* one transaction is one action here.  What happens between transactions  *)
(* is kept apart: the provider call of beginPayment, and the calls of      *)
(* confirmPayment, cancelPayment and the expiry sweep, which read a        *)
(* payment, talk to the provider and only then lock the checkout.  Any of  *)
(* them may die between two steps.                                         *)
(*                                                                         *)
(* One stocked variant at one location and one discount code stand for all *)
(* of them.  A quote stands for everything repriceCheckout computes.       *)
(***************************************************************************)
EXTENDS Integers, FiniteSets, Functions

CONSTANTS
  Checkout,    \* checkout rows
  Cart,        \* carts; several checkouts may start from one cart
  Payment,     \* payment attempts
  Quote,       \* what pricing can come to (contents, discount, total)
  Units,       \* Units[q]: units of the variant quote q asks for
  Total,       \* Total[q]: the amount of quote q
  Discounted,  \* Discounted[q]: quote q uses the discount code
  OnHand,      \* units on sale at the start
  Oversell,    \* the variant's inventory policy is CONTINUE, not DENY
  UsageLimit,  \* the discount's usage limit
  Outcome,     \* how the provider's hosted link can end
  MaxCalls,    \* bound: confirm, cancel and sweep calls under way at once
  None         \* no checkout, no cart, no payment, no quote

ASSUME CatalogueAssumption ==
  /\ Units \in [Quote -> Nat]
  /\ Total \in [Quote -> Nat]
  /\ Discounted \in [Quote -> BOOLEAN]
  /\ OnHand \in Nat
  /\ Oversell \in BOOLEAN
  /\ UsageLimit \in Nat

ASSUME OutcomeAssumption ==
  Outcome \subseteq {"captured", "mispaid", "failed", "closed"}

ASSUME BoundAssumption == MaxCalls \in Nat

ASSUME NoneAssumption ==
  /\ None \notin Checkout
  /\ None \notin Cart
  /\ None \notin Payment
  /\ None \notin Quote

VARIABLES
  cart,        \* Cart.status
  checkout,    \* Checkout: status, cart, stored quote, whether expiresAt passed
  checking,    \* checkouts whose beginPayment holds the row and read its cart
  payment,     \* Payment: status, checkout, amount, provider reference, order
  attempt,     \* where the beginPayment that made a payment has got to
  link,        \* the provider's hosted link of a payment
  settled,     \* payments whose provider event is PROCESSED or IGNORED
  calls,       \* confirm, cancel and sweep calls under way
  available,   \* InventoryLevel.available
  reserved,    \* InventoryLevel.reserved
  held,        \* units of a checkout's ACTIVE reservations
  sold,        \* units of a checkout's CONVERTED reservations
  uses,        \* Discount.usageCount
  redemption,  \* DiscountRedemption.status of a checkout
  orders       \* Order rows

vars == <<cart, checkout, checking, payment, attempt, link, settled, calls,
          available, reserved, held, sold, uses, redemption, orders>>

stockVars == <<available, reserved, held, sold>>
discountVars == <<uses, redemption>>
providerVars == <<attempt, link>>

CallKind == {"confirm", "cancel", "sweep"}
Phase == {"asking", "stopping", "ending", "unasked"}
Call == [kind: CallKind, checkout: Checkout, payment: Payment \cup {None}, phase: Phase]

NoRow == [status |-> "NONE", cart |-> None, quote |-> None, expired |-> FALSE]
NoPayment == [status |-> "NONE", checkout |-> None, amount |-> 0,
              ref |-> FALSE, order |-> FALSE, expired |-> FALSE]

CheckoutRow ==
  [status: {"NONE", "OPEN", "PAYMENT_PENDING", "COMPLETED", "EXPIRED"},
   cart: Cart \cup {None}, quote: Quote \cup {None}, expired: BOOLEAN]
PaymentRow ==
  [status: {"NONE", "PENDING", "CAPTURED", "FAILED", "CANCELLED"},
   checkout: Checkout \cup {None}, amount: Nat,
   ref: BOOLEAN, order: BOOLEAN, expired: BOOLEAN]
OrderRow ==
  [checkout: Checkout, payment: Payment, quote: Quote,
   shortage: BOOLEAN, overLimit: BOOLEAN]

\* The tables of state.ts: every status change the code asserts to be one of these.
CheckoutMoves ==
  {<<"OPEN", "PAYMENT_PENDING">>, <<"OPEN", "EXPIRED">>, <<"OPEN", "COMPLETED">>,
   <<"PAYMENT_PENDING", "OPEN">>, <<"PAYMENT_PENDING", "COMPLETED">>,
   <<"PAYMENT_PENDING", "EXPIRED">>, <<"EXPIRED", "COMPLETED">>}
PaymentMoves ==
  {<<"PENDING", "CAPTURED">>, <<"PENDING", "FAILED">>, <<"PENDING", "CANCELLED">>,
   <<"FAILED", "CAPTURED">>, <<"CANCELLED", "CAPTURED">>}

Init ==
  /\ cart = [k \in Cart |-> "ACTIVE"]
  /\ checkout = [c \in Checkout |-> NoRow]
  /\ checking = {}
  /\ payment = [p \in Payment |-> NoPayment]
  /\ attempt = [p \in Payment |-> "none"]
  /\ link = [p \in Payment |-> "none"]
  /\ settled = {}
  /\ calls = {}
  /\ available = OnHand
  /\ reserved = 0
  /\ held = [c \in Checkout |-> 0]
  /\ sold = [c \in Checkout |-> 0]
  /\ uses = 0
  /\ redemption = [c \in Checkout |-> "NONE"]
  /\ orders = {}

-----------------------------------------------------------------------------
(* What the database's queries return, and which rows are locked.          *)

PendingPayments(c) ==
  {p \in Payment : payment[p].checkout = c /\ payment[p].status = "PENDING"}

\* No beginPayment transaction holds the checkout's row.
Free(c) == c \notin checking

LinkEnded(p) == link[p] \notin {"none", "pending"}

\* getPayment answers "captured"; "mispaid" carries another amount than the payment's.
MoneyTaken(p) == link[p] \in {"captured", "mispaid"}

-----------------------------------------------------------------------------
(* Ending an attempt without money: stock and the discount use go back and *)
(* the checkout reopens.                                                   *)

MutantReleaseStock(c) ==  \* the reservation is not marked RELEASED
  /\ available' = available + held[c]
  /\ reserved' = reserved - held[c]
  /\ UNCHANGED <<held, sold>>

ReleaseStock(c) ==
  /\ available' = available + held[c]
  /\ reserved' = reserved - held[c]
  /\ held' = [held EXCEPT ![c] = 0]
  /\ UNCHANGED sold

MutantReleaseDiscountUse(c) ==  \* a use is counted back whether or not one is reserved
  /\ redemption' = [redemption EXCEPT ![c] = IF @ = "RESERVED" THEN "RELEASED" ELSE @]
  /\ uses' = uses - 1

ReleaseDiscountUse(c) ==
  IF redemption[c] = "RESERVED"
  THEN /\ redemption' = [redemption EXCEPT ![c] = "RELEASED"]
       /\ uses' = IF uses > 0 THEN uses - 1 ELSE uses
  ELSE UNCHANGED discountVars

MutantEndAttempt(p, to) ==  \* the early return on a payment that has ended is gone
  LET c == payment[p].checkout IN
  /\ payment' = [payment EXCEPT ![p].status = to]
  /\ IF checkout[c].status = "PAYMENT_PENDING"
     THEN /\ checkout' = [checkout EXCEPT ![c].status = "OPEN"]
          /\ ReleaseStock(c)
          /\ ReleaseDiscountUse(c)
     ELSE UNCHANGED <<checkout, stockVars, discountVars>>

EndAttempt(p, to) ==
  LET c == payment[p].checkout IN
  IF payment[p].status # "PENDING"
  THEN UNCHANGED <<checkout, payment, stockVars, discountVars>>
  ELSE /\ payment' = [payment EXCEPT ![p].status = to]
       /\ IF checkout[c].status = "PAYMENT_PENDING"
          THEN /\ checkout' = [checkout EXCEPT ![c].status = "OPEN"]
               /\ ReleaseStock(c)
               /\ ReleaseDiscountUse(c)
          ELSE UNCHANGED <<checkout, stockVars, discountVars>>

-----------------------------------------------------------------------------
(* Applying the provider's view of a payment.                              *)

MutantAttachExtraCapture(p) ==  \* the extra payment is not linked to the order
  /\ checkout[payment[p].checkout].status = "COMPLETED"
  /\ payment' = [payment EXCEPT ![p].status = "CAPTURED"]
  /\ UNCHANGED <<cart, checkout, stockVars, discountVars, orders>>

\* A second capture for a checkout that has its order is attached to that order.
AttachExtraCapture(p) ==
  /\ checkout[payment[p].checkout].status = "COMPLETED"
  /\ payment' = [payment EXCEPT ![p].status = "CAPTURED", ![p].order = TRUE]
  /\ UNCHANGED <<cart, checkout, stockVars, discountVars, orders>>

QuoteMatches(p) ==
  LET q == checkout[payment[p].checkout].quote IN
  q # None /\ Total[q] = payment[p].amount

\* The checkout changed after the attempt ended: the money is recorded, no order.
CaptureWithoutOrder(p) ==
  /\ checkout[payment[p].checkout].status # "COMPLETED"
  /\ ~QuoteMatches(p)
  /\ payment' = [payment EXCEPT ![p].status = "CAPTURED"]
  /\ UNCHANGED <<cart, checkout, stockVars, discountVars, orders>>

\* An attempt in flight holds its stock; a late capture claims it again, below
\* zero if it must.  Either way the checkout's reservations become the order's.
MutantClaimStock(c, u, late) ==  \* a late capture takes what another checkout holds
  /\ reserved' = IF late THEN reserved + u ELSE reserved
  /\ sold' = [sold EXCEPT ![c] = @ + held[c] + IF late THEN u ELSE 0]
  /\ held' = [held EXCEPT ![c] = 0]
  /\ UNCHANGED available

ClaimStock(c, u, late) ==
  /\ available' = IF late THEN available - u ELSE available
  /\ reserved' = IF late THEN reserved + u ELSE reserved
  /\ sold' = [sold EXCEPT ![c] = @ + held[c] + IF late THEN u ELSE 0]
  /\ held' = [held EXCEPT ![c] = 0]

\* The reserved use is redeemed; without one, a use is taken if the limit allows,
\* and the redemption row (if there is one) is redeemed even when it does not.
ClaimDiscountUse(c, over) ==
  /\ uses' = IF redemption[c] = "RESERVED" \/ over THEN uses ELSE uses + 1
  /\ redemption' =
       [redemption EXCEPT ![c] = IF over /\ @ = "NONE" THEN "NONE" ELSE "REDEEMED"]

MutantLate(c) == TRUE  \* stock is claimed again for an attempt that still holds it

\* No attempt holds reservations for the checkout any more.
Late(c) == checkout[c].status # "PAYMENT_PENDING"

MutantShort(c) == Late(c) /\ ~Oversell /\ available < 0  \* only stock already oversold counts
Short(c) == Late(c) /\ ~Oversell /\ available < Units[checkout[c].quote]

OverLimit(c) ==
  /\ Discounted[checkout[c].quote]
  /\ redemption[c] # "RESERVED"
  /\ uses >= UsageLimit

PlaceOrder(p, c, q) ==
  /\ payment' = [r \in Payment |->
       IF r = p THEN [payment[r] EXCEPT !.status = "CAPTURED", !.order = TRUE]
       ELSE IF r \in PendingPayments(c)
            THEN [payment[r] EXCEPT !.status = "CANCELLED"]
            ELSE payment[r]]
  /\ ClaimStock(c, Units[q], Late(c))
  /\ IF Discounted[q] THEN ClaimDiscountUse(c, OverLimit(c)) ELSE UNCHANGED discountVars
  /\ orders' = orders \cup
       {[checkout |-> c, payment |-> p, quote |-> q,
         shortage |-> Short(c), overLimit |-> OverLimit(c)]}
  /\ checkout' = [checkout EXCEPT ![c].status = "COMPLETED"]
  /\ cart' = [cart EXCEPT ![checkout[c].cart] = "CONVERTED"]

MutantCompleteCheckout(p) ==  \* a checkout that has its order is not noticed
  LET c == payment[p].checkout IN
  /\ QuoteMatches(p)
  /\ PlaceOrder(p, c, checkout[c].quote)

CompleteCheckout(p) ==
  LET c == payment[p].checkout IN
  /\ checkout[c].status # "COMPLETED"
  /\ QuoteMatches(p)
  /\ PlaceOrder(p, c, checkout[c].quote)

MutantCapture(p) ==  \* only a pending attempt is ever captured
  IF payment[p].status # "PENDING"
  THEN UNCHANGED <<cart, checkout, payment, stockVars, discountVars, orders>>
  ELSE CaptureWithoutOrder(p) \/ CompleteCheckout(p)

Capture(p) ==
  IF payment[p].status = "CAPTURED"
  THEN UNCHANGED <<cart, checkout, payment, stockVars, discountVars, orders>>
  ELSE \/ AttachExtraCapture(p)
       \/ CaptureWithoutOrder(p)
       \/ CompleteCheckout(p)

\* applyPaymentOutcome, for the outcome the provider reports of a payment whose
\* reference is recorded.  Taken by the webhook and by every call that asked.
ApplyOutcome(p) ==
  /\ Free(payment[p].checkout)
  /\ \/ /\ link[p] = "captured"
        /\ Capture(p)
     \/ /\ link[p] \in {"failed", "mispaid"}
        /\ EndAttempt(p, "FAILED")
        /\ UNCHANGED <<cart, orders>>
     \/ /\ link[p] = "closed"
        /\ EndAttempt(p, "CANCELLED")
        /\ UNCHANGED <<cart, orders>>

-----------------------------------------------------------------------------
(* The shopper's steps.                                                    *)

\* startCheckout inserts a row; with the token of a live checkout it changes nothing.
StartCheckout(c, k, q) ==
  /\ checkout[c].status = "NONE"
  /\ cart[k] = "ACTIVE"
  /\ checkout' = [checkout EXCEPT ![c] =
       [status |-> "OPEN", cart |-> k, quote |-> q, expired |-> FALSE]]
  /\ UNCHANGED <<cart, checking, payment, providerVars, settled, calls,
                 stockVars, discountVars, orders>>

MutantReprice(c, q) ==  \* every view re-prices, whatever the checkout's status
  /\ checkout[c].status \in {"OPEN", "PAYMENT_PENDING"}
  /\ ~checkout[c].expired
  /\ Free(c)
  /\ checkout' = [checkout EXCEPT ![c].quote = q]
  /\ UNCHANGED <<cart, checking, payment, providerVars, settled, calls,
                 stockVars, discountVars, orders>>

\* Every step, and every view of an open checkout, stores what pricing comes to now.
Reprice(c, q) ==
  /\ checkout[c].status = "OPEN"
  /\ ~checkout[c].expired
  /\ Free(c)
  /\ checkout' = [checkout EXCEPT ![c].quote = q]
  /\ UNCHANGED <<cart, checking, payment, providerVars, settled, calls,
                 stockVars, discountVars, orders>>

\* beginPayment locks the checkout and reads the cart, which nothing locks.
BeginPayment(c) ==
  /\ checkout[c].status = "OPEN"
  /\ ~checkout[c].expired
  /\ Free(c)
  /\ cart[checkout[c].cart] = "ACTIVE"
  /\ checking' = checking \cup {c}
  /\ UNCHANGED <<cart, checkout, payment, providerVars, settled, calls,
                 stockVars, discountVars, orders>>

\* The same transaction: quote q is what the shopper confirmed and stock and the
\* discount can still supply it.
ReserveForPayment(c, p, q) ==
  /\ c \in checking
  /\ payment[p].status = "NONE"
  /\ Units[q] <= available \/ Oversell
  /\ Discounted[q] => uses < UsageLimit
  /\ available' = available - Units[q]
  /\ reserved' = reserved + Units[q]
  /\ held' = [held EXCEPT ![c] = @ + Units[q]]
  /\ uses' = IF Discounted[q] THEN uses + 1 ELSE uses
  /\ redemption' = [redemption EXCEPT ![c] = IF Discounted[q] THEN "RESERVED" ELSE @]
  /\ payment' = [payment EXCEPT ![p] =
       [status |-> "PENDING", checkout |-> c, amount |-> Total[q],
        ref |-> FALSE, order |-> FALSE, expired |-> FALSE]]
  /\ attempt' = [attempt EXCEPT ![p] = "creating"]
  /\ checkout' = [checkout EXCEPT
       ![c].status = "PAYMENT_PENDING", ![c].quote = q, ![c].expired = FALSE]
  /\ checking' = checking \ {c}
  /\ UNCHANGED <<cart, link, settled, calls, sold, orders>>

\* The same transaction refuses: the new quote is stored ("changed"), or it rolls back.
AbandonPayment(c) ==
  /\ c \in checking
  /\ \E q \in Quote : checkout' = [checkout EXCEPT ![c].quote = q]
  /\ checking' = checking \ {c}
  /\ UNCHANGED <<cart, payment, providerVars, settled, calls,
                 stockVars, discountVars, orders>>

-----------------------------------------------------------------------------
(* The provider call of beginPayment, outside any transaction, and the     *)
(* transaction after it.                                                   *)

ProviderCreatesLink(p) ==
  /\ attempt[p] = "creating"
  /\ link' = [link EXCEPT ![p] = "pending"]
  /\ attempt' = [attempt EXCEPT ![p] = "created"]
  /\ UNCHANGED <<cart, checkout, checking, payment, settled, calls,
                 stockVars, discountVars, orders>>

\* createPayment throws: the provider refused, or made a link and its answer was lost.
CreatePaymentFails(p) ==
  /\ attempt[p] = "creating"
  /\ \E l \in {"none", "pending"} : link' = [link EXCEPT ![p] = l]
  /\ attempt' = [attempt EXCEPT ![p] = "refused"]
  /\ UNCHANGED <<cart, checkout, checking, payment, settled, calls,
                 stockVars, discountVars, orders>>

\* The link is recorded, and only then given to the shopper.
RecordLink(p) ==
  /\ attempt[p] = "created"
  /\ payment[p].status = "PENDING"
  /\ payment' = [payment EXCEPT ![p].ref = TRUE]
  /\ attempt' = [attempt EXCEPT ![p] = "over"]
  /\ UNCHANGED <<cart, checkout, checking, link, settled, calls,
                 stockVars, discountVars, orders>>

\* The attempt ended meanwhile: its link is dropped, recorded nowhere.
DropLink(p) ==
  /\ attempt[p] \in {"created", "refused"}
  /\ payment[p].status # "PENDING"
  /\ attempt' = [attempt EXCEPT ![p] = "over"]
  /\ UNCHANGED <<cart, checkout, checking, payment, link, settled, calls,
                 stockVars, discountVars, orders>>

StartFailed(p) ==
  /\ attempt[p] = "refused"
  /\ payment[p].status = "PENDING"
  /\ EndAttempt(p, "FAILED")
  /\ attempt' = [attempt EXCEPT ![p] = "over"]
  /\ UNCHANGED <<cart, checking, link, settled, calls, orders>>

\* The process serving beginPayment stops between its two transactions.
BeginPaymentDies(p) ==
  /\ attempt[p] \in {"creating", "created", "refused"}
  /\ attempt' = [attempt EXCEPT ![p] = "over"]
  /\ UNCHANGED <<cart, checkout, checking, payment, link, settled, calls,
                 stockVars, discountVars, orders>>

-----------------------------------------------------------------------------
(* The provider: a link a shopper was given can be paid; any link can end  *)
(* otherwise.  Its event may arrive late, repeatedly or never.             *)

LinkEnds(p, how) ==
  /\ link[p] = "pending"
  /\ how \in {"captured", "mispaid", "failed"} => payment[p].ref
  /\ link' = [link EXCEPT ![p] = how]
  /\ UNCHANGED <<cart, checkout, checking, payment, attempt, settled, calls,
                 stockVars, discountVars, orders>>

\* A delivery whose processing failed is taken again, so it is no different from a
\* delivery not yet made; one that was PROCESSED or IGNORED is a duplicate.
Webhook(p) ==
  /\ LinkEnded(p)
  /\ p \notin settled
  /\ settled' = settled \cup {p}
  /\ IF payment[p].ref
     THEN ApplyOutcome(p)
     ELSE UNCHANGED <<cart, checkout, payment, stockVars, discountVars, orders>>
  /\ UNCHANGED <<checking, providerVars, calls>>

-----------------------------------------------------------------------------
(* Calls that read a payment, ask the provider, and act on the answer in a *)
(* later transaction.                                                      *)

ShopperCalls == {call \in calls : call.kind # "sweep"}

NewCall(kind, c, p, phase) ==
  calls' = calls \cup {[kind |-> kind, checkout |-> c, payment |-> p, phase |-> phase]}

CallDone(call) == calls' = calls \ {call}

CallMoves(call, phase) ==
  calls' = (calls \ {call}) \cup {[call EXCEPT !.phase = phase]}

ConfirmPayment(c) ==
  /\ Cardinality(ShopperCalls) < MaxCalls
  /\ checkout[c].status = "PAYMENT_PENDING"
  /\ \E p \in PendingPayments(c) :
       /\ payment[p].ref
       /\ NewCall("confirm", c, p, "asking")
  /\ UNCHANGED <<cart, checkout, checking, payment, providerVars, settled,
                 stockVars, discountVars, orders>>

\* Without a recorded link, or when its connection cannot be opened, there is nobody to
\* ask: straight to the last step.
CancelPayment(c) ==
  /\ Cardinality(ShopperCalls) < MaxCalls
  /\ checkout[c].status # "NONE"
  /\ \/ NewCall("cancel", c, None, "unasked")
     \/ /\ checkout[c].status = "PAYMENT_PENDING"
        /\ \E p \in PendingPayments(c) : payment[p].ref /\ NewCall("cancel", c, p, "asking")
  /\ UNCHANGED <<cart, checkout, checking, payment, providerVars, settled,
                 stockVars, discountVars, orders>>

MutantSweepPayment(p) ==  \* only attempts whose link was recorded are candidates
  /\ payment[p].status = "PENDING"
  /\ payment[p].expired
  /\ payment[p].ref
  /\ \A call \in calls : ~(call.kind = "sweep" /\ call.payment = p)
  /\ NewCall("sweep", payment[p].checkout, p, "asking")
  /\ UNCHANGED <<cart, checkout, checking, payment, providerVars, settled,
                 stockVars, discountVars, orders>>

\* A candidate past its window; a run of the sweep handles an attempt once, and asks if
\* it has a recorded link whose connection can be opened.
SweepPayment(p) ==
  /\ payment[p].status = "PENDING"
  /\ payment[p].expired
  /\ \A call \in calls : ~(call.kind = "sweep" /\ call.payment = p)
  /\ \/ payment[p].ref /\ NewCall("sweep", payment[p].checkout, p, "asking")
     \/ NewCall("sweep", payment[p].checkout, p, "unasked")
  /\ UNCHANGED <<cart, checkout, checking, payment, providerVars, settled,
                 stockVars, discountVars, orders>>

\* getPayment, and what its answer leads to.
AskConfirm(call) ==
  /\ call.kind = "confirm"
  /\ LinkEnded(call.payment)
  /\ ApplyOutcome(call.payment)
  /\ CallDone(call)

AskCaptured(call) ==
  /\ call.kind \in {"cancel", "sweep"}
  /\ MoneyTaken(call.payment)
  /\ ApplyOutcome(call.payment)
  /\ CallDone(call)

AskNotCaptured(call) ==
  /\ call.kind \in {"cancel", "sweep"}
  /\ ~MoneyTaken(call.payment)
  /\ CallMoves(call, IF call.kind = "cancel" \/ link[call.payment] = "pending"
                     THEN "stopping" ELSE "ending")
  /\ UNCHANGED <<cart, checkout, payment, stockVars, discountVars, orders>>

Ask(call) ==
  /\ call.phase = "asking"
  /\ AskConfirm(call) \/ AskCaptured(call) \/ AskNotCaptured(call)
  /\ UNCHANGED <<checking, providerVars, settled>>

\* The provider's cancelPayment; a link that was paid or closed stays as it is, one that
\* is open does when the provider refuses, and the caller is told of neither.
StopLink(call) ==
  /\ call.phase = "stopping"
  /\ \/ UNCHANGED link
     \/ /\ link[call.payment] = "pending"
        /\ link' = [link EXCEPT ![call.payment] = "closed"]
  /\ CallMoves(call, "ending")
  /\ UNCHANGED <<cart, checkout, checking, payment, attempt, settled,
                 stockVars, discountVars, orders>>

\* cancelPayment ends whichever attempt is pending by now; the sweep ends its own.
CallTargets(call) ==
  IF call.kind = "cancel"
  THEN PendingPayments(call.checkout)
  ELSE {call.payment}

EndCall(call) ==
  /\ call.phase \in {"ending", "unasked"}
  /\ Free(call.checkout)
  /\ IF CallTargets(call) = {}
     THEN UNCHANGED <<checkout, payment, stockVars, discountVars>>
     ELSE \E p \in CallTargets(call) : EndAttempt(p, "CANCELLED")
  /\ CallDone(call)
  /\ UNCHANGED <<cart, checking, providerVars, settled, orders>>

\* The provider answered "pending" to a confirm, could not be reached, or the process died.
CallFails(call) ==
  /\ CallDone(call)
  /\ UNCHANGED <<cart, checkout, checking, payment, providerVars, settled,
                 stockVars, discountVars, orders>>

-----------------------------------------------------------------------------
(* Time, and the sweep of checkouts.                                       *)

PaymentWindowEnds(p) ==
  /\ payment[p].status = "PENDING"
  /\ ~payment[p].expired
  /\ payment' = [payment EXCEPT ![p].expired = TRUE]
  /\ UNCHANGED <<cart, checkout, checking, providerVars, settled, calls,
                 stockVars, discountVars, orders>>

\* beginPayment renews expiresAt to outlive the attempt's own window.
CheckoutExpires(c) ==
  /\ checkout[c].status \in {"OPEN", "PAYMENT_PENDING"}
  /\ ~checkout[c].expired
  /\ Free(c)
  /\ \A p \in PendingPayments(c) : payment[p].expired
  /\ checkout' = [checkout EXCEPT ![c].expired = TRUE]
  /\ UNCHANGED <<cart, checking, payment, providerVars, settled, calls,
                 stockVars, discountVars, orders>>

SweepCheckout(c) ==
  /\ checkout[c].status = "OPEN"
  /\ checkout[c].expired
  /\ Free(c)
  /\ checkout' = [checkout EXCEPT ![c].status = "EXPIRED"]
  /\ UNCHANGED <<cart, checking, payment, providerVars, settled, calls,
                 stockVars, discountVars, orders>>

PurgeCheckout(c) ==
  /\ checkout[c].status = "EXPIRED"
  /\ checkout[c].quote # None
  /\ checkout' = [checkout EXCEPT ![c].quote = None]
  /\ UNCHANGED <<cart, checking, payment, providerVars, settled, calls,
                 stockVars, discountVars, orders>>

-----------------------------------------------------------------------------
CheckoutStep(c) ==
  \/ \E k \in Cart, q \in Quote : StartCheckout(c, k, q)
  \/ \E q \in Quote : Reprice(c, q)
  \/ BeginPayment(c)
  \/ \E p \in Payment, q \in Quote : ReserveForPayment(c, p, q)
  \/ AbandonPayment(c)
  \/ ConfirmPayment(c)
  \/ CancelPayment(c)
  \/ CheckoutExpires(c)
  \/ SweepCheckout(c)
  \/ PurgeCheckout(c)

PaymentStep(p) ==
  \/ ProviderCreatesLink(p)
  \/ CreatePaymentFails(p)
  \/ RecordLink(p)
  \/ DropLink(p)
  \/ StartFailed(p)
  \/ BeginPaymentDies(p)
  \/ \E how \in Outcome : LinkEnds(p, how)
  \/ Webhook(p)
  \/ SweepPayment(p)
  \/ PaymentWindowEnds(p)

CallStep(call) ==
  \/ Ask(call)
  \/ StopLink(call)
  \/ EndCall(call)
  \/ CallFails(call)

Next ==
  \/ \E c \in Checkout : CheckoutStep(c)
  \/ \E p \in Payment : PaymentStep(p)
  \/ \E call \in calls : CallStep(call)

Spec == Init /\ [][Next]_vars

(* The worker runs the payment sweep on a schedule and takes a candidate   *)
(* that failed again on the next run; the provider repeats a delivery that *)
(* was not answered with success.  A transaction ends, so a row lock is    *)
(* always given up.  A shopper promises nothing.                           *)

SweepCalls(p) == {call \in calls : call.kind = "sweep" /\ call.payment = p}
SweepAsks(p) == \E call \in SweepCalls(p) : Ask(call)
SweepStops(p) == \E call \in SweepCalls(p) : StopLink(call)
SweepEnds(p) == \E call \in SweepCalls(p) : EndCall(call)

BeginPaymentEnds(c) ==
  AbandonPayment(c) \/ \E p \in Payment, q \in Quote : ReserveForPayment(c, p, q)

Fairness ==
  /\ \A c \in Checkout : WF_vars(BeginPaymentEnds(c))
  /\ \A p \in Payment :
       /\ WF_vars(PaymentWindowEnds(p))
       /\ SF_vars(SweepPayment(p))
       /\ SF_vars(SweepAsks(p))
       /\ SF_vars(SweepStops(p))
       /\ SF_vars(SweepEnds(p))
       /\ SF_vars(Webhook(p))

FairSpec == Spec /\ Fairness

-----------------------------------------------------------------------------
(* Properties.                                                             *)

\* Every variable holds what the schema lets its column hold; the usage count never
\* goes below zero, whatever order attempts end in.
TypeOK ==
  /\ cart \in [Cart -> {"ACTIVE", "CONVERTED"}]
  /\ checkout \in [Checkout -> CheckoutRow]
  /\ checking \subseteq Checkout
  /\ payment \in [Payment -> PaymentRow]
  /\ attempt \in [Payment -> {"none", "creating", "created", "refused", "over"}]
  /\ link \in [Payment -> {"none", "pending", "captured", "mispaid", "failed", "closed"}]
  /\ settled \subseteq Payment
  /\ calls \subseteq Call
  /\ available \in Int
  /\ reserved \in Int
  /\ held \in [Checkout -> Nat]
  /\ sold \in [Checkout -> Nat]
  /\ uses \in Nat
  /\ redemption \in [Checkout -> {"NONE", "RESERVED", "RELEASED", "REDEEMED"}]
  /\ orders \subseteq OrderRow

\* A checkout in payment has exactly one pending attempt, for the total it shows, and
\* holds exactly the stock and the discount use of that quote; any other checkout has
\* no pending attempt and holds nothing, so an attempt that ended, was superseded or
\* was left behind by a crash keeps nothing from other shoppers.
HoldsWhilePaying ==
  \A c \in Checkout :
    IF checkout[c].status = "PAYMENT_PENDING"
    THEN /\ \E p \in Payment :
              PendingPayments(c) = {p} /\ payment[p].amount = Total[checkout[c].quote]
         /\ held[c] = Units[checkout[c].quote]
         /\ redemption[c] = "RESERVED" <=> Discounted[checkout[c].quote]
    ELSE /\ PendingPayments(c) = {}
         /\ held[c] = 0
         /\ redemption[c] # "RESERVED"

Started == {c \in Checkout : checkout[c].status # "NONE"}

\* Stock is neither made nor lost: what is on sale and what is reserved add up to what
\* there was, and the reserved part is exactly what checkouts hold and orders keep.
StockLedger ==
  /\ reserved >= 0
  /\ available + reserved = OnHand
  /\ reserved = SumFunctionOnSet([c \in Checkout |-> held[c] + sold[c]], Started)

\* The discount's usage count is the uses reserved by checkouts in payment plus the
\* orders that got one, so the last use is never sold twice; an order that got the
\* discount beyond the limit says so.
DiscountLedger ==
  /\ uses = Cardinality({c \in Checkout : redemption[c] = "RESERVED"})
            + Cardinality({o \in orders : Discounted[o.quote] /\ ~o.overLimit})
  /\ uses <= UsageLimit

\* A completed checkout, and no other, has exactly one order, whatever arrives twice
\* or late; it was paid, with the amount the order shows, and it keeps the stock of
\* what it shows.
OneOrderPerCheckout ==
  /\ \A c \in Checkout :
       checkout[c].status = "COMPLETED" <=> \E o \in orders : o.checkout = c
  /\ \A o1, o2 \in orders : o1.checkout = o2.checkout => o1 = o2
  /\ \A o \in orders :
       /\ payment[o.payment].status = "CAPTURED"
       /\ payment[o.payment].checkout = o.checkout
       /\ payment[o.payment].amount = Total[o.quote]
       /\ sold[o.checkout] = Units[o.quote]

\* Stock below zero is never silent: unless the variant may be oversold, some order
\* tells the merchant of the shortage.
OversellIsFlagged ==
  available < 0 /\ ~Oversell => \E o \in orders : o.shortage

\* Money taken is never forgotten: a failure notice, an expiry or a cancellation that
\* arrives after a capture undoes neither it nor its order.
MoneyIsKept ==
  [][/\ orders \subseteq orders'
     /\ \A p \in Payment : payment[p].status = "CAPTURED" =>
          /\ payment'[p].status = "CAPTURED"
          /\ payment[p].order => payment'[p].order]_vars

\* A shopper who pays the attempt in flight gets, in the same step, an order of the
\* quote the checkout held when payment began, with neither a stock shortage nor a
\* discount over its limit.
TimelyCaptureIsWhole ==
  [][\A p \in Payment :
       payment[p].status = "PENDING" /\ payment'[p].status = "CAPTURED" =>
         \E o \in orders' \ orders :
           /\ o.payment = p
           /\ o.quote = checkout[o.checkout].quote
           /\ ~o.shortage
           /\ ~o.overLimit]_vars

\* A capture for a checkout that already has its order is attached to that order, so
\* the merchant sees it and can refund it.
ExtraCaptureIsAttached ==
  [][\A p \in Payment :
       /\ payment[p].status # "CAPTURED"
       /\ payment'[p].status = "CAPTURED"
       /\ \E o \in orders : o.checkout = payment[p].checkout
       => payment'[p].order]_vars

\* assertCheckoutTransition and assertPaymentTransition never throw: no order of late,
\* duplicate and stale answers asks for a status change that is not in their tables, so
\* none of them rolls back a transaction that records money.
TransitionsAreAllowed ==
  [][/\ \A c \in Checkout :
          checkout[c].status # "NONE" /\ checkout'[c].status # checkout[c].status =>
            <<checkout[c].status, checkout'[c].status>> \in CheckoutMoves
     /\ \A p \in Payment :
          payment[p].status # "NONE" /\ payment'[p].status # payment[p].status =>
            <<payment[p].status, payment'[p].status>> \in PaymentMoves]_vars

\* Stock reserved for a payment does not stay reserved for it for ever, whatever the
\* shopper, the provider and crashes do: it is sold or goes back on sale.
StockComesBack ==
  \A c \in Checkout : held[c] > 0 ~> held[c] = 0

\* Money a provider took for a link Storevia gave out ends up recorded as captured,
\* even when the attempt it belonged to was cancelled or expired before.
CaptureIsRecorded ==
  \A p \in Payment : link[p] = "captured" ~> payment[p].status = "CAPTURED"

\* razorpay.ts says of a link that was paid that "the caller re-reads its state either
\* way", and cancelPayment that "money already taken completes the order instead": a
\* call that asked about an attempt never ends it as cancelled once its link is paid.
PaidAttemptIsNotCancelled ==
  [][\A call \in calls \ calls' :
       LET p == call.payment IN
       /\ call.phase = "ending"
       /\ payment[p].status = "PENDING"
       /\ payment'[p].status = "CANCELLED"
       => link[p] # "captured"]_vars

=============================================================================
